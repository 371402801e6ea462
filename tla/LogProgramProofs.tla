--------------------------- MODULE LogProgramProofs ---------------------------
(***************************************************************************)
(* Proofs about LogProgram, for any number of threads, scripts, sizes of   *)
(* pieces, log_fsize and INT_MAX.                                          *)
(***************************************************************************)
EXTENDS LogProgram, SequenceTheorems, TLAPS

-----------------------------------------------------------------------------
(* The characters of a piece *)

LEMMA SizesAreNat ==
  /\ \A piece \in Pieces : Size[piece] \in Nat
  /\ \A l \in Levels : RecordLen(l) \in Nat /\ RecordLen(l) <= RecordLen("ERROR")
BY LogAssumption DEF Pieces, Levels, RecordLen

LEMMA WrapInRange ==
  ASSUME NEW n \in -IntMax - 1 .. IntMax, NEW piece \in Pieces
  PROVE  Wrap(n + Size[piece]) \in -IntMax - 1 .. IntMax
BY LogAssumption DEF Wrap

\* What the file holds after n characters of thread t have been written at its
\* position: those behind what was there, and whatever lay further on.
LEMMA PutCells ==
  ASSUME TypeOK, NEW t \in Threads, NEW n \in Nat
  PROVE  LET f == Over(file, pos, Cells(t, n)) IN
         /\ f \in Seq(Cell)
         /\ Len(f) = IF pos + n > Len(file) THEN pos + n ELSE Len(file)
         /\ \A p \in 1 .. pos : f[p] = file[p]
         /\ \A k \in 1 .. n :
              f[pos + k] = [by |-> t, at |-> done[t] + k, of |-> RecordLen(lvl[t])]
<1> DEFINE c == Cells(t, n)
           f == Over(file, pos, c)
           m == IF pos + n > Len(file) THEN pos + n ELSE Len(file)
<1>1. /\ file \in Seq(Cell) /\ pos \in 0 .. Len(file) /\ Len(file) \in Nat
      /\ lvl[t] \in Levels /\ done[t] \in Nat /\ m \in Nat
  BY DEF TypeOK
<1>2. /\ c \in [1 .. n -> Cell]
      /\ \A k \in 1 .. n :
           c[k] = [by |-> t, at |-> done[t] + k, of |-> RecordLen(lvl[t])]
  BY <1>1, SizesAreNat DEF Cells, Cell
<1>3. c \in Seq(Cell) /\ Len(c) = n
  BY <1>2
<1> HIDE DEF c
<1>4. f = [k \in 1 .. m |-> IF k \in pos + 1 .. pos + n THEN c[k - pos] ELSE file[k]]
  BY <1>3 DEF Over
<1> HIDE DEF f
<1>5. f \in [1 .. m -> Cell]
  <2> SUFFICES ASSUME NEW k \in 1 .. m
               PROVE  (IF k \in pos + 1 .. pos + n THEN c[k - pos] ELSE file[k]) \in Cell
    BY <1>4
  <2>1. CASE k \in pos + 1 .. pos + n
    BY <1>1, <1>2, <2>1
  <2>2. CASE k \notin pos + 1 .. pos + n
    BY <1>1, <2>2
  <2> QED BY <2>1, <2>2
<1>6. f \in Seq(Cell) /\ Len(f) = m
  BY <1>1, <1>5
<1>7. \A p \in 1 .. pos : f[p] = file[p]
  BY <1>1, <1>4
<1>8. \A k \in 1 .. n : f[pos + k] = c[k]
  BY <1>1, <1>4
<1> QED BY <1>2, <1>6, <1>7, <1>8 DEF f, c

-----------------------------------------------------------------------------
(* One piece of a record *)

\* The thread that holds the lock writes a piece that still belongs to its
\* record: its first character stays where it is, at Base.
LEMMA PutKeepsBase ==
  ASSUME TypeOK, NEW t \in Threads, lock = t, NEW piece \in Pieces, Put(t, piece)
  PROVE  /\ lock' = t /\ Base' = Base
         /\ done'[t] = done[t] + Size[piece] /\ pos' = pos + Size[piece]
BY LogAssumption, SizesAreNat DEF TypeOK, Put, Base

LEMMA PutTyped ==
  ASSUME TypeOK, NEW t \in Threads, NEW piece \in Pieces, Put(t, piece)
  PROVE  /\ file' \in Seq(Cell) /\ pos' \in 0 .. Len(file')
         /\ wr_ch_count' \in -IntMax - 1 .. IntMax /\ total' \in Nat
         /\ done' \in [Threads -> Nat]
<1>1. Size[piece] \in Nat
  BY SizesAreNat
<1>2. file' = Over(file, pos, Cells(t, Size[piece])) /\ pos' = pos + Size[piece]
  BY DEF Put
<1>3. /\ file' \in Seq(Cell)
      /\ Len(file') = IF pos + Size[piece] > Len(file) THEN pos + Size[piece] ELSE Len(file)
  BY <1>1, <1>2, PutCells
<1>4. pos \in 0 .. Len(file) /\ Len(file) \in Nat
  BY DEF TypeOK
<1>5. pos' \in 0 .. Len(file')
  BY <1>1, <1>2, <1>3, <1>4
<1>6. wr_ch_count' \in -IntMax - 1 .. IntMax
  BY WrapInRange DEF Put, TypeOK
<1>7. total' \in Nat /\ done' \in [Threads -> Nat]
  <2>1. total \in Nat /\ done \in [Threads -> Nat]
    BY DEF TypeOK
  <2>2. total' = total + Size[piece] /\ done' = [done EXCEPT ![t] = @ + Size[piece]]
    BY DEF Put
  <2> QED BY <1>1, <2>1, <2>2
<1> QED BY <1>3, <1>5, <1>6, <1>7

LEMMA PutBounded ==
  ASSUME TypeOK, SizeInv, NEW t \in Threads, lock = t, NEW piece \in Pieces,
         Put(t, piece), done[t] + Size[piece] <= RecordLen(lvl[t])
  PROVE  SizeInv'
<1>1. /\ Size[piece] \in Nat
      /\ RecordLen(lvl[t]) \in Nat /\ RecordLen("ERROR") \in Nat
      /\ RecordLen(lvl[t]) <= RecordLen("ERROR")
  BY SizesAreNat DEF TypeOK, Levels
<1>2. /\ pos \in Nat /\ pos <= Len(file) /\ Len(file) \in Nat /\ done[t] \in Nat
      /\ total \in Nat /\ wr_ch_count \in Int /\ log_fsize \in Nat /\ IntMax \in Nat
  BY LogAssumption DEF TypeOK
<1>3. lock # Free /\ Base = pos - done[t]
  BY LogAssumption DEF Base
<1>4. Base' = Base /\ pos' = pos + Size[piece]
  BY PutKeepsBase
<1>5. Len(file') = IF pos + Size[piece] > Len(file) THEN pos + Size[piece] ELSE Len(file)
  BY <1>1, PutCells DEF Put
<1>6. pos' <= Len(file') /\ Base' >= 0
  BY <1>1, <1>2, <1>4, <1>5 DEF SizeInv
<1>7. ASSUME total' <= IntMax
      PROVE  /\ wr_ch_count' = total' /\ pos' <= total' /\ Base' < log_fsize
             /\ Len(file') < log_fsize + RecordLen("ERROR")
  <2>1. total' = total + Size[piece] /\ wr_ch_count' = Wrap(wr_ch_count + Size[piece])
    BY DEF Put
  <2>2. total <= IntMax
    BY <1>1, <1>2, <1>7, <2>1
  <2>3. /\ wr_ch_count = total /\ pos <= total /\ Base < log_fsize
        /\ Len(file) < log_fsize + RecordLen("ERROR")
    BY <2>2 DEF SizeInv, FileBounded
  <2>4. wr_ch_count' = total'
    BY <1>1, <1>2, <1>7, <2>1, <2>3 DEF Wrap
  <2>5. pos' <= total' /\ Base' < log_fsize
    BY <1>1, <1>2, <1>4, <2>1, <2>3
  <2>6. pos + Size[piece] < log_fsize + RecordLen("ERROR")
    BY <1>1, <1>2, <1>3, <2>3
  <2> QED BY <1>5, <2>3, <2>4, <2>5, <2>6
<1>8. RecordLen("ERROR")' = RecordLen("ERROR")
  BY DEF RecordLen
<1> QED BY <1>6, <1>7, <1>8 DEF SizeInv, FileBounded

LEMMA PutRecord ==
  ASSUME TypeOK, SizeInv, RecordInv, NEW t \in Threads, lock = t,
         NEW piece \in Pieces, Put(t, piece)
  PROVE  RecordInv'
<1>1. /\ Size[piece] \in Nat /\ pos \in Nat /\ done[t] \in Nat
      /\ lock # Free /\ Base = pos - done[t] /\ Base >= 0
  BY SizesAreNat, LogAssumption DEF TypeOK, Base, SizeInv
<1>2. /\ Base' = Base /\ lock' = t /\ lvl' = lvl
      /\ done'[t] = done[t] + Size[piece]
  BY PutKeepsBase DEF Put
<1>3. /\ \A p \in 1 .. pos : file'[p] = file[p]
      /\ \A k \in 1 .. Size[piece] :
           file'[pos + k] = [by |-> t, at |-> done[t] + k, of |-> RecordLen(lvl[t])]
  BY <1>1, PutCells DEF Put
<1>4. WholeUpTo(Base)'
  <2>1. \A p \in 1 .. Base : file'[p] = file[p] /\ (p > 1 => file'[p - 1] = file[p - 1])
    BY <1>1, <1>3
  <2>2. WholeUpTo(Base)
    BY DEF RecordInv
  <2> SUFFICES ASSUME NEW p \in 1 .. Base
               PROVE  LET c == file'[p] IN
                      /\ IF c.at = 1 THEN p = 1 \/ file'[p - 1].at = file'[p - 1].of
                                     ELSE p > 1 /\ file'[p - 1] = [c EXCEPT !.at = @ - 1]
                      /\ p = Base => c.at = c.of
    BY <1>2 DEF WholeUpTo
  <2> QED BY <1>1, <2>1, <2>2 DEF WholeUpTo
<1>5. ASSUME NEW k \in 1 .. done'[t]
      PROVE  file'[Base + k] = [by |-> t, at |-> k, of |-> RecordLen(lvl[t])]
  <2>1. CASE k <= done[t]
    <3>1. file[Base + k] = [by |-> t, at |-> k, of |-> RecordLen(lvl[t])]
      BY <1>1, <2>1 DEF RecordInv
    <3> QED BY <1>1, <1>3, <2>1, <3>1
  <2>2. CASE k > done[t]
    <3>1. k - done[t] \in 1 .. Size[piece] /\ pos + (k - done[t]) = Base + k
      BY <1>1, <1>2, <2>2
    <3> QED BY <1>1, <1>2, <1>3, <3>1
  <2> QED BY <1>1, <1>2, <2>1, <2>2
<1>6. RecordLen(lvl[t])' = RecordLen(lvl[t])
  BY <1>2 DEF RecordLen
<1> QED BY <1>2, <1>4, <1>5, <1>6 DEF RecordInv

-----------------------------------------------------------------------------
(* Types *)

LEMMA InitTyped == ProgInit => TypeOK
<1> SUFFICES ASSUME ProgInit PROVE TypeOK
  OBVIOUS
<1>1. /\ fp = "null" /\ file \in Seq(Cell) /\ pos \in 0 .. Len(file)
      /\ wr_ch_count \in -IntMax - 1 .. IntMax /\ total \in Nat
      /\ lock = Free /\ clock \in 0 .. MaxClock /\ tm \in 0 .. MaxClock
  BY LogAssumption DEF ProgInit, Init
<1>2. /\ pc \in [Threads -> {"out"}] /\ lvl \in [Threads -> {"INFO"}]
      /\ timep \in [Threads -> 0 .. MaxClock] /\ stamp \in [Threads -> 0 .. MaxClock]
      /\ done \in [Threads -> Nat]
  BY LogAssumption DEF ProgInit, Init
<1>3. NWorkers \in Nat /\ left \in [Workers -> Seq(Levels)]
  BY ProgramAssumption DEF ProgInit, Workers, NWorkers
<1> QED BY <1>1, <1>2, <1>3 DEF ProgInit, TypeOK, Levels

LEMMA StepTyped == TypeOK /\ [Next]_vars => TypeOK'
<1> SUFFICES ASSUME TypeOK, [Next]_vars PROVE TypeOK'
  OBVIOUS
<1> USE DEF TypeOK, At, MainGoes
<1>0. NWorkers \in Nat
  BY ProgramAssumption DEF NWorkers
<1>1. CASE InitOk
  BY <1>1, LogAssumption DEF InitOk, init_log, calls
<1>2. CASE InitFails
  BY <1>2 DEF InitFails, logVars, stream, calls
<1>3. CASE CreateThread
  BY <1>0, <1>3 DEF CreateThread, logVars, stream, calls
<1>4. CASE CreateFails
  BY <1>4 DEF CreateFails, logVars, stream, calls
<1>5. CASE Join
  BY <1>0, <1>5 DEF Join, logVars, stream, calls
<1>6. CASE JoinsDone
  BY <1>6 DEF JoinsDone, logVars, stream, calls
<1>7. CASE MainLogs
  <2>1. Main \in Threads /\ "ERROR" \in Levels
    BY ProgramAssumption DEF Levels
  <2> QED BY <1>7, <2>1 DEF MainLogs, log_to_file, stream
<1>8. CASE MainLogged
  BY <1>8 DEF MainLogged, logVars, stream, calls
<1>9. CASE Final
  BY <1>9 DEF Final, final_log, stream, calls
<1>10. ASSUME NEW k \in Workers, WorkerLogs(k) PROVE TypeOK'
  <2>1. k \in Threads
    BY ProgramAssumption
  <2>2. Head(left[k]) \in Levels /\ Tail(left[k]) \in Seq(Levels)
    BY <1>10 DEF WorkerLogs
  <2>3. left' \in [Workers -> Seq(Levels)]
    BY <1>10, <2>2 DEF WorkerLogs
  <2> QED BY <1>10, <2>1, <2>2, <2>3 DEF WorkerLogs, log_to_file, stream
<1>11. ASSUME NEW t \in Threads, Log(t) PROVE TypeOK'
  <2> USE <1>11 DEF Log, progVars
  <2>1. CASE LocalTime(t)
    BY <2>1 DEF LocalTime, stream
  <2>2. CASE Lock(t)
    BY <2>2 DEF Lock, stream
  <2>3. CASE PutHead(t)
    <3>1. "head" \in Pieces /\ Put(t, "head")
      BY <2>3 DEF PutHead, Pieces
    <3>2. pc' = [pc EXCEPT ![t] = "msg"] /\ stamp' = [stamp EXCEPT ![t] = tm]
      BY <2>3 DEF PutHead
    <3> QED BY <3>1, <3>2, PutTyped DEF Put
  <2>4. CASE PutMsg(t)
    <3>1. "msg" \in Pieces /\ Put(t, "msg")
      BY <2>4 DEF PutMsg, Pieces
    <3>2. pc' = [pc EXCEPT ![t] = "newline"] /\ stamp' = stamp
      BY <2>4 DEF PutMsg
    <3> QED BY <3>1, <3>2, PutTyped DEF Put
  <2>5. CASE PutNewline(t)
    <3>1. "newline" \in Pieces /\ Put(t, "newline")
      BY <2>5 DEF PutNewline, Pieces
    <3>2. /\ \/ pc' = [pc EXCEPT ![t] = "trace"]
             \/ pc' = [pc EXCEPT ![t] = "unlock"]
          /\ stamp' = stamp
      BY <2>5 DEF PutNewline
    <3> QED BY <3>1, <3>2, PutTyped DEF Put
  <2>6. CASE PutTrace(t)
    <3>1. "trace" \in Pieces /\ Put(t, "trace")
      BY <2>6 DEF PutTrace, Pieces
    <3>2. pc' = [pc EXCEPT ![t] = "unlock"] /\ stamp' = stamp
      BY <2>6 DEF PutTrace
    <3> QED BY <3>1, <3>2, PutTyped DEF Put
  <2>7. CASE Unlock(t)
    BY <2>7 DEF Unlock
  <2> QED BY <2>1, <2>2, <2>3, <2>4, <2>5, <2>6, <2>7 DEF Logging
<1>12. CASE Time
  BY <1>12, LogAssumption DEF Time, Tick, stream, calls, progVars
<1>13. CASE UNCHANGED vars
  BY <1>13 DEF vars, logVars, stream, calls, progVars
<1> QED BY <1>1, <1>2, <1>3, <1>4, <1>5, <1>6, <1>7, <1>8, <1>9, <1>10, <1>11,
           <1>12, <1>13 DEF Next, MainStep, Exited

\* The types hold in every run: the count of characters wraps within an int, and
\* the stream stays inside the file.
THEOREM TypeCorrect == Spec => []TypeOK
<1> QED BY InitTyped, StepTyped, PTL DEF Spec

-----------------------------------------------------------------------------
(* The invariants *)

IInv == TypeOK /\ LockInv /\ SizeInv /\ RecordInv /\ MainInv

LEMMA InitHolds == ProgInit => IInv
<1> SUFFICES ASSUME ProgInit PROVE IInv
  OBVIOUS
<1>1. TypeOK
  BY InitTyped
<1>2. LockInv
  BY LogAssumption DEF ProgInit, Init, LockInv, Inside, Before
<1>3. Base = 0 /\ Len(file) = 0
  BY DEF ProgInit, Init, Base
<1>4. RecordLen("ERROR") \in Nat
  BY SizesAreNat DEF Levels
<1>5. SizeInv
  BY <1>3, <1>4, LogAssumption DEF ProgInit, Init, SizeInv, FileBounded
<1>6. RecordInv
  BY <1>3 DEF ProgInit, Init, RecordInv, WholeUpTo
<1>7. MainInv
  BY ProgramAssumption DEF ProgInit, Init, MainInv, Workers, NWorkers
<1> QED BY <1>1, <1>2, <1>5, <1>6, <1>7 DEF IInv

\* main() starts no log while a thread is inside it, and it logs itself only
\* between two of its own steps.
LEMMA StepMain == IInv /\ [Next]_vars => MainInv'
<1> SUFFICES ASSUME IInv, [Next]_vars PROVE MainInv'
  OBVIOUS
<1> USE DEF IInv, TypeOK, MainInv, At, MainGoes
<1>0. /\ NWorkers \in Nat /\ created \in Nat /\ joined \in Nat /\ created <= NWorkers
      /\ Main \notin Workers /\ Threads = Workers \cup {Main}
      /\ Workers \subseteq Nat
  BY ProgramAssumption DEF NWorkers, Workers
<1>1. CASE InitOk
  BY <1>0, <1>1 DEF InitOk, init_log, calls
<1>2. CASE InitFails
  BY <1>0, <1>2 DEF InitFails, logVars, stream, calls
<1>3. CASE CreateThread
  BY <1>0, <1>3 DEF CreateThread, logVars, stream, calls
<1>4. CASE CreateFails
  BY <1>4 DEF CreateFails, logVars, stream, calls
<1>5. CASE Join
  BY <1>0, <1>5 DEF Join, Ended, logVars, stream, calls
<1>6. CASE JoinsDone
  BY <1>6 DEF JoinsDone, logVars, stream, calls
<1>7. CASE MainLogs
  BY <1>0, <1>7 DEF MainLogs, log_to_file, stream
<1>8. CASE MainLogged
  BY <1>8 DEF MainLogged, logVars, stream, calls
<1>9. CASE Final
  BY <1>9 DEF Final, final_log, stream, calls
<1>10. ASSUME NEW k \in Workers, WorkerLogs(k) PROVE MainInv'
  <2>1. k \in Threads /\ k # Main /\ k <= created /\ ~(k <= joined)
    BY <1>0, <1>10 DEF WorkerLogs
  <2>2. /\ \A j \in Workers : j # k => pc'[j] = pc[j] /\ left'[j] = left[j]
        /\ pc'[Main] = pc[Main]
    BY <1>0, <1>10, <2>1 DEF WorkerLogs, log_to_file
  <2>3. UNCHANGED <<mpc, created, joined, fp>>
    BY <1>10 DEF WorkerLogs, log_to_file
  <2>4. \A j \in Workers : (j <= joined' \/ j > created') => j # k
    BY <1>0, <2>1, <2>3
  <2> QED BY <1>0, <2>1, <2>2, <2>3, <2>4
<1>11. ASSUME NEW t \in Threads, Log(t) PROVE MainInv'
  <2>1. /\ pc[t] # "out" /\ UNCHANGED <<mpc, created, joined, left, fp>>
        /\ \A j \in Threads : j # t => pc'[j] = pc[j]
    BY <1>11 DEF Log, Logging, LocalTime, Lock, PutHead, PutMsg, PutNewline, PutTrace,
                 Put, Unlock, progVars
  <2> QED BY <1>0, <2>1
<1>12. CASE Time
  BY <1>12 DEF Time, Tick, stream, calls, progVars
<1>13. CASE UNCHANGED vars
  BY <1>13 DEF vars, logVars, stream, calls, progVars
<1> QED BY <1>1, <1>2, <1>3, <1>4, <1>5, <1>6, <1>7, <1>8, <1>9, <1>10, <1>11,
           <1>12, <1>13 DEF Next, MainStep, Exited

\* Nobody is inside the library while the stream is not open.
LEMMA MainMeansOpen == TypeOK /\ MainInv => CallsWhileOpen
<1> SUFFICES ASSUME TypeOK, MainInv, fp # "open", NEW t \in Threads PROVE pc[t] = "out"
  BY DEF CallsWhileOpen
<1>1. /\ NWorkers \in Nat /\ created \in Nat /\ joined \in Nat
      /\ Threads = Workers \cup {Main} /\ Workers \subseteq Nat \ {0}
  <2>1. NWorkers \in Nat
    BY ProgramAssumption DEF NWorkers
  <2>2. created \in Nat /\ joined \in Nat
    BY <2>1 DEF TypeOK
  <2>3. Workers \subseteq Nat \ {0}
    BY <2>1 DEF Workers
  <2>4. Threads = Workers \cup {Main}
    BY ProgramAssumption DEF Workers, NWorkers
  <2> QED BY <2>1, <2>2, <2>3, <2>4
<1>2. mpc = "init" \/ mpc = "exit"
  BY DEF MainInv
<1>3. CASE t = Main
  BY <1>2, <1>3 DEF MainInv
<1>4. CASE t \in Workers
  <2>1. created = 0 \/ joined = created
    BY <1>2 DEF MainInv
  <2> QED BY <1>1, <1>4, <2>1 DEF MainInv
<1> QED BY <1>1, <1>3, <1>4

\* The steps of a thread inside the library: each one is taken by the holder of
\* the lock, which has written what comes before its pc.
LEMMA StepLock == IInv /\ [Next]_vars => LockInv'
<1> SUFFICES ASSUME IInv, [Next]_vars PROVE LockInv'
  OBVIOUS
<1> USE DEF IInv, LockInv, At, Before
<1>0. /\ lock \in Threads \cup {Free} /\ Free \notin Threads
      /\ pc \in [Threads -> {"out", "localtime", "lock", "head", "msg", "newline", "trace", "unlock"}]
      /\ lvl \in [Threads -> Levels] /\ done \in [Threads -> Nat]
  BY LogAssumption DEF TypeOK
<1>1. ASSUME UNCHANGED <<lock, pc, lvl, done>> PROVE LockInv'
  BY <1>1 DEF RecordLen
<1>2. ASSUME NEW t \in Threads, NEW l \in Levels, log_to_file(t, l) PROVE LockInv'
  <2>1. /\ pc[t] = "out" /\ lock' = lock /\ done' = done
        /\ pc' = [pc EXCEPT ![t] = "localtime"] /\ lvl' = [lvl EXCEPT ![t] = l]
    BY <1>2 DEF log_to_file
  <2> QED BY <1>0, <2>1 DEF Inside, RecordLen
<1>3. ASSUME NEW t \in Threads, LocalTime(t) PROVE LockInv'
  <2>1. /\ pc[t] = "localtime" /\ UNCHANGED <<lock, done, lvl>>
        /\ pc' = [pc EXCEPT ![t] = "lock"]
    BY <1>3 DEF LocalTime, stream
  <2> QED BY <1>0, <2>1 DEF Inside, RecordLen
<1>4. ASSUME NEW t \in Threads, Lock(t) PROVE LockInv'
  <2>1. /\ pc[t] = "lock" /\ lock = Free /\ lock' = t /\ UNCHANGED <<done, lvl>>
        /\ pc' = [pc EXCEPT ![t] = "head"]
    BY <1>4 DEF Lock, stream
  <2> QED BY <1>0, <2>1 DEF Inside, RecordLen
<1> HIDE DEF Before
<1>5. ASSUME NEW t \in Threads, NEW piece \in Pieces, Put(t, piece), lock = t,
             NEW to \in Inside, pc' = [pc EXCEPT ![t] = to],
             to = "trace" => lvl[t] = "ERROR",
             Before(to, lvl[t]) = Before(pc[t], lvl[t]) + Size[piece]
      PROVE  LockInv'
  <2>1. /\ UNCHANGED <<lock, lvl>>
        /\ done' = [done EXCEPT ![t] = @ + Size[piece]]
    BY <1>5 DEF Put
  <2>2. done'[t] = Before(to, lvl[t])
    BY <1>0, <1>5, <2>1
  <2>3. \A u \in Threads : u # t => pc'[u] = pc[u] /\ done'[u] = done[u]
    BY <1>0, <1>5, <2>1
  <2>4. pc[t] \in Inside /\ pc'[t] = to
    BY <1>0, <1>5
  <2>5. \A u \in Threads : Before(pc[u], lvl[u])' = Before(pc'[u], lvl[u])
    BY <2>1 DEF Before, RecordLen
  <2> QED BY <1>0, <1>5, <2>1, <2>2, <2>3, <2>4, <2>5
<1>6. \A l \in Levels :
        /\ Before("head", l) = 0 /\ Before("msg", l) = Before("head", l) + Size["head"]
        /\ Before("newline", l) = Before("msg", l) + Size["msg"]
        /\ Before("trace", l) = Before("newline", l) + Size["newline"]
        /\ l # "ERROR" => Before("unlock", l) = Before("newline", l) + Size["newline"]
        /\ l = "ERROR" => Before("unlock", l) = Before("trace", l) + Size["trace"]
  BY SizesAreNat DEF Before, RecordLen, Pieces
<1>6a. \A t \in Threads : (pc[t] \in Inside => lock = t) /\ (pc[t] = "trace" => lvl[t] = "ERROR")
  OBVIOUS
<1> HIDE DEF LockInv
<1>7. ASSUME NEW t \in Threads, PutHead(t) PROVE LockInv'
  <2>1. pc[t] = "head" /\ pc' = [pc EXCEPT ![t] = "msg"] /\ Put(t, "head")
    BY <1>7 DEF PutHead
  <2>2. lock = t /\ "msg" \in Inside /\ "head" \in Pieces
    BY <1>6a, <2>1 DEF Inside, Pieces
  <2> QED BY <1>0, <1>5, <1>6, <2>1, <2>2
<1>8. ASSUME NEW t \in Threads, PutMsg(t) PROVE LockInv'
  <2>1. pc[t] = "msg" /\ pc' = [pc EXCEPT ![t] = "newline"] /\ Put(t, "msg")
    BY <1>8 DEF PutMsg
  <2>2. lock = t /\ "newline" \in Inside /\ "msg" \in Pieces
    BY <1>6a, <2>1 DEF Inside, Pieces
  <2> QED BY <1>0, <1>5, <1>6, <2>1, <2>2
<1>9. ASSUME NEW t \in Threads, PutNewline(t) PROVE LockInv'
  <2>1. /\ pc[t] = "newline" /\ Put(t, "newline")
        /\ pc' = [pc EXCEPT ![t] = IF lvl[t] = "ERROR" THEN "trace" ELSE "unlock"]
    BY <1>9 DEF PutNewline
  <2>2. lock = t /\ {"trace", "unlock"} \subseteq Inside /\ "newline" \in Pieces
    BY <1>6a, <2>1 DEF Inside, Pieces
  <2>3. CASE lvl[t] = "ERROR"
    BY <1>0, <1>5, <1>6, <2>1, <2>2, <2>3
  <2>4. CASE lvl[t] # "ERROR"
    BY <1>0, <1>5, <1>6, <2>1, <2>2, <2>4
  <2> QED BY <2>3, <2>4
<1>10. ASSUME NEW t \in Threads, PutTrace(t) PROVE LockInv'
  <2>1. pc[t] = "trace" /\ pc' = [pc EXCEPT ![t] = "unlock"] /\ Put(t, "trace")
    BY <1>10 DEF PutTrace
  <2>2. lock = t /\ lvl[t] = "ERROR" /\ "unlock" \in Inside /\ "trace" \in Pieces
    BY <1>6a, <2>1 DEF Inside, Pieces
  <2> QED BY <1>0, <1>5, <1>6, <2>1, <2>2
<1> USE DEF LockInv
<1>11. ASSUME NEW t \in Threads, Unlock(t) PROVE LockInv'
  <2>1. /\ pc[t] = "unlock" /\ pc' = [pc EXCEPT ![t] = "out"] /\ lock' = Free
        /\ done' = [done EXCEPT ![t] = 0] /\ lvl' = lvl
    BY <1>11 DEF Unlock
  <2>2. \A u \in Threads : u # t => pc[u] \notin Inside
    BY <1>0, <2>1 DEF Inside
  <2> QED BY <1>0, <2>1, <2>2 DEF Inside, RecordLen, Before
<1>12. CASE MainLogs
  BY <1>2, <1>12, ProgramAssumption DEF MainLogs, Levels
<1>13. ASSUME NEW k \in Workers, WorkerLogs(k) PROVE LockInv'
  <2>1. k \in Threads /\ Head(left[k]) \in Levels
    BY <1>13, ProgramAssumption DEF WorkerLogs, TypeOK
  <2> QED BY <1>2, <1>13, <2>1 DEF WorkerLogs
<1>14. CASE MainStep /\ ~MainLogs
  BY <1>1, <1>14 DEF MainStep, InitOk, InitFails, CreateThread, CreateFails, Join,
     JoinsDone, MainLogged, Final, init_log, final_log, logVars, stream, calls
<1>15. CASE Time \/ UNCHANGED vars
  BY <1>1, <1>15 DEF Time, Tick, vars, logVars, stream, calls
<1> QED BY <1>3, <1>4, <1>7, <1>8, <1>9, <1>10, <1>11, <1>12, <1>13, <1>14, <1>15
        DEF Next, Exited, Log, Logging

\* What the file holds is disturbed by the pieces of a record, by init_log(),
\* and by the lock that is taken or given back.
LEMMA QuietKeeps ==
  ASSUME IInv, UNCHANGED <<stream, lock, done>>,
         \A t \in Threads : lock = t => lvl'[t] = lvl[t]
  PROVE  SizeInv' /\ RecordInv'
<1>1. lock # Free => lvl'[lock] = lvl[lock]
  BY DEF IInv, TypeOK
<1>2. UNCHANGED <<file, pos, wr_ch_count, total, lock, done>>
  BY DEF stream
<1>3. Base' = Base
  BY <1>2 DEF Base
<1>4. RecordLen("ERROR")' = RecordLen("ERROR")
  BY DEF RecordLen
<1>5. SizeInv'
  BY <1>2, <1>3, <1>4 DEF IInv, SizeInv, FileBounded
<1>6. lock # Free => RecordLen(lvl[lock])' = RecordLen(lvl[lock])
  BY <1>1, <1>2 DEF RecordLen
<1>7. WholeUpTo(Base)'
  BY <1>2, <1>3 DEF IInv, RecordInv, WholeUpTo
<1>8. RecordInv'
  BY <1>2, <1>3, <1>6, <1>7 DEF IInv, RecordInv
<1> QED BY <1>5, <1>8

\* A record that is complete lies behind whole records.
LEMMA RecordComplete ==
  ASSUME IInv, NEW t \in Threads, lock = t, done[t] = RecordLen(lvl[t])
  PROVE  WholeUpTo(pos)
<1>1. /\ lock # Free /\ pos \in Nat /\ done[t] \in Nat /\ Base = pos - done[t]
      /\ Base >= 0
  BY LogAssumption DEF IInv, TypeOK, Base, SizeInv
<1>2. /\ WholeUpTo(Base)
      /\ \A k \in 1 .. done[t] : file[Base + k] = [by |-> t, at |-> k, of |-> done[t]]
  BY <1>1 DEF IInv, RecordInv
<1> SUFFICES ASSUME NEW p \in 1 .. pos
             PROVE  LET c == file[p] IN
                    /\ IF c.at = 1 THEN p = 1 \/ file[p - 1].at = file[p - 1].of
                                   ELSE p > 1 /\ file[p - 1] = [c EXCEPT !.at = @ - 1]
                    /\ p = pos => c.at = c.of
  BY DEF WholeUpTo
<1>3. CASE p <= Base
  BY <1>1, <1>2, <1>3 DEF WholeUpTo
<1>4. CASE p > Base
  <2> DEFINE k == p - Base
  <2>1. k \in 1 .. done[t] /\ p = Base + k /\ (p = pos => k = done[t])
    BY <1>1, <1>4
  <2>2. file[p] = [by |-> t, at |-> k, of |-> done[t]]
    BY <1>2, <2>1
  <2>3. CASE k = 1
    <3>1. p = 1 \/ (Base \in 1 .. Base /\ p - 1 = Base)
      BY <1>1, <2>1, <2>3
    <3>2. Base \in 1 .. Base => file[Base].at = file[Base].of
      BY <1>2 DEF WholeUpTo
    <3> QED BY <2>1, <2>2, <2>3, <3>1, <3>2
  <2>4. CASE k # 1
    <3>1. k - 1 \in 1 .. done[t] /\ p - 1 = Base + (k - 1) /\ p > 1
      BY <1>1, <2>1, <2>4
    <3>2. file[p - 1] = [by |-> t, at |-> k - 1, of |-> done[t]]
      BY <1>2, <3>1
    <3> HIDE DEF k
    <3> QED BY <2>1, <2>2, <2>4, <3>1, <3>2
  <2> QED BY <2>3, <2>4
<1> QED BY <1>1, <1>3, <1>4

LEMMA StepFile == IInv /\ [Next]_vars => SizeInv' /\ RecordInv'
<1> SUFFICES ASSUME IInv, [Next]_vars PROVE SizeInv' /\ RecordInv'
  OBVIOUS
<1>0. /\ lock \in Threads \cup {Free} /\ Free \notin Threads
      /\ lvl \in [Threads -> Levels]
      /\ \A t \in Threads : (pc[t] \in Inside <=> lock = t)
                            /\ done[t] = Before(pc[t], lvl[t])
  BY LogAssumption DEF IInv, TypeOK, LockInv
<1>1. ASSUME NEW t \in Threads, NEW l \in Levels, log_to_file(t, l)
      PROVE  SizeInv' /\ RecordInv'
  <2>1. lock # t
    BY <1>0, <1>1 DEF log_to_file, At, Inside
  <2> QED BY <1>0, <1>1, <2>1, QuietKeeps DEF log_to_file
<1>2. ASSUME NEW t \in Threads, Lock(t) PROVE SizeInv' /\ RecordInv'
  <2>1. done[t] = 0 /\ pos \in Nat
    <3>1. pc[t] = "lock" /\ done[t] = Before("lock", lvl[t])
      BY <1>0, <1>2 DEF Lock, At
    <3>2. pos \in Nat
      BY DEF IInv, TypeOK
    <3> QED BY <3>1, <3>2 DEF Before
  <2>2. /\ UNCHANGED <<file, pos, wr_ch_count, total, done, lvl>>
        /\ lock = Free /\ lock' = t /\ t # Free
    BY <1>0, <1>2 DEF Lock, stream
  <2>3. Base' = Base
    BY <2>1, <2>2 DEF Base
  <2>4. SizeInv'
    <3>1. RecordLen("ERROR")' = RecordLen("ERROR")
      BY DEF RecordLen
    <3> QED BY <2>2, <2>3, <3>1 DEF IInv, SizeInv, FileBounded
  <2>5. WholeUpTo(Base)'
    BY <2>2, <2>3 DEF IInv, RecordInv, WholeUpTo
  <2>6. RecordInv'
    BY <2>1, <2>2, <2>5 DEF RecordInv
  <2> QED BY <2>4, <2>6
<1>3. ASSUME NEW t \in Threads, PutHead(t) \/ PutMsg(t) \/ PutNewline(t) \/ PutTrace(t)
      PROVE  SizeInv' /\ RecordInv'
  <2>1. PICK piece \in Pieces :
           /\ Put(t, piece) /\ pc[t] = piece
           /\ piece = "trace" => lvl[t] = "ERROR"
    BY <1>3 DEF PutHead, PutMsg, PutNewline, PutTrace, At, Pieces, IInv, LockInv
  <2>2. lock = t
    BY <1>0, <2>1 DEF Inside, Pieces
  <2>3. Before(piece, lvl[t]) + Size[piece] <= RecordLen(lvl[t])
    <3>1. /\ Size["head"] \in Nat /\ Size["msg"] \in Nat
          /\ Size["newline"] \in Nat /\ Size["trace"] \in Nat
      BY SizesAreNat DEF Pieces
    <3>2. CASE piece = "head"
      BY <3>1, <3>2 DEF Before, RecordLen
    <3>3. CASE piece = "msg"
      BY <3>1, <3>3 DEF Before, RecordLen
    <3>4. CASE piece = "newline"
      BY <3>1, <3>4 DEF Before, RecordLen
    <3>5. CASE piece = "trace"
      BY <2>1, <3>1, <3>5 DEF Before, RecordLen
    <3> QED BY <3>2, <3>3, <3>4, <3>5 DEF Pieces
  <2> QED BY <1>0, <2>1, <2>2, <2>3, PutBounded, PutRecord DEF IInv
<1>4. ASSUME NEW t \in Threads, Unlock(t) PROVE SizeInv' /\ RecordInv'
  <2>1. /\ pc[t] = "unlock" /\ lock = t /\ lock' = Free
        /\ UNCHANGED <<file, wr_ch_count, total>>
        /\ pos' = IF wr_ch_count >= log_fsize THEN 0 ELSE pos
    BY <1>0, <1>4 DEF Unlock, At, Inside
  <2>2. done[t] = RecordLen(lvl[t])
    BY <1>0, <2>1 DEF Before
  <2>3. Base' = pos'
    BY <2>1 DEF Base
  <2>4. WholeUpTo(pos)
    BY <2>1, <2>2, RecordComplete
  <2>5. RecordInv'
    <3>1. /\ pos \in Nat
          /\ pos' = 0 \/ pos' = pos
      BY <2>1 DEF IInv, TypeOK
    <3>2. WholeUpTo(Base)'
      BY <2>1, <2>3, <2>4, <3>1 DEF WholeUpTo
    <3> QED BY <2>1, <3>2 DEF RecordInv
  <2>6. SizeInv'
    <3>1. RecordLen("ERROR")' = RecordLen("ERROR")
      BY DEF RecordLen
    <3>2. /\ pos \in Nat /\ Len(file) \in Nat /\ log_fsize \in Nat \ {0}
          /\ total \in Nat /\ wr_ch_count \in Int
      BY LogAssumption DEF IInv, TypeOK
    <3> QED BY <2>1, <2>3, <3>1, <3>2 DEF IInv, SizeInv, FileBounded
  <2> QED BY <2>5, <2>6
<1>5. CASE InitOk
  <2>1. created = 0 /\ \A t \in Threads : pc[t] = "out"
    <3>1. CallsWhileOpen
      BY MainMeansOpen DEF IInv
    <3> QED BY <1>5, <3>1 DEF InitOk, MainGoes, IInv, MainInv, CallsWhileOpen
  <2>2. lock = Free /\ lock' = Free
    BY <1>0, <1>5, <2>1 DEF InitOk, init_log, Inside
  <2>3. file' = << >> /\ pos' = 0 /\ wr_ch_count' = 0 /\ total' = 0 /\ Base' = 0
    BY <1>5, <2>2 DEF InitOk, init_log, Base
  <2>4. RecordLen("ERROR")' \in Nat
    BY SizesAreNat DEF Levels, RecordLen
  <2>5. SizeInv'
    BY <2>3, <2>4, LogAssumption DEF SizeInv, FileBounded
  <2>6. RecordInv'
    BY <2>2, <2>3 DEF RecordInv, WholeUpTo
  <2> QED BY <2>5, <2>6
<1>6. CASE MainLogs
  BY <1>1, <1>6, ProgramAssumption DEF MainLogs, Levels
<1>7. ASSUME NEW k \in Workers, WorkerLogs(k) PROVE SizeInv' /\ RecordInv'
  <2>1. k \in Threads /\ Head(left[k]) \in Levels
    BY <1>7, ProgramAssumption DEF WorkerLogs, IInv, TypeOK
  <2> QED BY <1>1, <1>7, <2>1 DEF WorkerLogs
<1>8. CASE MainStep /\ ~MainLogs /\ ~InitOk
  BY <1>8, QuietKeeps DEF MainStep, InitFails, CreateThread, CreateFails, Join,
     JoinsDone, MainLogged, Final, final_log, logVars, calls
<1>9. ASSUME NEW t \in Threads, LocalTime(t) PROVE SizeInv' /\ RecordInv'
  BY <1>9, QuietKeeps DEF LocalTime
<1>10. CASE Time \/ UNCHANGED vars
  BY <1>10, QuietKeeps DEF Time, Tick, vars, logVars, calls
<1> QED BY <1>2, <1>3, <1>4, <1>5, <1>6, <1>7, <1>8, <1>9, <1>10
        DEF Next, Exited, Log, Logging

LEMMA AlwaysIInv == Spec => []IInv
<1>1. IInv /\ [Next]_vars => IInv'
  BY StepTyped, StepLock, StepFile, StepMain DEF IInv
<1> QED BY InitHolds, <1>1, PTL DEF Spec

-----------------------------------------------------------------------------
(* The properties *)

\* Whatever the number of threads and the lengths of the pieces, the file is
\* bounded by log_fsize and one record while the count of characters fits an int.
THEOREM FileIsBounded == Spec => []FileBounded
<1>1. IInv => FileBounded
  <2> SUFFICES ASSUME IInv, total <= IntMax PROVE Len(file) < log_fsize + RecordLen("ERROR")
    BY DEF FileBounded
  <2> QED BY DEF IInv, SizeInv, FileBounded
<1> QED BY AlwaysIInv, <1>1, PTL

\* Up to the position of the stream the file is made of whole records.
THEOREM RecordsAreWhole == Spec => []WholeRecords
<1>1. IInv => WholeRecords
  BY DEF IInv, RecordInv, WholeRecords, Base
<1> QED BY AlwaysIInv, <1>1, PTL

\* Only between init_log() and final_log() is a thread inside the library.
THEOREM CallsOnlyWhileOpen == Spec => []CallsWhileOpen
<1>1. IInv => CallsWhileOpen
  BY MainMeansOpen DEF IInv
<1> QED BY AlwaysIInv, <1>1, PTL
=============================================================================
