------------------------------- MODULE OtusLog -------------------------------
(***************************************************************************)
(* The log library of hw-12/otuslog.c.  A call of log_to_file() takes the  *)
(* time outside the lock, into the one struct tm that localtime() has, and *)
(* then writes a record piece by piece under the lock; when the count of   *)
(* characters reaches log_fsize it rewinds the file.  A character is a     *)
(* cell that says which record it belongs to and where in it it stands.    *)
(***************************************************************************)
EXTENDS Integers, Sequences

CONSTANTS
  Threads,   \* the threads that call the library
  Free,      \* nobody: the holder of a lock that is free
  Size,      \* characters of each piece of a record
  log_fsize, \* init_log()'s fsize
  IntMax,    \* INT_MAX, of wr_ch_count
  MaxClock   \* bound on the clock of time()

Pieces == {"head", "msg", "newline", "trace"}
Levels == {"INFO", "ERROR"}    \* DEBUG and WARNING do what INFO does

ASSUME LogAssumption ==
  /\ Size \in [Pieces -> 0 .. IntMax]   \* fprintf() returns an int
  /\ log_fsize \in Nat \ {0} /\ IntMax \in Nat /\ log_fsize <= IntMax
  /\ MaxClock \in Nat
  /\ Free \notin Threads

VARIABLES
  fp,           \* "null", "open" or "closed"
  file, pos,    \* the file's characters and the stream's position
  wr_ch_count,
  total,        \* characters written, were there no INT_MAX (history)
  lock,         \* Free, or the thread that holds it
  clock,        \* the time
  tm,           \* localtime()'s static struct tm
  pc,           \* [Threads -> where its call of log_to_file() is]
  lvl,          \* [Threads -> the level of its call]
  timep,        \* [Threads -> what its call of time() returned]
  stamp,        \* [Threads -> the time its record's head shows]
  done          \* [Threads -> characters of its record written so far]

stream == <<file, pos, wr_ch_count, total>>
calls == <<pc, lvl, timep, stamp, done>>
logVars == <<fp, stream, lock, clock, tm, calls>>

-----------------------------------------------------------------------------

Init ==
  /\ fp = "null" /\ file = << >> /\ pos = 0 /\ wr_ch_count = 0 /\ total = 0
  /\ lock = Free /\ clock = 0 /\ tm = 0
  /\ pc = [t \in Threads |-> "out"]
  /\ lvl = [t \in Threads |-> "INFO"]
  /\ timep = [t \in Threads |-> 0] /\ stamp = [t \in Threads |-> 0]
  /\ done = [t \in Threads |-> 0]

\* fopen(.., "w") empties the file.
init_log ==
  /\ fp' = "open"
  /\ file' = << >> /\ pos' = 0 /\ wr_ch_count' = 0 /\ total' = 0
  /\ UNCHANGED <<lock, clock, tm, calls>>

\* fclose(); the mutex is destroyed and not used again.
final_log ==
  /\ fp' = "closed"
  /\ UNCHANGED <<stream, lock, clock, tm, calls>>

Tick ==
  /\ clock < MaxClock /\ clock' = clock + 1
  /\ UNCHANGED <<fp, stream, lock, tm, calls>>

At(t, from, to) == pc[t] = from /\ pc' = [pc EXCEPT ![t] = to]

\* A thread calls log_to_file(): first of all, time(NULL), ...
log_to_file(t, l) ==
  /\ At(t, "out", "localtime")
  /\ lvl' = [lvl EXCEPT ![t] = l]
  /\ timep' = [timep EXCEPT ![t] = clock]
  /\ UNCHANGED <<fp, stream, lock, clock, tm, stamp, done>>

\* ... then localtime(), whose result every thread shares, ...
LocalTime(t) ==
  /\ At(t, "localtime", "lock")
  /\ tm' = timep[t]
  /\ UNCHANGED <<fp, stream, lock, clock, lvl, timep, stamp, done>>

\* ... and only then the lock.
\* (faulty form of Lock: no lock is taken)
LockFree(t) ==
  /\ At(t, "lock", "head")
  /\ lock' = t
  /\ UNCHANGED <<fp, stream, clock, tm, lvl, timep, stamp, done>>

Lock(t) ==
  /\ At(t, "lock", "head")
  /\ lock = Free /\ lock' = t
  /\ UNCHANGED <<fp, stream, clock, tm, lvl, timep, stamp, done>>

RecordLen(l) == Size["head"] + Size["msg"] + Size["newline"]
                + (IF l = "ERROR" THEN Size["trace"] ELSE 0)

\* wr_ch_count is an int: past INT_MAX it goes on from INT_MIN (in the faulty
\* form it grows for ever).
WrapNever(n) == n
Wrap(n) == IF n > IntMax THEN n - 2 * (IntMax + 1) ELSE n

\* n characters of t's record at the position of the stream, over what is there.
Cells(t, n) == [k \in 1 .. n |-> [by |-> t, at |-> done[t] + k, of |-> RecordLen(lvl[t])]]
Over(s, p, c) == [k \in 1 .. (IF p + Len(c) > Len(s) THEN p + Len(c) ELSE Len(s)) |->
                    IF k \in p + 1 .. p + Len(c) THEN c[k - p] ELSE s[k]]

\* (faulty form of Put: the characters of one piece are not counted)
PutUncounted(t, piece) ==
  /\ file' = Over(file, pos, Cells(t, Size[piece]))
  /\ pos' = pos + Size[piece]
  /\ wr_ch_count' = Wrap(wr_ch_count + IF piece = "newline" THEN 0 ELSE Size[piece])
  /\ total' = total + Size[piece]
  /\ done' = [done EXCEPT ![t] = @ + Size[piece]]
  /\ UNCHANGED <<fp, lock, clock, tm, lvl, timep>>

Put(t, piece) ==
  /\ file' = Over(file, pos, Cells(t, Size[piece]))
  /\ pos' = pos + Size[piece]
  /\ wr_ch_count' = Wrap(wr_ch_count + Size[piece])
  /\ total' = total + Size[piece]
  /\ done' = [done EXCEPT ![t] = @ + Size[piece]]
  /\ UNCHANGED <<fp, lock, clock, tm, lvl, timep>>

\* The head shows what the struct tm holds by now.
PutHead(t) ==
  /\ At(t, "head", "msg") /\ Put(t, "head")
  /\ stamp' = [stamp EXCEPT ![t] = tm]

PutMsg(t) == At(t, "msg", "newline") /\ Put(t, "msg") /\ UNCHANGED stamp

PutNewline(t) ==
  /\ At(t, "newline", IF lvl[t] = "ERROR" THEN "trace" ELSE "unlock")
  /\ Put(t, "newline") /\ UNCHANGED stamp

\* do_backtrace_*(), for errors only.
PutTrace(t) == At(t, "trace", "unlock") /\ Put(t, "trace") /\ UNCHANGED stamp

\* (faulty form of Unlock: the lock is kept when the file is rewound)
UnlockUnlessRewound(t) ==
  /\ At(t, "unlock", "out")
  /\ IF wr_ch_count >= log_fsize THEN pos' = 0 /\ UNCHANGED lock
                                 ELSE lock' = Free /\ UNCHANGED pos
  /\ done' = [done EXCEPT ![t] = 0]
  /\ UNCHANGED <<fp, file, wr_ch_count, total, clock, tm, lvl, timep, stamp>>

\* rewind() when the file is full; wr_ch_count goes on counting.
Unlock(t) ==
  /\ At(t, "unlock", "out")
  /\ pos' = IF wr_ch_count >= log_fsize THEN 0 ELSE pos
  /\ lock' = Free
  /\ done' = [done EXCEPT ![t] = 0]
  /\ UNCHANGED <<fp, file, wr_ch_count, total, clock, tm, lvl, timep, stamp>>

Logging(t) ==
  \/ LocalTime(t) \/ Lock(t)
  \/ PutHead(t) \/ PutMsg(t) \/ PutNewline(t) \/ PutTrace(t)
  \/ Unlock(t)
=============================================================================
