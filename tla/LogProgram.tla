----------------------------- MODULE LogProgram ------------------------------
(***************************************************************************)
(* A program that logs: main() of hw-12/test.c over the library OtusLog.   *)
(* It starts its threads one after the other, each of which logs, waits    *)
(* for them, logs an error itself (malloc(-1) has failed), and closes the  *)
(* log.  When a thread cannot be created it waits for those that were.     *)
(***************************************************************************)
EXTENDS OtusLog

CONSTANTS
  Main,     \* main()'s thread
  Script    \* for each thread that main() starts, the levels it logs at, in order

NWorkers == Len(Script)
Workers == 1 .. NWorkers

ASSUME ProgramAssumption ==
  /\ Main \notin Workers /\ Threads = Workers \cup {Main}
  /\ Script \in Seq(Seq(Levels))

VARIABLES
  mpc,      \* where main() is
  created,  \* threads created so far
  joined,   \* threads joined so far
  left      \* [Workers -> the records the thread has still to log]

progVars == <<mpc, created, joined, left>>
vars == <<logVars, progVars>>

-----------------------------------------------------------------------------

ProgInit ==
  /\ Init
  /\ mpc = "init" /\ created = 0 /\ joined = 0
  /\ left = Script

MainGoes(from, to) == mpc = from /\ mpc' = to

InitOk ==
  /\ MainGoes("init", "create")
  /\ init_log
  /\ UNCHANGED <<created, joined, left>>

InitFails ==   \* pthread_mutex_init() or fopen()
  /\ MainGoes("init", "exit")
  /\ UNCHANGED <<logVars, created, joined, left>>

CreateThread ==
  /\ mpc = "create" /\ created < NWorkers
  /\ created' = created + 1
  /\ mpc' = IF created' = NWorkers THEN "join" ELSE "create"
  /\ UNCHANGED <<logVars, joined, left>>

\* (faulty form of CreateFails: the threads that run are not waited for)
CreateFailsAtOnce ==
  /\ MainGoes("create", "final") /\ created < NWorkers
  /\ UNCHANGED <<logVars, created, joined, left>>

CreateFails ==
  /\ MainGoes("create", "join_created") /\ created < NWorkers
  /\ UNCHANGED <<logVars, created, joined, left>>

Ended(k) == k <= created /\ left[k] = << >> /\ pc[k] = "out"

Join ==
  /\ mpc \in {"join", "join_created"} /\ joined < created
  /\ Ended(joined + 1)
  /\ joined' = joined + 1
  /\ UNCHANGED <<logVars, mpc, created, left>>

JoinsDone ==
  /\ joined = created
  /\ MainGoes("join", "log") \/ MainGoes("join_created", "final")
  /\ UNCHANGED <<logVars, created, joined, left>>

MainLogs ==
  /\ MainGoes("log", "logging")
  /\ log_to_file(Main, "ERROR")
  /\ UNCHANGED <<created, joined, left>>

MainLogged ==
  /\ MainGoes("logging", "final") /\ pc[Main] = "out"
  /\ UNCHANGED <<logVars, created, joined, left>>

Final ==
  /\ MainGoes("final", "exit")
  /\ final_log
  /\ UNCHANGED <<created, joined, left>>

MainStep ==
  \/ InitOk \/ InitFails
  \/ CreateThread \/ CreateFails \/ Join \/ JoinsDone
  \/ MainLogs \/ MainLogged \/ Final

\* A thread logs the records of its script.
WorkerLogs(k) ==
  /\ k <= created /\ left[k] # << >>
  /\ log_to_file(k, Head(left[k]))
  /\ left' = [left EXCEPT ![k] = Tail(@)]
  /\ UNCHANGED <<mpc, created, joined>>

Log(t) == Logging(t) /\ UNCHANGED progVars
Time == Tick /\ UNCHANGED progVars
Exited == mpc = "exit" /\ UNCHANGED vars

Next ==
  \/ MainStep \/ Time \/ Exited
  \/ \E k \in Workers : WorkerLogs(k)
  \/ \E t \in Threads : Log(t)

\* Every thread that can run runs, main()'s too; the mutex goes to one of those
\* that wait for it, and each of them takes it a bounded number of times.
Spec ==
  /\ ProgInit /\ [][Next]_vars
  /\ WF_vars(MainStep)
  /\ \A k \in Workers : WF_vars(WorkerLogs(k))
  /\ \A t \in Threads : WF_vars(Log(t))

-----------------------------------------------------------------------------
(* Properties *)

Cell == [by: Threads, at: Nat, of: Nat]

TypeOK ==
  /\ fp \in {"null", "open", "closed"}
  /\ file \in Seq(Cell) /\ pos \in 0 .. Len(file)
  /\ wr_ch_count \in -IntMax - 1 .. IntMax /\ total \in Nat
  /\ lock \in Threads \cup {Free}
  /\ clock \in 0 .. MaxClock /\ tm \in 0 .. MaxClock
  /\ pc \in [Threads -> {"out", "localtime", "lock", "head", "msg", "newline", "trace", "unlock"}]
  /\ lvl \in [Threads -> Levels]
  /\ timep \in [Threads -> 0 .. MaxClock] /\ stamp \in [Threads -> 0 .. MaxClock]
  /\ done \in [Threads -> Nat]
  /\ mpc \in {"init", "create", "join", "join_created", "log", "logging", "final", "exit"}
  /\ created \in 0 .. NWorkers /\ joined \in 0 .. created
  /\ left \in [Workers -> Seq(Levels)]

\* The first n characters are whole records, one behind the other.
WholeUpTo(n) == \A p \in 1 .. n :
  LET c == file[p] IN
  /\ IF c.at = 1 THEN p = 1 \/ file[p - 1].at = file[p - 1].of
                 ELSE p > 1 /\ file[p - 1] = [c EXCEPT !.at = @ - 1]
  /\ p = n => c.at = c.of

\* Two calls never mix their pieces, and no record up to the position of the
\* stream is cut, whoever wrote it and however often the file was rewound.
WholeRecords == lock = Free => WholeUpTo(pos)

\* The file is never longer than log_fsize and one record, as long as the
\* count of all characters ever written fits an int: the count is never reset.
FileBounded ==
  total <= IntMax => Len(file) < log_fsize + RecordLen("ERROR")

\* After init_log() and before final_log(), and only then, a thread is inside
\* the library: no call writes to a closed stream or locks a destroyed mutex,
\* also when main() gives up half-way.
CallsWhileOpen == fp # "open" => \A t \in Threads : pc[t] = "out"

\* main() gets to its end: every thread's calls return, whatever the order in
\* which they meet at the lock.
ProgramEnds == mpc = "init" ~> mpc = "exit"

\* What makes them inductive.  The thread that holds the lock has written
\* done[lock] characters, the pieces before its pc, from Base on ...
Inside == {"head", "msg", "newline", "trace", "unlock"}

Before(piece, l) ==
  CASE piece = "msg" -> Size["head"]
    [] piece = "newline" -> Size["head"] + Size["msg"]
    [] piece = "trace" -> Size["head"] + Size["msg"] + Size["newline"]
    [] piece = "unlock" -> RecordLen(l)
    [] OTHER -> 0

LockInv == \A t \in Threads :
  /\ pc[t] \in Inside <=> lock = t
  /\ done[t] = Before(pc[t], lvl[t])
  /\ pc[t] = "trace" => lvl[t] = "ERROR"

Base == IF lock = Free THEN pos ELSE pos - done[lock]

\* ... which is short of log_fsize, ...
SizeInv ==
  /\ pos <= Len(file) /\ Base >= 0
  /\ total <= IntMax => /\ wr_ch_count = total /\ pos <= total
                        /\ Base < log_fsize
                        /\ FileBounded

\* ... behind whole records.
RecordInv ==
  /\ WholeUpTo(Base)
  /\ lock # Free => \A k \in 1 .. done[lock] :
       file[Base + k] = [by |-> lock, at |-> k, of |-> RecordLen(lvl[lock])]

\* main() has joined whom it counts, and holds the log open meanwhile.
MainInv ==
  /\ \A k \in Workers : (k <= joined \/ k > created) => pc[k] = "out"
  /\ \A k \in Workers : k <= joined => left[k] = << >>
  /\ pc[Main] # "out" => mpc = "logging"
  /\ mpc \in {"log", "logging", "final", "exit"} => joined = created
  /\ mpc = "init" => created = 0
  /\ fp = "open" <=> mpc \notin {"init", "exit"}

\* The head of a record shows the time of the call of the logger (print_help(),
\* line 161).
TimestampIsCallTime ==
  \A t \in Threads : pc[t] \in {"msg", "newline", "trace", "unlock"} => stamp[t] = timep[t]
=============================================================================
