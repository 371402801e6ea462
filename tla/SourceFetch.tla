----------------------------- MODULE SourceFetch -----------------------------
(***************************************************************************)
(* One clib_package_install() of hw-16's clib-package.c, up to its         *)
(* "install:" label and its return: the Makefile's thread, the check of    *)
(* the package cache, one thread per source file with at most              *)
(* opts.concurrency of them waited for at a time, the joins, and the copy  *)
(* into the cache.  The process may stop at any point; the files and the   *)
(* cache stay, and another process may install the package again.  The     *)
(* copies from and to the cache go file by file, and may fail or be left   *)
(* at any file and in the middle of one.                                   *)
(*                                                                         *)
(* The line numbers are those of hw-16/1 (clib-package-patch1.c); in what  *)
(* is modelled here hw-16/2 differs by LearnedNothing only.                *)
(***************************************************************************)
EXTENDS Integers, FiniteSets

CONSTANTS
  NFiles,       \* length of pkg->src; the basenames of the sources differ
  Max,          \* opts.concurrency
  HasMakefile,  \* pkg->makefile is set
  Verbose, ForceFetch,         \* verbose, opts.force
  MaxRuns,      \* bound on the processes that install the package
  InOrder,      \* bound on the orders of a directory: TRUE for that of the numbers
  Racy          \* bound on the steps: FALSE for a refs++ or refs-- in one

ASSUME FetchAssumption ==
  /\ NFiles \in Nat /\ Max \in Nat /\ MaxRuns \in Nat
  /\ {HasMakefile, Verbose, ForceFetch, InOrder, Racy} \subseteq BOOLEAN

Sources == 1 .. NFiles
Makefile == 0
Jobs == 0 .. NFiles     \* one file, one thread
NoJob == -1             \* NULL in fetchs
Main == -2              \* the installing thread, as holder of the lock
Free == -3              \* nobody holds the lock

NotCached == [f \in {} |-> "no"]
FileStates == {"no", "part", "whole"}

VARIABLES
  disk,     \* [Jobs -> FileStates], the package's directory
  cache,    \* the copy in the package cache, or NotCached
  complete, \* the last copy into the cache came to its end (history)
  runs,     \* processes started so far
  found,    \* [Sources -> FileStates], when this process started (history)
  copied,   \* the files that the running copy, from or to the cache, is done with
  cut,      \* those that a failed copy from the cache has left partial (history)
  lock,     \* lock.mutex
  refs,     \* pkg->refs
  pc,       \* where the installing thread is
  rc,       \* its rc
  next,     \* the next source of the list iterator
  i,        \* its index into fetchs
  fetchs,   \* [0..NFiles-1 -> Jobs \cup {NoJob}]
  mtmp,     \* the value of refs that its refs++ has loaded, else 0
  tpc,      \* [Jobs -> where the job's thread is]
  status,   \* [Jobs -> the thread's rc]
  ttmp      \* [Jobs -> the value of refs that the thread's refs-- has loaded, else 0]

copies == <<cache, complete, copied, cut>>
others == <<runs, found, copies>>
persistent == <<disk, others>>
main == <<pc, rc, next, i, fetchs, mtmp>>
threads == <<tpc, status, ttmp>>
vars == <<persistent, lock, refs, main, threads>>

-----------------------------------------------------------------------------
(* A process starts, stops, starts again *)

Fresh ==
  /\ copied' = {} /\ cut' = {}
  /\ lock' = Free /\ refs' = 0
  /\ rc' = 0 /\ next' = 1 /\ i' = 0 /\ mtmp' = 0
  /\ fetchs' = [k \in 0 .. NFiles - 1 |-> NoJob]
  /\ tpc' = [f \in Jobs |-> "none"]
  /\ status' = [f \in Jobs |-> 0] /\ ttmp' = [f \in Jobs |-> 0]

Init ==
  /\ disk = [f \in Jobs |-> "no"] /\ found = [f \in Sources |-> "no"]
  /\ cache = NotCached /\ complete = FALSE /\ runs = 0
  /\ copied = {} /\ cut = {}
  /\ pc = "off"
  /\ lock = Free /\ refs = 0
  /\ rc = 0 /\ next = 1 /\ i = 0 /\ mtmp = 0
  /\ fetchs = [k \in 0 .. NFiles - 1 |-> NoJob]
  /\ tpc = [f \in Jobs |-> "none"]
  /\ status = [f \in Jobs |-> 0] /\ ttmp = [f \in Jobs |-> 0]

\* The next process installs into the same directory, or into an empty one.
Start ==
  /\ pc = "off" /\ runs < MaxRuns
  /\ runs' = runs + 1
  /\ disk' \in {disk, [f \in Jobs |-> "no"]} /\ found' = [f \in Sources |-> disk'[f]]
  /\ pc' = "begin"
  /\ UNCHANGED <<copies, lock, refs, rc, next, i, fetchs, mtmp, threads>>

\* A copy of a directory has each of its files in turn take the place of what is
\* there; where it stops or fails, the file it is at may be left partial.
Uncopied(from) == {f \in Jobs \ copied : from[f] # "no"}
Listed(f, from) == f \in Uncopied(from) /\ (InOrder => \A g \in Uncopied(from) : f <= g)
Copies(f, from, to) == Listed(f, from) /\ to' = [to EXCEPT ![f] = from[f]]
Cuts(f, from, to) == Listed(f, from) /\ to' = [to EXCEPT ![f] = "part"]

\* exit(), a signal or a power cut: every thread ends with the process.
Stop ==
  /\ pc # "off"
  /\ pc' = "off" /\ Fresh
  /\ UNCHANGED <<runs, found, complete>>
  /\ UNCHANGED disk \/ (pc = "load" /\ \E f \in Jobs : Cuts(f, cache, disk))
  /\ UNCHANGED cache \/ (pc = "save_cache" /\ \E f \in Jobs : Cuts(f, disk, cache))

NoMoreRuns == pc = "off" /\ runs = MaxRuns /\ UNCHANGED vars

-----------------------------------------------------------------------------
(* The installing thread *)

Goto(from, to) == pc = from /\ pc' = to

\* What a refs++ or refs-- has loaded of refs, and what it counts from
Loaded == IF Racy THEN refs ELSE 0
Counted(tmp) == IF Racy THEN tmp ELSE refs

Fail(from, code) ==
  /\ Goto(from, "returned") /\ rc' = code
  /\ UNCHANGED <<persistent, next, i, fetchs, mtmp>>

\* mkdirp(), the URL, the manifest: each may fail (lines 1333-1377).
Prepare ==
  /\ Goto("begin", IF HasMakefile THEN "makefile" ELSE "cache")
  /\ UNCHANGED <<persistent, lock, refs, rc, next, i, fetchs, mtmp, threads>>
PrepareFails == Fail("begin", -1) /\ UNCHANGED <<lock, refs, threads>>

\* fetch_package_file(): refs++ is a load and a store that no lock covers.
\* Its malloc() fails before it, pthread_create() (EAGAIN) after it.
LoadRefs ==
  /\ \/ Goto("makefile", "create_makefile")
     \/ Goto("launch", "create") /\ next \in Sources
  /\ mtmp' = Loaded
  /\ UNCHANGED <<persistent, lock, refs, rc, next, i, fetchs, threads>>

AllocFails ==
  /\ Fail("makefile", -1) \/ (next \in Sources /\ Fail("launch", -1))
  /\ UNCHANGED <<lock, refs, threads>>

EAGAIN == 11
CreateFails ==
  /\ Fail("create_makefile", EAGAIN) \/ Fail("create", -1)
  /\ refs' = Counted(mtmp) + 1
  /\ UNCHANGED <<lock, threads>>

CreateThread(f) ==
  /\ refs' = Counted(mtmp) + 1 /\ mtmp' = 0
  /\ tpc' = [tpc EXCEPT ![f] = "start"]
  /\ UNCHANGED <<persistent, lock, rc, status, ttmp>>

StartMakefile ==
  /\ Goto("create_makefile", "join_makefile")
  /\ CreateThread(Makefile)
  /\ UNCHANGED <<next, i, fetchs>>

\* A Makefile that cannot be fetched is worth a warning only; the status is freed.
JoinMakefile ==
  /\ Goto("join_makefile", "cache") /\ tpc[Makefile] = "exited"
  /\ tpc' = [tpc EXCEPT ![Makefile] = "joined"]
  /\ status' = [status EXCEPT ![Makefile] = 0] /\ rc' = 0
  /\ UNCHANGED <<persistent, lock, refs, next, i, fetchs, mtmp, ttmp>>

Acquire(from, to) ==
  /\ Goto(from, to) /\ lock = Free /\ lock' = Main
  /\ UNCHANGED <<persistent, refs, rc, next, i, fetchs, mtmp, threads>>

Release(from, to) ==
  /\ Goto(from, to) /\ lock' = Free
  /\ UNCHANGED <<runs, found, refs, rc, next, i, fetchs, mtmp, threads>>

Cached == cache # NotCached

CacheLock == Acquire("cache", "check_cache")
CacheMiss ==
  /\ ~Cached
  /\ Release("check_cache", "launch") /\ UNCHANGED <<disk, copies>>

\* With opts.skip_cache, whose one use this is.  The result of the recursive
\* delete is not looked at: some files may be left.
CacheDelete ==
  /\ Cached
  /\ Release("check_cache", "launch")
  /\ \/ cache' = NotCached
     \/ \E gone \in SUBSET Jobs :
          /\ InOrder => \A f \in gone, g \in Jobs \ gone : f < g
          /\ cache' = [f \in Jobs |-> IF f \in gone THEN "no" ELSE cache[f]]
  /\ complete' = FALSE /\ UNCHANGED <<disk, copied, cut>>

\* Without it: clib_cache_load_package(), under the lock, over what the
\* directory has
CacheHit ==
  /\ Cached /\ Goto("check_cache", "load")
  /\ UNCHANGED <<persistent, lock, refs, rc, next, i, fetchs, mtmp, threads>>
LoadFile(f) ==
  /\ pc = "load" /\ Copies(f, cache, disk) /\ copied' = copied \cup {f}
  /\ UNCHANGED <<runs, found, cache, complete, cut, lock, refs, main, threads>>

CacheLoaded ==
  /\ pc = "load" /\ Uncopied(cache) = {}
  /\ Release("load", "install") /\ copied' = {}
  /\ UNCHANGED <<disk, cache, complete, cut>>
CacheLoadFails ==
  /\ Release("load", "launch") /\ copied' = {}
  /\ \/ UNCHANGED disk /\ cut' = {f \in copied : disk[f] = "part"}
     \/ \E g \in Jobs : Cuts(g, cache, disk) /\ cut' = {f \in copied \cup {g} : disk'[f] = "part"}
  /\ UNCHANGED <<cache, complete>>

\* (faulty form of StartSource: one slot more before the joins)
StartSourceLate ==
  LET k == IF i < 0 THEN 0 ELSE i IN
  /\ pc = "create"
  /\ CreateThread(next)
  /\ fetchs' = [fetchs EXCEPT ![k] = next]
  /\ next' = next + 1
  /\ IF k <= Max THEN i' = k + 1 /\ pc' = "launch"
                 ELSE i' = k /\ pc' = "drain"

\* The loop over pkg->src: the thread's data go to slot i; the loop goes on
\* until slot Max is filled, and joins the slots below it then.
StartSource ==
  LET k == IF i < 0 THEN 0 ELSE i IN
  /\ pc = "create"
  /\ CreateThread(next)
  /\ fetchs' = [fetchs EXCEPT ![k] = next]
  /\ next' = next + 1
  /\ IF k < Max THEN i' = k + 1 /\ pc' = "launch"
                ELSE i' = k /\ pc' = "drain"

\* (faulty form of LaunchedAll: the copy into the cache does not wait)
LaunchedAllUnjoined ==
  /\ Goto("launch", "save") /\ next \notin Sources
  /\ UNCHANGED <<persistent, lock, refs, rc, next, i, fetchs, mtmp, threads>>

LaunchedAll ==
  /\ Goto("launch", "final") /\ next \notin Sources
  /\ UNCHANGED <<persistent, lock, refs, rc, next, i, fetchs, mtmp, threads>>

\* The two joining loops: while (--i >= 0) wait for the thread in slot i.
JoinLoops == {"drain", "final"}

\* (faulty form of JoinedThread: --i is lost)
JoinedThreadStays ==
  /\ pc \in JoinLoops /\ i > 0
  /\ fetchs[i - 1] \in Jobs /\ tpc[fetchs[i - 1]] = "exited"
  /\ tpc' = [tpc EXCEPT ![fetchs[i - 1]] = "joined"]
  /\ fetchs' = [fetchs EXCEPT ![i - 1] = NoJob]
  /\ UNCHANGED <<persistent, lock, refs, next, i, mtmp, status, ttmp>>

JoinedThread ==
  /\ pc \in JoinLoops /\ i > 0
  /\ fetchs[i - 1] \in Jobs /\ tpc[fetchs[i - 1]] = "exited"
  /\ tpc' = [tpc EXCEPT ![fetchs[i - 1]] = "joined"]
  /\ fetchs' = [fetchs EXCEPT ![i - 1] = NoJob]
  /\ i' = i - 1
  /\ UNCHANGED <<persistent, lock, refs, next, mtmp, status, ttmp>>

\* (faulty form of Learned, that of hw-16/2: it passes NULL to pthread_join())
LearnedNothing == 0

\* What the installing thread learns from a join.
Learned == status[fetchs[i - 1]]

JoinOk == JoinedThread /\ Learned = 0 /\ UNCHANGED <<pc, rc>>
JoinFailed == JoinedThread /\ Learned # 0 /\ pc' = "returned" /\ rc' = -1

JoinsDone ==
  /\ Goto("drain", "launch") \/ Goto("final", "save")
  /\ i <= 0 /\ i' = i - 1
  /\ UNCHANGED <<persistent, lock, refs, rc, next, fetchs, mtmp, threads>>

\* clib_cache_save_package(), under the lock, over what the cache has; whether
\* the copy fails is not asked.
CacheSave ==
  /\ Goto("save", "save_cache") /\ lock = Free /\ lock' = Main
  /\ cache' = (IF Cached THEN cache ELSE [f \in Jobs |-> "no"]) /\ complete' = FALSE
  /\ UNCHANGED <<disk, runs, found, copied, cut, refs, rc, next, i, fetchs, mtmp, threads>>
SaveFile(f) ==
  /\ pc = "save_cache" /\ Copies(f, disk, cache) /\ copied' = copied \cup {f}
  /\ UNCHANGED <<disk, runs, found, complete, cut, lock, refs, main, threads>>
CacheSaved ==
  /\ pc = "save_cache" /\ Uncopied(disk) = {} /\ complete' = TRUE
  /\ Release("save_cache", "install") /\ copied' = {}
  /\ UNCHANGED <<disk, cache, cut>>
CacheSaveFails ==
  /\ Release("save_cache", "install") /\ copied' = {}
  /\ UNCHANGED cache \/ \E f \in Jobs : Cuts(f, disk, cache)
  /\ UNCHANGED <<disk, complete, cut>>

\* configure, install and the dependencies: exit codes of commands, or -1.
InstallRest ==
  /\ Goto("install", "returned")
  /\ rc' \in {0, -1, 256}
  /\ UNCHANGED <<persistent, lock, refs, next, i, fetchs, mtmp, threads>>

\* The caller's clib_package_free(): it does nothing while refs is not 0.
FreePackage ==
  /\ Goto("returned", IF refs = 0 THEN "freed" ELSE "kept")
  /\ UNCHANGED <<persistent, lock, refs, rc, next, i, fetchs, mtmp, threads>>

Install ==
  \/ Prepare \/ PrepareFails
  \/ LoadRefs \/ AllocFails \/ CreateFails
  \/ StartMakefile \/ JoinMakefile
  \/ CacheLock \/ CacheMiss \/ CacheDelete \/ CacheHit
  \/ (\E f \in Jobs : LoadFile(f)) \/ CacheLoaded \/ CacheLoadFails
  \/ StartSource \/ LaunchedAll
  \/ JoinOk \/ JoinFailed \/ JoinsDone
  \/ CacheSave \/ (\E f \in Jobs : SaveFile(f)) \/ CacheSaved \/ CacheSaveFails
  \/ InstallRest \/ FreePackage

-----------------------------------------------------------------------------
(* fetch_package_file_thread(): each step of the thread of file f *)

Step(f, from, to) ==
  /\ tpc[f] = from /\ tpc' = [tpc EXCEPT ![f] = to]
  /\ UNCHANGED <<others, main>>

\* No memory for the URL or the path: nothing is fetched, and nothing said.
ThreadGivesUp(f) ==
  /\ Step(f, "start", "unref")
  /\ status' = [status EXCEPT ![f] = 1]
  /\ UNCHANGED <<disk, lock, refs, ttmp>>

\* Under the lock the thread looks whether the file is there ...
ThreadCheck(f) ==
  /\ Step(f, "start", "check")
  /\ lock = Free /\ lock' = f
  /\ UNCHANGED <<disk, refs, status, ttmp>>

\* (faulty forms of ThreadFetch and ThreadSkip: the file is not looked for;
\* the lock is kept on the way that fetches nothing)
ThreadFetchAlways(f) ==
  /\ Step(f, "check", "fetch")
  /\ lock' = Free
  /\ disk' = [disk EXCEPT ![f] = "part"]
  /\ UNCHANGED <<refs, status, ttmp>>

ThreadSkipLocked(f) ==
  /\ Step(f, "check", "unref")
  /\ ~ForceFetch /\ disk[f] # "no"
  /\ UNCHANGED <<disk, lock, refs, status, ttmp>>

\* ... and goes on without it: http_get_file_shared() opens the file, ...
ThreadFetch(f) ==
  /\ Step(f, "check", "fetch")
  /\ ForceFetch \/ disk[f] = "no"
  /\ lock' = Free
  /\ disk' = [disk EXCEPT ![f] = "part"]
  /\ UNCHANGED <<refs, status, ttmp>>

ThreadSkip(f) ==
  /\ Step(f, "check", "unref")
  /\ ~ForceFetch /\ disk[f] # "no"
  /\ lock' = Free
  /\ UNCHANGED <<disk, refs, status, ttmp>>

Reported == IF Verbose THEN "report" ELSE "unref"

ThreadSaved(f) ==
  /\ Step(f, "fetch", Reported)
  /\ disk' = [disk EXCEPT ![f] = "whole"]
  /\ UNCHANGED <<lock, refs, status, ttmp>>

\* ... or fails, and leaves no file or a partial one.
ThreadFails(f) ==
  /\ Step(f, "fetch", Reported)
  /\ \E left \in {"no", "part"} : disk' = [disk EXCEPT ![f] = left]
  /\ status' = [status EXCEPT ![f] = -1]
  /\ UNCHANGED <<lock, refs, ttmp>>

\* The messages are printed under the lock; an error then becomes rc = 1.
ThreadReport(f) ==
  /\ Step(f, "report", "reporting")
  /\ lock = Free /\ lock' = f
  /\ UNCHANGED <<disk, refs, status, ttmp>>

ThreadReported(f) ==
  /\ Step(f, "reporting", "unref")
  /\ lock' = Free
  /\ status' = [status EXCEPT ![f] = IF @ = -1 THEN 1 ELSE @]
  /\ UNCHANGED <<disk, refs, ttmp>>

\* (data->pkg->refs)--, outside the lock: a load and a store.
ThreadLoadRefs(f) ==
  /\ Step(f, "unref", "store")
  /\ ttmp' = [ttmp EXCEPT ![f] = Loaded]
  /\ UNCHANGED <<disk, lock, refs, status>>

ThreadExit(f) ==
  /\ Step(f, "store", "exited")
  /\ refs' = Counted(ttmp[f]) - 1 /\ ttmp' = [ttmp EXCEPT ![f] = 0]
  /\ UNCHANGED <<disk, lock, status>>

Thread(f) ==
  \/ ThreadGivesUp(f) \/ ThreadCheck(f) \/ ThreadFetch(f) \/ ThreadSkip(f)
  \/ ThreadSaved(f) \/ ThreadFails(f)
  \/ ThreadReport(f) \/ ThreadReported(f)
  \/ ThreadLoadRefs(f) \/ ThreadExit(f)

Next ==
  \/ Start \/ Stop \/ NoMoreRuns
  \/ Install
  \/ \E f \in Jobs : Thread(f)

\* The scheduler runs every thread that can run; a transfer ends (curl's
\* timeouts); nobody is obliged to start or to stop a process.
Spec == Init /\ [][Next]_vars /\ WF_vars(Install) /\ \A f \in Jobs : WF_vars(Thread(f))

-----------------------------------------------------------------------------
(* Properties *)

Running == {"start", "check", "fetch", "report", "reporting", "unref", "store"}

TypeOK ==
  /\ disk \in [Jobs -> FileStates] /\ found \in [Sources -> FileStates]
  /\ cache \in [Jobs -> FileStates] \cup {NotCached}
  /\ runs \in 0 .. MaxRuns /\ complete \in BOOLEAN
  /\ copied \subseteq Jobs /\ cut \subseteq Jobs
  /\ lock \in Jobs \cup {Main, Free}
  /\ refs \in Int /\ mtmp \in Int
  /\ rc \in {0, -1, EAGAIN, 256}
  /\ next \in 1 .. NFiles + 1
  /\ i \in -2 .. NFiles /\ i <= Max
  /\ fetchs \in [0 .. NFiles - 1 -> Sources \cup {NoJob}]
  /\ tpc \in [Jobs -> Running \cup {"none", "exited", "joined"}]
  /\ status \in [Jobs -> {0, -1, 1}] /\ ttmp \in [Jobs -> Int]

\* The sources whose thread's data land in slot Max: the loop of lines
\* 1489-1512 starts below that slot, so that nobody ever waits for them.
Overflow == {f \in Sources : f % (Max + 1) = 0}

Succeeded == pc \in {"returned", "freed", "kept"} /\ rc = 0

\* The sources were fetched, rather than taken from the cache.
Downloaded == next \notin Sources

\* When clib_package_install() returns 0 after the threads, every source is there,
\* whole: no failure of a thread is lost on the way to the caller.  Only a file that
\* the process found partial, or that a failed copy from the cache has cut, is taken
\* by fs_exists() for fetched as it is.  When it returns 0 with the copy from the
\* cache, every source is as the cache has it, and none is lacking if the copy in the
\* cache was finished.  (Overflow sources are the exception of lines 1486-1512.)
SuccessMeansFetched ==
  Succeeded => \A f \in Sources \ Overflow :
    IF Downloaded
    THEN found[f] # "part" /\ f \notin cut => disk[f] = "whole"
    ELSE /\ disk[f] = (IF cache[f] = "no" THEN found[f] ELSE cache[f])
         /\ complete => disk[f] # "no"

\* The same without the exception: every source is there on success, as the test
\* "should install the package's sources" (package-install.c:59) has it.
EverySourceFetched ==
  Succeeded => \A f \in Sources : found[f] = "no" => disk[f] = "whole"

\* When it returns 0, the threads still running, which use the freed pkg_dir,
\* are those of overflow sources at most.
SuccessMeansJoined ==
  Succeeded => \A f \in Jobs : tpc[f] \in Running \cup {"exited"} => f \in Overflow

\* pthread_join() is only ever called on the data of a thread that was created
\* and not joined yet, however the slots are reused: lines 1490 and 1519 read
\* them unchecked.
SlotsAreJoinable ==
  pc \in {"launch", "create"} \cup JoinLoops =>
    \A k \in 0 .. i - 1 :
      /\ fetchs[k] \in Sources /\ tpc[fetchs[k]] \in Running \cup {"exited"}
      /\ \A l \in 0 .. i - 1 : fetchs[l] = fetchs[k] => l = k

\* A copy in the package cache that was finished lacks no source, overflow sources
\* apart, and with opts.force has them whole: no process begins to store a package
\* that it has not got, and only a copy that was broken off lacks something.
CacheIsComplete ==
  Cached /\ complete => \A f \in Sources \ Overflow :
    cache[f] # "no" /\ (ForceFetch => cache[f] = "whole")

\* Without opts.force a file that was fetched is cut by a copy from the cache only,
\* which has not copied it yet: not by another thread, a later process or a second
\* fetch, and no step loses it.
WholeStaysWhole ==
  [][\A f \in Jobs : disk[f] = "whole" /\ disk'[f] # "whole" /\ ~ForceFetch /\ pc # "off" =>
       pc = "load" /\ f \notin copied /\ disk'[f] = "part"]_vars

\* clib_package_install() returns, whatever the threads do, unless the
\* process ends first: nobody waits for a lock or a thread for ever.
InstallReturns == pc = "begin" ~> pc \in {"returned", "freed", "kept", "off"}

\* After all threads have ended and been joined, clib_package_free() frees.
FreeFrees ==
  Succeeded /\ (\A f \in Jobs : tpc[f] \in {"none", "joined"}) => pc # "kept"
=============================================================================
