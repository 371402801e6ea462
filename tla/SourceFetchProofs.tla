-------------------------- MODULE SourceFetchProofs --------------------------
(***************************************************************************)
(* Proofs about SourceFetch, for any number of sources, any concurrency,   *)
(* any options and any number of processes.                                *)
(***************************************************************************)
EXTENDS SourceFetch, TLAPS

-----------------------------------------------------------------------------
(* Arithmetic of the slots *)

LEMMA NextMultiple ==
  ASSUME NEW n \in Nat \ {0}, NEW a \in Nat, a % n = 0
  PROVE  (a + n) % n = 0
<1>1. PICK q \in Nat : a = n * q
  BY SMT
<1>2. a + n = n * (q + 1) /\ q + 1 \in Nat
  BY <1>1, SMT
<1>3. PICK p \in Nat : a + n = n * p
  BY <1>2
<1>4. (n * p) % n = 0
  BY SMT
<1> QED BY <1>3, <1>4

LEMMA ZeroMod ==
  ASSUME NEW n \in Nat \ {0}
  PROVE  0 % n = 0
BY SMT

-----------------------------------------------------------------------------
(* Slots *)

Loops == {"launch", "create"} \cup JoinLoops
Before == {"begin", "makefile", "create_makefile", "join_makefile", "cache", "check_cache"}
Early == Before \cup {"off", "load"}
Late == {"save", "save_cache"}
Returned == {"returned", "freed", "kept"}
Unjoined == Running \cup {"exited"}

Joined(f) == tpc[f] = "joined"
InSlot(f) == \E k \in 0 .. i - 1 : fetchs[k] = f
Filled == IF i < 0 THEN 0 ELSE i

\* Slot k is that of the k-th source of its row; rows have Max + 1 sources.
RowBegins == (next - 1 - Filled) % (Max + 1) = 0

LoopInv ==
  /\ -1 <= i /\ i <= next - 1
  /\ pc = "drain" => i >= 0 /\ (next - 1) % (Max + 1) = 0
  /\ pc \in {"launch", "create"} => RowBegins
  /\ pc = "create" => next \in Sources
  /\ pc = "final" => next \notin Sources
  /\ \A f \in Sources : f >= next => tpc[f] = "none"
  /\ \A f \in Sources : f < next => f \in Overflow \/ Joined(f) \/ InSlot(f)
  /\ \A k \in 0 .. i - 1 :
       /\ fetchs[k] \in Sources /\ fetchs[k] < next /\ tpc[fetchs[k]] \in Unjoined
       /\ \A l \in 0 .. i - 1 : fetchs[l] = fetchs[k] => l = k

SlotInv ==
  /\ pc \in Early => next = 1 /\ i = 0 /\ \A f \in Sources : tpc[f] = "none"
  /\ pc \in Loops => LoopInv
  /\ pc \in Late => next \notin Sources /\ \A f \in Sources \ Overflow : Joined(f)
  /\ pc = "install" \/ Succeeded => \A f \in Sources \ Overflow : tpc[f] \notin Unjoined
  /\ pc # "join_makefile" => tpc[Makefile] \notin Unjoined
  /\ pc \in Early \cup Loops \cup Late \cup Returned \cup {"install"}

\* The cache is there while a copy from it or to it runs, and only then are there
\* files that this copy is done with.
Copying == pc \in {"load", "save_cache"}
CopyInv ==
  /\ Copying => Cached
  /\ ~Copying => copied = {}

LEMMA Basics ==
  /\ NFiles \in Nat /\ Max \in Nat /\ MaxRuns \in Nat /\ Max + 1 \in Nat \ {0}
  /\ Sources \subseteq Jobs /\ Makefile \in Jobs /\ Makefile \notin Sources
  /\ \A f \in Jobs : f \in Int /\ f # Free /\ f # Main /\ f # NoJob
  /\ Main # Free /\ NoJob \notin Sources
BY FetchAssumption DEF Sources, Jobs, Makefile, Free, Main, NoJob

LEMMA InitTyped == Init => TypeOK
<1> SUFFICES ASSUME Init PROVE TypeOK
  OBVIOUS
<1>1. disk \in [Jobs -> FileStates] /\ found \in [Sources -> FileStates]
  BY DEF Init, FileStates
<1>2. cache = NotCached /\ lock = Free /\ complete = FALSE /\ copied = {} /\ cut = {}
  BY DEF Init
<1>2a. runs \in 0 .. MaxRuns
  BY Basics DEF Init
<1>3. refs \in Int /\ mtmp \in Int /\ rc = 0 /\ next \in 1 .. NFiles + 1
      /\ i \in -2 .. NFiles /\ i <= Max
  BY Basics DEF Init
<1>4. fetchs \in [0 .. NFiles - 1 -> Sources \cup {NoJob}]
  BY DEF Init
<1>5. tpc \in [Jobs -> {"none"}] /\ status \in [Jobs -> {0}] /\ ttmp \in [Jobs -> Int]
  BY DEF Init
<1> QED BY <1>1, <1>2, <1>2a, <1>3, <1>4, <1>5 DEF TypeOK

LEMMA InitSlots == Init => SlotInv
<1> SUFFICES ASSUME Init PROVE SlotInv
  OBVIOUS
<1>1. /\ pc = "off" /\ next = 1 /\ i = 0 /\ \A f \in Jobs : tpc[f] = "none"
  BY DEF Init
<1> QED BY <1>1, Basics DEF SlotInv, Early, Before, Loops, JoinLoops, Late, Returned, Succeeded, Unjoined, Running

\* What a step of a thread can change.
LEMMA ThreadStep ==
  ASSUME NEW f \in Jobs, Thread(f)
  PROVE  /\ UNCHANGED <<cache, complete, runs, found, copied, cut, main>>
         /\ tpc[f] \in Running
         /\ \E to \in Unjoined : tpc' = [tpc EXCEPT ![f] = to]
         /\ disk' = disk \/ \E left \in {"no", "part", "whole"} : disk' = [disk EXCEPT ![f] = left]
         /\ status' = status \/ \E c \in {-1, 1, status[f]} : status' = [status EXCEPT ![f] = c]
         /\ \E n \in {0, refs, ttmp[f]} : ttmp' = [ttmp EXCEPT ![f] = n] \/ ttmp' = ttmp
         /\ refs' \in {refs, ttmp[f] - 1, refs - 1}
BY DEF Thread, ThreadGivesUp, others, copies, Loaded, Counted, ThreadCheck, ThreadFetch, ThreadSkip, ThreadSaved, ThreadFails, ThreadReport,
       ThreadReported, ThreadLoadRefs, ThreadExit, Step, Reported, Running, Unjoined

-----------------------------------------------------------------------------
(* Types *)

\* A file that is copied, or cut, is a file of both directories.
LEMMA CopyTyped ==
  ASSUME NEW from \in [Jobs -> FileStates], NEW f, Listed(f, from)
  PROVE  f \in Jobs /\ f \notin copied /\ from[f] # "no" /\ from[f] \in FileStates
BY DEF Listed, Uncopied

LEMMA CutTyped ==
  ASSUME NEW to \in [Jobs -> FileStates], NEW f \in Jobs, NEW n \in FileStates
  PROVE  [to EXCEPT ![f] = n] \in [Jobs -> FileStates]
OBVIOUS

LEMMA TypedCache ==
  /\ TypeOK /\ Cached => cache \in [Jobs -> FileStates]
  /\ NotCached \notin [Jobs -> FileStates]
<1>1. DOMAIN NotCached = {} /\ Jobs # {}
  BY Basics DEF NotCached
<1> QED BY <1>1 DEF TypeOK, Cached

LEMMA StepTyped == TypeOK /\ SlotInv /\ CopyInv /\ [Next]_vars => TypeOK'
<1> SUFFICES ASSUME TypeOK, SlotInv, CopyInv, [Next]_vars PROVE TypeOK'
  OBVIOUS
<1> USE DEF TypeOK, persistent, copies, others, main, threads, Goto
<1>0. Copying => cache \in [Jobs -> FileStates]
  BY TypedCache DEF CopyInv
<1>1. CASE Start
  <2>1. runs' \in 0 .. MaxRuns
    BY <1>1, Basics DEF Start
  <2>2. disk' \in [Jobs -> FileStates]
    BY <1>1 DEF Start, FileStates
  <2>3. found' \in [Sources -> FileStates]
    BY <1>1, <2>2, Basics DEF Start
  <2> QED BY <1>1, <2>1, <2>2, <2>3 DEF Start
<1>2. CASE Stop
  <2>1. refs' \in Int /\ mtmp' \in Int /\ rc' = 0 /\ next' \in 1 .. NFiles + 1
        /\ i' \in -2 .. NFiles /\ i' <= Max
    BY <1>2, Basics DEF Stop, Fresh
  <2>2. /\ fetchs' \in [0 .. NFiles - 1 -> Sources \cup {NoJob}] /\ lock' = Free
        /\ tpc' \in [Jobs -> {"none"}] /\ status' \in [Jobs -> {0}] /\ ttmp' \in [Jobs -> Int]
    BY <1>2 DEF Stop, Fresh
  <2>3. UNCHANGED <<runs, found, complete>> /\ copied' = {} /\ cut' = {}
    BY <1>2 DEF Stop, Fresh
  <2>4. disk' \in [Jobs -> FileStates]
    <3>1. ASSUME NEW f \in Jobs, pc = "load", Cuts(f, cache, disk) PROVE disk' \in [Jobs -> FileStates]
      BY <1>0, <3>1, CutTyped DEF FileStates, Cuts, Copying
    <3> QED BY <1>2, <3>1 DEF Stop
  <2>5. cache' \in [Jobs -> FileStates] \cup {NotCached}
    <3>1. ASSUME NEW f \in Jobs, pc = "save_cache", Cuts(f, disk, cache) PROVE cache' \in [Jobs -> FileStates]
      BY <1>0, <3>1, CutTyped DEF FileStates, Cuts, Copying
    <3> QED BY <1>2, <3>1 DEF Stop
  <2> QED BY <2>1, <2>2, <2>3, <2>4, <2>5
<1>3. CASE Prepare \/ LaunchedAll \/ FreePackage \/ NoMoreRuns \/ CacheHit
  BY <1>3 DEF Prepare, LaunchedAll, FreePackage, NoMoreRuns, CacheHit, vars
<1>4. CASE PrepareFails \/ AllocFails
  BY <1>4 DEF PrepareFails, AllocFails, Fail
<1>5. CASE CreateFails
  BY <1>5 DEF CreateFails, Fail, Counted
<1>6. CASE LoadRefs
  BY <1>6 DEF LoadRefs, Loaded
<1>7. CASE StartMakefile
  BY <1>7, Basics DEF StartMakefile, CreateThread, Running, Counted
<1>8. CASE JoinMakefile
  BY <1>8, Basics DEF JoinMakefile
<1>9. CASE CacheLock
  BY <1>9 DEF CacheLock, Acquire
<1>10. CASE CacheMiss
  BY <1>10 DEF CacheMiss, Release
<1>10a. CASE CacheLoaded \/ CacheSaved
  <2>1. copied' = {} /\ complete' \in BOOLEAN
    BY <1>10a DEF CacheLoaded, CacheSaved
  <2> QED BY <1>10a, <2>1 DEF CacheLoaded, CacheSaved, Release
<1>11. CASE CacheDelete
  <2>1. cache \in [Jobs -> FileStates]
    BY <1>11, TypedCache DEF CacheDelete
  <2>2. ASSUME NEW gone \in SUBSET Jobs
        PROVE  [f \in Jobs |-> IF f \in gone THEN "no" ELSE cache[f]] \in [Jobs -> FileStates]
    BY <2>1 DEF FileStates
  <2>3. cache' \in [Jobs -> FileStates] \cup {NotCached}
    BY <1>11, <2>2 DEF CacheDelete
  <2> QED BY <1>11, <2>3 DEF CacheDelete, Release
<1>12. ASSUME NEW f \in Jobs, LoadFile(f) PROVE TypeOK'
  <2>1. disk' \in [Jobs -> FileStates] /\ copied' \in SUBSET Jobs
    BY <1>0, <1>12, CopyTyped, CutTyped DEF LoadFile, Copies, Copying
  <2> QED BY <1>12, <2>1 DEF LoadFile
<1>12a. CASE CacheLoadFails
  <2>1. disk' \in [Jobs -> FileStates]
    <3>1. ASSUME NEW f \in Jobs, Cuts(f, cache, disk) PROVE disk' \in [Jobs -> FileStates]
      BY <1>0, <1>12a, <3>1, CutTyped DEF FileStates, CacheLoadFails, Release, Cuts, Copying
    <3> QED BY <1>12a, <3>1 DEF CacheLoadFails
  <2>2. cut' \in SUBSET Jobs /\ copied' = {}
    BY <1>12a DEF CacheLoadFails
  <2> QED BY <1>12a, <2>1, <2>2 DEF CacheLoadFails, Release
<1>12b. CASE CacheSave
  <2>1. cache' \in [Jobs -> FileStates]
    BY <1>12b, TypedCache DEF CacheSave, FileStates
  <2> QED BY <1>12b, <2>1 DEF CacheSave
<1>12c. ASSUME NEW f \in Jobs, SaveFile(f) PROVE TypeOK'
  <2>1. cache' \in [Jobs -> FileStates] /\ copied' \in SUBSET Jobs
    BY <1>0, <1>12c, CopyTyped, CutTyped DEF SaveFile, Copies, Copying
  <2> QED BY <1>12c, <2>1 DEF SaveFile
<1>12d. CASE CacheSaveFails
  <2>1. cache' \in [Jobs -> FileStates] \cup {NotCached}
    <3>1. ASSUME NEW f \in Jobs, Cuts(f, disk, cache) PROVE cache' \in [Jobs -> FileStates]
      BY <1>0, <1>12d, <3>1, CutTyped DEF FileStates, CacheSaveFails, Release, Cuts, Copying
    <3> QED BY <1>12d, <3>1 DEF CacheSaveFails
  <2>2. copied' = {}
    BY <1>12d DEF CacheSaveFails
  <2> QED BY <2>2, <1>12d, <2>1 DEF CacheSaveFails, Release
<1>13. CASE StartSource
  <2>1. LoopInv /\ next \in Sources
    BY <1>13 DEF StartSource, SlotInv, LoopInv, Loops
  <2>2. next' \in 1 .. NFiles + 1 /\ i' \in -2 .. NFiles /\ i' <= Max
    BY <1>13, <2>1, Basics DEF StartSource, LoopInv, Sources
  <2>3. fetchs' \in [0 .. NFiles - 1 -> Sources \cup {NoJob}]
    <3>1. PICK k : fetchs' = [fetchs EXCEPT ![k] = next]
      BY <1>13 DEF StartSource
    <3> QED BY <2>1, <3>1
  <2>4. tpc' \in [Jobs -> Running \cup {"none", "exited", "joined"}]
    BY <1>13, <2>1, Basics DEF StartSource, CreateThread, Running
  <2> QED BY <1>13, <2>2, <2>3, <2>4 DEF StartSource, CreateThread, Counted
<1>14. CASE JoinOk \/ JoinFailed
  <2>1. i' \in -2 .. NFiles /\ i' <= Max
    BY <1>14, Basics DEF JoinOk, JoinFailed, JoinedThread
  <2>2. fetchs' \in [0 .. NFiles - 1 -> Sources \cup {NoJob}] /\ rc' \in {rc, -1}
    <3>1. PICK k : fetchs' = [fetchs EXCEPT ![k] = NoJob]
      BY <1>14 DEF JoinOk, JoinFailed, JoinedThread
    <3>2. [fetchs EXCEPT ![k] = NoJob] \in [0 .. NFiles - 1 -> Sources \cup {NoJob}]
      OBVIOUS
    <3> QED BY <1>14, <3>1, <3>2 DEF JoinOk, JoinFailed
  <2>3. tpc' \in [Jobs -> Running \cup {"none", "exited", "joined"}]
    <3>1. PICK f : tpc' = [tpc EXCEPT ![f] = "joined"]
      BY <1>14 DEF JoinOk, JoinFailed, JoinedThread
    <3> QED BY <3>1
  <2> QED BY <1>14, <2>1, <2>2, <2>3 DEF JoinOk, JoinFailed, JoinedThread
<1>15. CASE JoinsDone
  <2>1. LoopInv
    BY <1>15 DEF JoinsDone, SlotInv, Loops, JoinLoops
  <2>2. i' \in -2 .. NFiles /\ i' <= Max
    BY <1>15, <2>1, Basics DEF JoinsDone, LoopInv
  <2> QED BY <1>15, <2>2 DEF JoinsDone
<1>16. CASE InstallRest
  BY <1>16 DEF InstallRest
<1>17. ASSUME NEW f \in Jobs, Thread(f) PROVE TypeOK'
  <2>1. tpc' \in [Jobs -> Running \cup {"none", "exited", "joined"}]
    <3>1. PICK to \in Unjoined : tpc' = [tpc EXCEPT ![f] = to]
      BY <1>17, ThreadStep
    <3>2. to \in Running \cup {"none", "exited", "joined"}
      BY <3>1 DEF Unjoined
    <3> QED BY <3>1, <3>2
  <2>2. UNCHANGED <<cache, complete, runs, found, copied, cut, main>>
    BY <1>17, ThreadStep
  <2>3. disk' \in [Jobs -> FileStates]
    <3>1. disk' = disk \/ \E left \in FileStates : disk' = [disk EXCEPT ![f] = left]
      BY <1>17, ThreadStep DEF FileStates
    <3>2. ASSUME NEW left \in FileStates PROVE [disk EXCEPT ![f] = left] \in [Jobs -> FileStates]
      OBVIOUS
    <3>3. CASE disk' = disk
      BY <3>3
    <3>4. CASE \E left \in FileStates : disk' = [disk EXCEPT ![f] = left]
      <4>1. PICK left \in FileStates : disk' = [disk EXCEPT ![f] = left]
        BY <3>4
      <4> QED BY ONLY <3>2, <4>1
    <3> QED BY <3>1, <3>3, <3>4
  <2>4. status' \in [Jobs -> {0, -1, 1}] /\ ttmp' \in [Jobs -> Int] /\ refs' \in Int
    <3>1. /\ status' = status \/ \E c \in {-1, 1, status[f]} : status' = [status EXCEPT ![f] = c]
          /\ \E n \in {0, refs, ttmp[f]} : ttmp' = [ttmp EXCEPT ![f] = n] \/ ttmp' = ttmp
          /\ refs' \in {refs, ttmp[f] - 1, refs - 1}
      BY <1>17, ThreadStep
    <3>2. ASSUME NEW c \in {-1, 1, status[f]}
          PROVE  [status EXCEPT ![f] = c] \in [Jobs -> {0, -1, 1}]
      <4>1. c \in {0, -1, 1}
        BY <1>17
      <4> QED BY <4>1
    <3>3. status' \in [Jobs -> {0, -1, 1}]
      <4>1. CASE status' = status
        BY <4>1
      <4>2. CASE \E c \in {-1, 1, status[f]} : status' = [status EXCEPT ![f] = c]
        BY ONLY <3>2, <4>2
      <4> QED BY <3>1, <4>1, <4>2
    <3>4. refs' \in Int /\ ttmp' \in [Jobs -> Int]
      <4>1. ttmp[f] \in Int /\ \A n \in Int : [ttmp EXCEPT ![f] = n] \in [Jobs -> Int]
        BY <1>17
      <4> QED BY <3>1, <4>1
    <3> QED BY <3>3, <3>4
  <2>5. lock' \in Jobs \cup {Main, Free}
    BY <1>17 DEF Thread, ThreadGivesUp, ThreadCheck, ThreadFetch, ThreadSkip, ThreadSaved, ThreadFails,
                 ThreadReport, ThreadReported, ThreadLoadRefs, ThreadExit
  <2> QED BY <2>1, <2>2, <2>3, <2>4, <2>5
<1>18. CASE UNCHANGED vars
  BY <1>18 DEF vars
<1> QED BY <1>1, <1>2, <1>3, <1>4, <1>5, <1>6, <1>7, <1>8, <1>9, <1>10, <1>10a, <1>11, <1>12,
           <1>12a, <1>12b, <1>12c, <1>12d, <1>13, <1>14, <1>15, <1>16, <1>17, <1>18 DEF Next, Install

-----------------------------------------------------------------------------
(* Slots *)

LEMMA ThreadSlots ==
  ASSUME TypeOK, SlotInv, NEW f \in Jobs, Thread(f)
  PROVE  SlotInv'
<1>1. UNCHANGED <<pc, rc, next, i, fetchs>>
  BY ThreadStep DEF main
<1>2. \A g \in Jobs : /\ tpc'[g] = "none" <=> tpc[g] = "none"
                      /\ tpc'[g] = "joined" <=> tpc[g] = "joined"
                      /\ tpc'[g] \in Unjoined <=> tpc[g] \in Unjoined
  <2>1. PICK to \in Unjoined : tpc' = [tpc EXCEPT ![f] = to]
    BY ThreadStep
  <2>2. DOMAIN tpc = Jobs /\ tpc[f] \in Running
    BY ThreadStep DEF TypeOK
  <2>3. tpc'[f] = to /\ \A g \in Jobs : g # f => tpc'[g] = tpc[g]
    BY <2>1, <2>2
  <2> QED BY <2>1, <2>2, <2>3 DEF Running, Unjoined
<1>3. \A g \in Sources : g \in Jobs
  BY Basics
<1>4. ASSUME pc \in Loops PROVE LoopInv'
  <2>1. LoopInv
    BY <1>4 DEF SlotInv
  <2>2. \A k \in 0 .. i - 1 : fetchs[k] \in Sources
    BY <2>1 DEF LoopInv
  <2> QED BY <1>1, <1>2, <1>3, <2>1, <2>2 DEF LoopInv, RowBegins, Filled, Joined, InSlot, Overflow
<1> QED BY <1>1, <1>2, <1>3, <1>4, Basics DEF SlotInv, Joined, Overflow, Succeeded

LEMMA StepSlots == TypeOK /\ SlotInv /\ [Next]_vars => SlotInv'
<1> SUFFICES ASSUME TypeOK, SlotInv, [Next]_vars PROVE SlotInv'
  OBVIOUS
<1> USE DEF persistent, copies, others, main, threads, Goto
<1>0. DOMAIN tpc = Jobs /\ DOMAIN fetchs = 0 .. NFiles - 1 /\ i \in Int /\ next \in Int
      /\ 1 <= next /\ next <= NFiles + 1 /\ i <= Max
  BY Basics DEF TypeOK
<1>1. CASE Start
  BY <1>1 DEF Start, SlotInv, Early, Before, Loops, JoinLoops, Late, Returned, Succeeded
<1>2. CASE Stop
  BY <1>2, Basics DEF Stop, Fresh, SlotInv, Early, Before, Loops, JoinLoops, Late, Returned, Succeeded,
                      Unjoined, Running
<1>3. CASE Prepare
  BY <1>3 DEF Prepare, SlotInv, Early, Before, Loops, JoinLoops, Late, Returned, Succeeded
<1>4. ASSUME pc' = "returned", rc' # 0, UNCHANGED tpc, pc # "join_makefile" PROVE SlotInv'
  BY <1>4 DEF SlotInv, Early, Before, Loops, JoinLoops, Late, Returned, Succeeded
<1>5. CASE PrepareFails \/ AllocFails \/ CreateFails
  BY <1>4, <1>5 DEF PrepareFails, AllocFails, CreateFails, Fail, EAGAIN
<1>6. CASE LoadRefs
  <2>1. CASE pc = "makefile"
    BY <1>6, <2>1 DEF LoadRefs, SlotInv, Early, Before, Loops, JoinLoops, Late, Returned, Succeeded
  <2>2. CASE pc = "launch"
    <3>1. LoopInv
      BY <2>2 DEF SlotInv, Loops
    <3>2. LoopInv'
      BY <1>6, <2>2, <3>1 DEF LoadRefs, LoopInv, RowBegins, Filled, Joined, InSlot
    <3> QED BY <1>6, <2>2, <3>2 DEF LoadRefs, SlotInv, Early, Before, Loops, JoinLoops, Late, Returned, Succeeded
  <2> QED BY <1>6, <2>1, <2>2 DEF LoadRefs
<1>7. CASE StartMakefile
  BY <1>0, <1>7, Basics DEF StartMakefile, CreateThread, SlotInv, Early, Before, Loops, JoinLoops, Late,
                            Returned, Succeeded
<1>8. CASE JoinMakefile
  BY <1>0, <1>8, Basics DEF JoinMakefile, SlotInv, Early, Before, Loops, JoinLoops, Late, Returned,
                            Succeeded, Unjoined, Running
<1>9. CASE CacheLock
  BY <1>9 DEF CacheLock, Acquire, SlotInv, Early, Before, Loops, JoinLoops, Late, Returned, Succeeded
<1>10. CASE CacheMiss \/ CacheDelete \/ CacheLoadFails
  <2>1. /\ pc \in {"check_cache", "load"} /\ pc' = "launch" /\ UNCHANGED <<tpc, i, next, fetchs, rc>>
        /\ next = 1 /\ i = 0 /\ \A f \in Sources : tpc[f] = "none"
    BY <1>10 DEF CacheMiss, CacheDelete, CacheLoadFails, Release, SlotInv, Early, Before
  <2>2. RowBegins'
    BY <2>1, ZeroMod, Basics DEF RowBegins, Filled
  <2>3. LoopInv'
    BY <2>1, <2>2 DEF LoopInv, Sources
  <2> QED BY <2>1, <2>3 DEF SlotInv, Early, Before, Loops, JoinLoops, Late, Returned, Succeeded
<1>11. CASE CacheHit \/ \E f \in Jobs : LoadFile(f)
  BY <1>11 DEF CacheHit, LoadFile, SlotInv, Early, Before, Loops, JoinLoops, Late, Returned, Succeeded
<1>11a. CASE CacheLoaded
  BY <1>11a DEF CacheLoaded, Release, SlotInv, Early, Before, Loops, JoinLoops, Late, Returned, Succeeded,
               Unjoined, Running
<1>12. CASE StartSource
  <2> DEFINE k == Filled
  <2>1. LoopInv /\ RowBegins /\ next \in Sources
    BY <1>12 DEF StartSource, SlotInv, LoopInv, Loops
  <2>2. /\ next' = next + 1 /\ rc' = rc /\ pc = "create"
        /\ fetchs' = [fetchs EXCEPT ![k] = next] /\ tpc' = [tpc EXCEPT ![next] = "start"]
        /\ \/ k < Max /\ i' = k + 1 /\ pc' = "launch"
           \/ ~(k < Max) /\ i' = k /\ pc' = "drain"
    BY <1>12 DEF StartSource, CreateThread, Filled
  <2>3. /\ k \in 0 .. NFiles - 1 /\ k <= Max /\ k <= next - 1 /\ (i < 0 => k = 0) /\ (i >= 0 => k = i)
    BY <1>0, <2>1, Basics DEF LoopInv, Filled, Sources
  <2>4. /\ tpc'[next] = "start" /\ \A f \in Jobs : f # next => tpc'[f] = tpc[f]
        /\ fetchs'[k] = next /\ \A j \in 0 .. i - 1 : fetchs'[j] = fetchs[j] /\ j # k
    <3>1. \A j \in 0 .. i - 1 : j \in 0 .. NFiles - 1 /\ j # k
      BY <1>0, <2>1, <2>3, Basics DEF LoopInv
    <3> QED BY <1>0, <2>1, <2>2, <2>3, <3>1, Basics
  <2>5. \A f \in Sources : Joined(f)' <=> Joined(f)
    BY <2>1, <2>4, <1>0, Basics DEF Joined, LoopInv
  <2> HIDE DEF k
  <2>6. ASSUME NEW j \in 0 .. k - 1
        PROVE  /\ j \in 0 .. i - 1 /\ fetchs'[j] = fetchs[j] /\ fetchs'[j] \in Sources
               /\ fetchs'[j] < next /\ fetchs'[j] # next /\ tpc'[fetchs'[j]] \in Unjoined
    <3>1. j \in 0 .. i - 1
      BY <1>0, <2>3
    <3>2. fetchs'[j] = fetchs[j] /\ fetchs[j] \in Sources /\ fetchs[j] < next /\ tpc[fetchs[j]] \in Unjoined
      BY <2>1, <2>4, <3>1 DEF LoopInv
    <3>3. fetchs[j] # next
      BY <1>0, <3>2
    <3> QED BY <2>4, <3>1, <3>2, <3>3, Basics
  <2>7. \A f \in Sources : f >= next' => tpc'[f] = "none"
    <3> SUFFICES ASSUME NEW f \in Sources, f >= next + 1 PROVE tpc'[f] = "none"
      BY <2>2
    <3>1. f >= next /\ f # next
      BY <1>0, Basics
    <3> QED BY <2>1, <2>4, <3>1, Basics DEF LoopInv
  <2>8. ASSUME NEW f \in Sources, f < next, f \notin Overflow, ~Joined(f)'
        PROVE  \E j \in 0 .. k - 1 : fetchs'[j] = f
    <3>1. InSlot(f)
      BY <2>1, <2>5, <2>8 DEF LoopInv
    <3>2. PICK j \in 0 .. i - 1 : fetchs[j] = f
      BY <3>1 DEF InSlot
    <3>3. j \in 0 .. k - 1
      BY <1>0, <2>3
    <3> QED BY <2>4, <3>2, <3>3
  <2>9. CASE k < Max
    <3>1. i' = k + 1 /\ pc' = "launch"
      BY <2>2, <2>9
    <3>2. /\ i' \in Int /\ i' >= 0 /\ i' <= next' - 1 /\ i' - 1 = k
          /\ k \in Nat /\ k \in 0 .. i' - 1
      BY <1>0, <2>2, <2>3, <3>1
    <3>3. RowBegins'
      <4>1. next' - 1 - Filled' = next - 1 - Filled
        BY <1>0, <2>2, <2>3, <3>1, <3>2 DEF Filled, k
      <4> QED BY <2>1, <4>1 DEF RowBegins
    <3>4. \A j \in 0 .. i' - 1 : j = k \/ j \in 0 .. k - 1
      BY <3>1, <3>2
    <3>5. \A j \in 0 .. i' - 1 :
            /\ fetchs'[j] \in Sources /\ fetchs'[j] < next' /\ tpc'[fetchs'[j]] \in Unjoined
            /\ \A l \in 0 .. i' - 1 : fetchs'[l] = fetchs'[j] => l = j
      <4>1. ASSUME NEW j \in 0 .. i' - 1
            PROVE  fetchs'[j] \in Sources /\ fetchs'[j] < next' /\ tpc'[fetchs'[j]] \in Unjoined
        <5>1. CASE j = k
          BY <1>0, <2>1, <2>2, <2>4, <5>1 DEF k, Unjoined, Running
        <5>2. CASE j \in 0 .. k - 1
          <6>1. fetchs'[j] \in Int
            BY <2>6, <5>2, Basics
          <6> QED BY <1>0, <2>2, <2>6, <5>2, <6>1
        <5> QED BY <3>4, <5>1, <5>2
      <4>2. ASSUME NEW j \in 0 .. i' - 1, NEW l \in 0 .. i' - 1, fetchs'[l] = fetchs'[j]
            PROVE  l = j
        <5>1. CASE j = k \/ l = k
          BY <2>4, <2>6, <3>4, <4>2, <5>1 DEF k
        <5>2. CASE j \in 0 .. k - 1 /\ l \in 0 .. k - 1
          BY <2>1, <2>6, <4>2, <5>2 DEF LoopInv
        <5> QED BY <3>4, <5>1, <5>2
      <4> QED BY <4>1, <4>2
    <3>6. \A f \in Sources : f < next' => f \in Overflow \/ Joined(f)' \/ InSlot(f)'
      <4> SUFFICES ASSUME NEW f \in Sources, f < next + 1, f \notin Overflow, ~Joined(f)'
                   PROVE  \E j \in 0 .. i' - 1 : fetchs'[j] = f
        BY <2>2 DEF InSlot, Joined
      <4>1. CASE f = next
        <5>1. k \in 0 .. i' - 1 /\ fetchs'[k] = f
          BY <2>4, <3>2, <4>1
        <5> QED BY <5>1
      <4>2. CASE f < next
        <5>1. \A j \in 0 .. k - 1 : j \in 0 .. i' - 1
          BY <3>1, <3>2
        <5> QED BY <2>8, <4>2, <5>1
      <4> QED BY <1>0, <4>1, <4>2, Basics
    <3>7. LoopInv'
      BY <2>7, <3>1, <3>2, <3>3, <3>5, <3>6 DEF LoopInv, Overflow, Joined, InSlot
    <3> QED BY <2>1, <2>2, <2>4, <3>1, <3>7, Basics
            DEF SlotInv, Early, Before, Loops, JoinLoops, Late, Returned, Succeeded, Sources
  <2>10. CASE ~(k < Max)
    <3>1. i' = k /\ pc' = "drain" /\ k = Max /\ k \in Nat /\ next' = next + 1
      BY <2>2, <2>3, <2>10, Basics
    <3>2. next % (Max + 1) = 0
      <4>1. (next - 1 - Max) % (Max + 1) = 0 /\ next - 1 - Max \in Nat
        BY <1>0, <2>1, <2>3, <3>1, Basics DEF RowBegins, k
      <4>2. (next - 1 - Max) + (Max + 1) = next
        BY <1>0, Basics
      <4> QED BY <4>1, <4>2, NextMultiple, Basics
    <3>3. next \in Overflow /\ (next' - 1) % (Max + 1) = 0
      <4>1. next' - 1 = next
        BY <1>0, <3>1
      <4> QED BY <2>1, <3>2, <4>1 DEF Overflow
    <3>4. \A j \in 0 .. i' - 1 :
            /\ fetchs'[j] \in Sources /\ fetchs'[j] < next' /\ tpc'[fetchs'[j]] \in Unjoined
            /\ \A l \in 0 .. i' - 1 : fetchs'[l] = fetchs'[j] => l = j
      <4>1. ASSUME NEW j \in 0 .. k - 1 PROVE fetchs'[j] < next'
        <5>1. fetchs'[j] \in Int /\ fetchs'[j] < next
          BY <2>6, Basics
        <5> QED BY <1>0, <3>1, <5>1
      <4>2. ASSUME NEW j \in 0 .. k - 1, NEW l \in 0 .. k - 1, fetchs'[l] = fetchs'[j]
            PROVE  l = j
        BY <2>1, <2>6, <4>2 DEF LoopInv
      <4> QED BY <2>6, <3>1, <4>1, <4>2
    <3>5. \A f \in Sources : f < next' => f \in Overflow \/ Joined(f)' \/ InSlot(f)'
      <4> SUFFICES ASSUME NEW f \in Sources, f < next + 1, f \notin Overflow, ~Joined(f)'
                   PROVE  \E j \in 0 .. k - 1 : fetchs'[j] = f
        BY <3>1 DEF InSlot, Joined
      <4>1. f < next
        BY <1>0, <3>3, Basics
      <4> QED BY <2>8, <4>1
    <3>6. -1 <= i' /\ i' <= next' - 1 /\ i' >= 0
      BY <1>0, <2>3, <3>1
    <3>7. LoopInv'
      BY <2>7, <3>1, <3>3, <3>4, <3>5, <3>6 DEF LoopInv, Overflow, Joined, InSlot
    <3> QED BY <2>1, <2>2, <2>4, <3>1, <3>7, Basics
            DEF SlotInv, Early, Before, Loops, JoinLoops, Late, Returned, Succeeded, Sources
  <2> QED BY <2>9, <2>10
<1>13. CASE LaunchedAll
  <2>1. LoopInv
    BY <1>13 DEF LaunchedAll, SlotInv, Loops
  <2>2. LoopInv'
    BY <1>13, <2>1 DEF LaunchedAll, LoopInv, Joined, InSlot
  <2> QED BY <1>13, <2>2 DEF LaunchedAll, SlotInv, Early, Before, Loops, JoinLoops, Late, Returned, Succeeded
<1>14. CASE JoinOk \/ JoinFailed
  <2> DEFINE f == fetchs[i - 1]
  <2>1. /\ LoopInv /\ i > 0 /\ pc \in JoinLoops /\ next' = next /\ i' = i - 1
        /\ tpc' = [tpc EXCEPT ![f] = "joined"] /\ fetchs' = [fetchs EXCEPT ![i - 1] = NoJob]
        /\ \/ pc' = pc /\ rc' = rc
           \/ pc' = "returned" /\ rc' = -1
    BY <1>14 DEF JoinOk, JoinFailed, JoinedThread, SlotInv, Loops
  <2>2. /\ i - 1 \in 0 .. i - 1 /\ f \in Sources /\ f < next
        /\ \A l \in 0 .. i - 1 : fetchs[l] = f => l = i - 1
    <3>1. i - 1 \in 0 .. i - 1
      BY <1>0, <2>1
    <3> QED BY <2>1, <3>1 DEF LoopInv
  <2>3. /\ tpc'[f] = "joined" /\ \A g \in Jobs : g # f => tpc'[g] = tpc[g]
        /\ \A j \in 0 .. i - 2 : j \in 0 .. i - 1 /\ fetchs'[j] = fetchs[j] /\ fetchs[j] # f
    <3>1. \A j \in 0 .. i - 2 : j \in 0 .. i - 1 /\ j # i - 1
      BY <1>0
    <3> QED BY <1>0, <2>1, <2>2, <3>1, Basics
  <2> HIDE DEF f
  <2>4. tpc'[Makefile] = tpc[Makefile]
    BY <2>2, <2>3, Basics
  <2>5. CASE pc' = "returned"
    BY <2>1, <2>4, <2>5 DEF SlotInv, Early, Before, Loops, JoinLoops, Late, Returned, Succeeded
  <2>6. CASE pc' = pc /\ rc' = rc
    <3>1. /\ \A g \in Sources : g >= next => tpc'[g] = "none"
          /\ \A g \in Sources : Joined(g) => Joined(g)'
      BY <1>0, <2>1, <2>2, <2>3, Basics DEF LoopInv, Joined
    <3>2. ASSUME NEW g \in Sources, g < next, g \notin Overflow, ~Joined(g)'
          PROVE  \E j \in 0 .. i - 2 : fetchs'[j] = g
      <4>1. g # f /\ InSlot(g)
        BY <2>1, <2>3, <3>1, <3>2 DEF Joined, LoopInv
      <4>2. PICK j \in 0 .. i - 1 : fetchs[j] = g
        BY <4>1 DEF InSlot
      <4>3. j # i - 1
        BY <4>1, <4>2 DEF f
      <4>4. j \in 0 .. i - 2
        BY <1>0, <4>3
      <4> QED BY <2>3, <4>2, <4>4
    <3>3. \A j \in 0 .. i - 2 :
            /\ fetchs'[j] \in Sources /\ fetchs'[j] < next /\ tpc'[fetchs'[j]] \in Unjoined
            /\ \A l \in 0 .. i - 2 : fetchs'[l] = fetchs'[j] => l = j
      BY <2>1, <2>3, Basics DEF LoopInv
    <3>4. i' - 1 = i - 2 /\ -1 <= i' /\ i' <= next' - 1 /\ i' >= 0
      <4>1. i <= next - 1
        BY <2>1 DEF LoopInv
      <4> QED BY <1>0, <2>1, <4>1
    <3>5. LoopInv'
      <4>1. pc' \in {"drain", "final"}
        BY <2>1, <2>6 DEF JoinLoops
      <4>2. (pc' = "drain" => (next' - 1) % (Max + 1) = 0) /\ (pc' = "final" => next' \notin Sources)
        BY <2>1, <2>6 DEF LoopInv
      <4>3. \A g \in Sources : g < next' => g \in Overflow \/ Joined(g)' \/ InSlot(g)'
        BY <2>1, <3>2, <3>4 DEF InSlot
      <4> QED BY <2>1, <3>1, <3>3, <3>4, <4>1, <4>2, <4>3 DEF LoopInv, Overflow, Joined, InSlot
    <3> QED BY <2>1, <2>4, <2>6, <3>5
            DEF SlotInv, Early, Before, Loops, JoinLoops, Late, Returned, Succeeded
  <2> QED BY <2>1, <2>5, <2>6
<1>15. CASE JoinsDone
  <2>1. /\ LoopInv /\ i <= 0 /\ i' = i - 1 /\ UNCHANGED <<rc, next, fetchs, tpc>>
        /\ \/ pc = "drain" /\ pc' = "launch"
           \/ pc = "final" /\ pc' = "save"
    BY <1>15 DEF JoinsDone, SlotInv, Loops, JoinLoops
  <2>2. (0 .. i - 1) = {} /\ (0 .. i' - 1) = {}
    BY <1>0, <2>1
  <2>3. \A f \in Sources : f < next => f \in Overflow \/ Joined(f)
    BY <2>1, <2>2 DEF LoopInv, InSlot
  <2>4. CASE pc = "drain"
    <3>1. i' = -1 /\ i' <= next' - 1 /\ Filled' = 0 /\ (next - 1) % (Max + 1) = 0
          /\ next' - 1 - 0 = next - 1
      BY <1>0, <2>1, <2>4 DEF LoopInv, Filled
    <3>2. LoopInv'
      BY <2>1, <2>2, <2>3, <2>4, <3>1 DEF LoopInv, RowBegins, Joined, Overflow
    <3> QED BY <2>1, <2>4, <3>2 DEF SlotInv, Early, Before, Loops, JoinLoops, Late, Returned, Succeeded
  <2>5. CASE pc = "final"
    <3>1. \A f \in Sources : f < next
      BY <1>0, <2>1, <2>5, Basics DEF LoopInv, Sources
    <3>2. next' \notin Sources
      BY <2>1, <2>5 DEF LoopInv
    <3> QED BY <2>1, <2>3, <2>5, <3>1, <3>2
            DEF SlotInv, Early, Before, Loops, JoinLoops, Late, Returned, Succeeded, Joined, Overflow
  <2> QED BY <2>1, <2>4, <2>5
<1>16. CASE CacheSave \/ (\E f \in Jobs : SaveFile(f)) \/ CacheSaved \/ CacheSaveFails
  BY <1>16 DEF CacheSave, SaveFile, CacheSaved, CacheSaveFails, Release, SlotInv, Early, Before, Loops, JoinLoops, Late,
               Returned, Succeeded, Joined, Unjoined, Running
<1>17. CASE InstallRest
  BY <1>17 DEF InstallRest, SlotInv, Early, Before, Loops, JoinLoops, Late, Returned, Succeeded
<1>18. CASE FreePackage
  BY <1>18 DEF FreePackage, SlotInv, Early, Before, Loops, JoinLoops, Late, Returned, Succeeded
<1>19. ASSUME NEW f \in Jobs, Thread(f) PROVE SlotInv'
  BY <1>19, ThreadSlots
<1>20. CASE UNCHANGED vars
  BY <1>20 DEF vars, SlotInv, LoopInv, RowBegins, Filled, Joined, InSlot, Succeeded
<1> QED BY <1>1, <1>2, <1>3, <1>5, <1>6, <1>7, <1>8, <1>9, <1>10, <1>11, <1>11a, <1>12,
           <1>13, <1>14, <1>15, <1>16, <1>17, <1>18, <1>19, <1>20 DEF Next, Install, NoMoreRuns

LEMMA StepCopies == TypeOK /\ CopyInv /\ TypeOK' /\ [Next]_vars => CopyInv'
<1> SUFFICES ASSUME TypeOK, CopyInv, TypeOK', [Next]_vars PROVE CopyInv'
  OBVIOUS
<1> USE DEF CopyInv, Copying, Cached, persistent, copies, others, main, threads, Goto
<1>1. CASE Start \/ Stop \/ NoMoreRuns
  BY <1>1 DEF Start, Stop, Fresh, NoMoreRuns, vars
<1>2. CASE \/ Prepare \/ PrepareFails \/ LoadRefs \/ AllocFails \/ CreateFails
           \/ StartMakefile \/ JoinMakefile \/ CacheLock \/ CacheMiss \/ CacheDelete \/ CacheHit
  BY <1>2 DEF Prepare, PrepareFails, LoadRefs, AllocFails, CreateFails, Fail, StartMakefile,
       CreateThread, JoinMakefile, CacheLock, Acquire, CacheMiss, CacheDelete, Release, CacheHit
<1>3. CASE CacheLoaded \/ CacheLoadFails \/ CacheSaved \/ CacheSaveFails
  BY <1>3 DEF CacheLoaded, CacheLoadFails, CacheSaved, CacheSaveFails, Release
<1>4. CASE \E f \in Jobs : LoadFile(f)
  BY <1>4 DEF LoadFile
<1>5. ASSUME NEW f \in Jobs, SaveFile(f) \/ CacheSave PROVE CopyInv'
  <2>1. pc' = "save_cache"
    BY <1>5 DEF SaveFile, CacheSave
  <2>2. DOMAIN cache' = Jobs
    BY <1>5, TypedCache DEF SaveFile, CacheSave, Copies, TypeOK
  <2>3. DOMAIN NotCached = {} /\ Jobs # {}
    BY Basics DEF NotCached
  <2> QED BY <2>1, <2>2, <2>3
<1>6. CASE StartSource \/ LaunchedAll \/ JoinOk \/ JoinFailed \/ JoinsDone \/ InstallRest \/ FreePackage
  BY <1>6 DEF StartSource, CreateThread, LaunchedAll, JoinOk, JoinFailed, JoinedThread, JoinLoops,
       JoinsDone, InstallRest, FreePackage
<1>7. ASSUME NEW f \in Jobs, Thread(f) PROVE CopyInv'
  BY <1>7, ThreadStep
<1>8. CASE UNCHANGED vars
  BY <1>8 DEF vars
<1> QED BY <1>1, <1>2, <1>3, <1>4, <1>5, <1>6, <1>7, <1>8, Basics DEF Next, Install

IInv == TypeOK /\ SlotInv /\ CopyInv

LEMMA InitInv == Init => IInv
<1>1. Init => CopyInv
  BY DEF Init, CopyInv, Copying
<1> QED BY <1>1, InitTyped, InitSlots DEF IInv

LEMMA StepInv == IInv /\ [Next]_vars => IInv'
<1> QED BY StepTyped, StepSlots, StepCopies DEF IInv

LEMMA Inductive == Spec => []IInv
<1> QED BY InitInv, StepInv, PTL DEF Spec

\* The types hold in every run: the index stays within the slots, whatever the
\* order in which the threads end (lines 1478-1541).
THEOREM TypeCorrect == Spec => []TypeOK
<1> QED BY Inductive, PTL DEF IInv

\* Whatever the number of sources and the concurrency, the loops of lines 1489 and
\* 1519 join threads that were created and not joined, and each of them once.
THEOREM SlotsCanBeJoined == Spec => []SlotsAreJoinable
<1>1. IInv => SlotsAreJoinable
  BY DEF IInv, SlotInv, LoopInv, SlotsAreJoinable, Loops, Unjoined
<1> QED BY <1>1, Inductive, PTL

\* When clib_package_install() returns 0, nobody but sources of slot
\* opts.concurrency is still being fetched.
THEOREM SuccessIsJoined == Spec => []SuccessMeansJoined
<1>1. IInv => SuccessMeansJoined
  <2> SUFFICES ASSUME IInv, Succeeded, NEW f \in Jobs, tpc[f] \in Unjoined PROVE f \in Overflow
    BY DEF SuccessMeansJoined, Unjoined
  <2>1. f # Makefile
    BY DEF IInv, SlotInv, Succeeded
  <2>2. f \in Sources
    BY <2>1, FetchAssumption DEF Jobs, Sources, Makefile
  <2> QED BY <2>2 DEF IInv, SlotInv
<1> QED BY <1>1, Inductive, PTL

-----------------------------------------------------------------------------
(* Files *)

\* What a source is when its thread looks for it: as the process found it, unless a
\* failed copy from the cache has copied or cut it.
AsFound(f) == disk[f] \in {found[f], "whole"} \/ (f \in cut /\ disk[f] = "part")

\* What a source's thread leaves behind when it reports no error.
Had(f) ==
  \/ disk[f] = "whole"
  \/ ~ForceFetch /\ disk[f] # "no" /\ (found[f] = "part" \/ f \in cut)

\* What is there when the copies and the threads are done.
Done == \A f \in Sources \ Overflow :
  /\ Downloaded => Had(f)
  /\ ~Downloaded => /\ disk[f] = (IF cache[f] = "no" THEN found[f] ELSE cache[f])
                    /\ complete => disk[f] # "no"

\* Until its thread fetches a source, it is as found.
FileInv ==
  /\ \A f \in Sources :
       /\ tpc[f] = "none" /\ pc \in Loops => AsFound(f)
       /\ tpc[f] \in {"start", "check"} => AsFound(f)
       /\ tpc[f] \in {"none", "start", "check", "fetch"} => status[f] = 0
       /\ tpc[f] \in {"report", "reporting", "unref", "store", "exited", "joined"}
            => status[f] # 0 \/ Had(f)
       /\ Joined(f) /\ status[f] # 0 => pc \in Returned /\ rc # 0
  /\ \A f \in Jobs : tpc[f] = "fetch" => disk[f] = "part"
  /\ pc = "install" \/ Succeeded => Done

\* How far the copies are, from the cache and to it.
HalfInv ==
  /\ pc \in Before => \A f \in Sources : disk[f] = found[f]
  /\ pc = "load" => \A f \in Sources :
       /\ disk[f] = (IF f \in copied THEN cache[f] ELSE found[f])
       /\ f \in copied => cache[f] # "no"
  /\ pc = "save_cache" =>
       ~complete /\ \A f \in Sources \ Overflow : f \in copied => cache[f] = disk[f]

CacheInv == Cached /\ complete => \A f \in Sources \ Overflow :
  cache[f] # "no" /\ (ForceFetch => cache[f] = "whole")

FilesInv == IInv /\ FileInv /\ HalfInv /\ CacheInv

LEMMA InitFiles == Init => FilesInv
<1> SUFFICES ASSUME Init PROVE FilesInv
  OBVIOUS
<1>1. IInv
  BY InitInv
<1>2. FileInv /\ HalfInv
  BY Basics DEF Init, FileInv, HalfInv, Before, Loops, JoinLoops, Joined, Returned, Succeeded
<1>3. CacheInv
  BY DEF Init, CacheInv, Cached
<1> QED BY <1>1, <1>2, <1>3 DEF FilesInv

\* A step that touches neither files nor copies, and no thread of a source.
LEMMA FilesUntouched ==
  ASSUME FilesInv, UNCHANGED <<disk, found, cache, complete, copied, cut>>,
         \A f \in Sources : status'[f] = status[f],
         \A f \in Jobs : tpc'[f] = tpc[f] \/ (f = Makefile /\ tpc'[f] \in {"start", "joined"}),
         pc' \in Before \cup {"load"} => pc \in Before, pc' # "save_cache",
         pc' \in Loops => pc \in Loops \cup Before,
         pc \in Returned => pc' \in Returned /\ rc' = rc,
         pc' = "install" \/ Succeeded' => Done'
  PROVE  FileInv' /\ HalfInv' /\ CacheInv'
<1>1. \A f \in Sources : f \in Jobs /\ f # Makefile
  BY Basics
<1>2. CacheInv'
  BY <1>1 DEF FilesInv, CacheInv, Cached, Overflow
<1>3. HalfInv'
  BY DEF FilesInv, HalfInv, IInv, CopyInv, Copying, Before
<1>4. FileInv'
  <2>1. ASSUME NEW f \in Sources
        PROVE  /\ tpc'[f] = tpc[f] /\ status'[f] = status[f] /\ Had(f)' = Had(f)
               /\ AsFound(f)' = AsFound(f)
               /\ pc \in Before => AsFound(f)
    BY <1>1 DEF Had, AsFound, FilesInv, HalfInv
  <2>2. \A f \in Jobs : tpc'[f] = "fetch" => disk'[f] = "part"
    BY DEF FilesInv, FileInv
  <2> QED BY <2>1, <2>2 DEF FilesInv, FileInv, Joined
<1> QED BY <1>2, <1>3, <1>4

LEMMA ThreadFiles ==
  ASSUME FilesInv, NEW f \in Jobs, Thread(f)
  PROVE  FileInv' /\ HalfInv' /\ CacheInv'
<1>0. /\ DOMAIN tpc = Jobs /\ DOMAIN disk = Jobs /\ DOMAIN status = Jobs
      /\ status[f] \in {0, -1, 1} /\ \A g \in Sources : g \in Jobs
  BY Basics DEF FilesInv, IInv, TypeOK
<1>1. /\ UNCHANGED <<cache, complete, copied, cut, found, pc, rc, next>> /\ tpc[f] \in Running
      /\ \A g \in Jobs : g # f => /\ tpc'[g] = tpc[g] /\ disk'[g] = disk[g]
                                 /\ status'[g] = status[g]
  BY <1>0, ThreadStep DEF main
<1>2. /\ tpc'[f] \in Unjoined
      /\ f \in Sources =>
           /\ tpc'[f] \in {"start", "check"} => AsFound(f)'
           /\ tpc'[f] \in {"start", "check", "fetch"} => status'[f] = 0
           /\ tpc'[f] \in {"report", "reporting", "unref", "store", "exited"} =>
                status'[f] # 0 \/ Had(f)'
      /\ tpc'[f] = "fetch" => disk'[f] = "part"
  <2> USE <1>0, <1>1 DEF Step, FilesInv, FileInv, Had, AsFound, Unjoined, Running
  <2>0. CASE ThreadGivesUp(f)
    BY <2>0 DEF ThreadGivesUp
  <2>1. CASE ThreadCheck(f)
    BY <2>1 DEF ThreadCheck
  <2>2. CASE ThreadFetch(f)
    BY <2>2 DEF ThreadFetch
  <2>3. CASE ThreadSkip(f)
    <3>1. /\ tpc[f] = "check" /\ tpc'[f] = "unref" /\ ~ForceFetch /\ disk[f] # "no" /\ disk' = disk
      BY <2>3 DEF ThreadSkip
    <3>2. disk[f] \in {"part", "whole"}
      BY <3>1 DEF IInv, TypeOK, FileStates
    <3>3. f \in Sources => disk[f] = "whole" \/ found[f] = "part" \/ f \in cut
      BY <3>1, <3>2
    <3> QED BY <3>1, <3>3
  <2>4. CASE ThreadSaved(f)
    BY <2>4 DEF ThreadSaved, Reported
  <2>5. CASE ThreadFails(f)
    BY <2>5 DEF ThreadFails, Reported
  <2>6. CASE ThreadReport(f)
    BY <2>6 DEF ThreadReport
  <2>7. CASE ThreadReported(f)
    BY <2>7 DEF ThreadReported
  <2>8. CASE ThreadLoadRefs(f)
    BY <2>8 DEF ThreadLoadRefs
  <2>9. CASE ThreadExit(f)
    BY <2>9 DEF ThreadExit
  <2> QED BY <2>0, <2>1, <2>2, <2>3, <2>4, <2>5, <2>6, <2>7, <2>8, <2>9 DEF Thread
<1>3. pc = "install" \/ Succeeded \/ pc = "save_cache" => f \notin Sources \ Overflow
  BY <1>1 DEF FilesInv, IInv, SlotInv, Late, Joined, Unjoined, Running
<1>3a. pc \in Before \cup {"load"} => f \notin Sources
  BY <1>1 DEF FilesInv, IInv, SlotInv, Early, Running
<1>4. FileInv'
  <2>1. pc = "install" \/ Succeeded => Done'
    BY <1>0, <1>1, <1>3 DEF FilesInv, FileInv, Done, Had, Downloaded, Overflow
  <2>2. tpc'[f] # "none" /\ tpc'[f] # "joined"
    BY <1>2 DEF Unjoined, Running
  <2>3. ASSUME NEW g \in Sources, g # f PROVE Had(g)' = Had(g) /\ AsFound(g)' = AsFound(g)
    BY <1>0, <1>1, <2>3 DEF Had, AsFound
  <2> QED BY <1>0, <1>1, <1>2, <2>1, <2>2, <2>3 DEF FilesInv, FileInv, Joined, Succeeded
<1>5. HalfInv'
  BY <1>0, <1>1, <1>3, <1>3a DEF FilesInv, HalfInv
<1>6. CacheInv'
  BY <1>1 DEF FilesInv, CacheInv, Cached
<1> QED BY <1>4, <1>5, <1>6

\* The copy from the cache runs while no thread does.
LEMMA LoadFiles ==
  ASSUME FilesInv, pc = "load"
  PROVE  /\ \A f \in Sources : f \in Jobs /\ tpc[f] = "none" /\ status[f] = 0
         /\ \A f \in Jobs : tpc[f] \notin Unjoined
         /\ next = 1
<1>1. \A f \in Sources : f \in Jobs /\ tpc[f] = "none"
  BY Basics DEF FilesInv, IInv, SlotInv, Early
<1>2. \A f \in Sources : status[f] = 0
  BY <1>1 DEF FilesInv, FileInv
<1>3. \A f \in Jobs : f \in Sources \/ f = Makefile
  BY FetchAssumption DEF Jobs, Sources, Makefile
<1> QED BY <1>1, <1>2, <1>3 DEF FilesInv, IInv, SlotInv, Early, Unjoined, Running

\* The copy into the cache follows the joins.
LEMMA SaveFiles ==
  ASSUME FilesInv, pc \in Late
  PROVE  /\ Downloaded
         /\ \A f \in Sources \ Overflow : f \in Jobs /\ tpc[f] = "joined" /\ Had(f)
BY Basics DEF FilesInv, IInv, SlotInv, FileInv, Late, Returned, Joined, Downloaded

LEMMA StepFiles == FilesInv /\ [Next]_vars => FilesInv'
<1> SUFFICES ASSUME FilesInv, [Next]_vars PROVE FileInv' /\ HalfInv' /\ CacheInv'
  BY StepInv DEF FilesInv
<1> USE DEF persistent, copies, others, main, threads, Goto
<1>0. DOMAIN tpc = Jobs /\ DOMAIN disk = Jobs /\ DOMAIN status = Jobs
  BY DEF FilesInv, IInv, TypeOK
<1>1. CASE Start
  <2>1. \A f \in Sources : tpc[f] = "none" /\ f \in Jobs
    BY <1>1, Basics DEF Start, FilesInv, IInv, SlotInv, Early
  <2>2. /\ UNCHANGED <<cache, complete, tpc, status>> /\ pc = "off" /\ pc' = "begin"
        /\ found' = [f \in Sources |-> disk'[f]]
    BY <1>1 DEF Start
  <2>3. \A f \in Jobs : tpc[f] # "fetch"
    <3>1. \A f \in Jobs : f \in Sources \/ f = Makefile
      BY FetchAssumption DEF Jobs, Sources, Makefile
    <3> QED BY <2>1, <2>2, <3>1 DEF FilesInv, IInv, SlotInv, Unjoined, Running
  <2>4. FileInv' /\ HalfInv'
    BY <2>1, <2>2, <2>3 DEF FilesInv, FileInv, HalfInv, Before, Loops, JoinLoops, Joined, Returned, Succeeded
  <2>5. CacheInv'
    BY <2>2 DEF FilesInv, CacheInv, Cached
  <2> QED BY <2>4, <2>5
<1>2. CASE Stop
  <2>1. /\ pc' = "off" /\ UNCHANGED <<complete, found>>
        /\ \A f \in Jobs : tpc'[f] = "none" /\ status'[f] = 0
    BY <1>2 DEF Stop, Fresh
  <2>2. FileInv' /\ HalfInv'
    BY <2>1, Basics DEF FileInv, HalfInv, Before, Loops, JoinLoops, Joined, Returned, Succeeded
  <2>3. CacheInv'
    <3>1. cache' = cache \/ pc = "save_cache"
      BY <1>2 DEF Stop
    <3> QED BY <2>1, <3>1 DEF FilesInv, HalfInv, CacheInv, Cached
  <2> QED BY <2>2, <2>3
<1>3. CASE Prepare \/ LoadRefs \/ LaunchedAll \/ JoinsDone \/ CacheLock \/ CacheMiss \/ CacheHit
  <2>1. /\ UNCHANGED <<disk, found, cache, complete, copied, cut, status, tpc, rc>>
        /\ \/ pc \in Before /\ pc' \in Before \cup {"launch", "load"}
           \/ pc \in Loops /\ pc' \in Loops \cup {"save"}
    BY <1>3 DEF Prepare, LoadRefs, LaunchedAll, JoinsDone, CacheLock, Acquire, CacheMiss, Release,
         CacheHit, Before, Loops, JoinLoops
  <2> QED BY <2>1, FilesUntouched DEF Before, Loops, JoinLoops, Returned, Succeeded
<1>4. CASE PrepareFails \/ AllocFails \/ CreateFails
  BY <1>4, FilesUntouched DEF PrepareFails, AllocFails, CreateFails, Fail, EAGAIN, Before, Loops,
       JoinLoops, Returned, Succeeded
<1>5. CASE StartMakefile \/ JoinMakefile
  <2>1. /\ UNCHANGED <<disk, found, cache, complete, copied, cut>>
        /\ pc \in Before /\ pc' \in {"join_makefile", "cache"}
        /\ \/ tpc' = [tpc EXCEPT ![Makefile] = "start"] /\ status' = status
           \/ tpc' = [tpc EXCEPT ![Makefile] = "joined"] /\ status' = [status EXCEPT ![Makefile] = 0]
    BY <1>5 DEF StartMakefile, CreateThread, JoinMakefile, Before
  <2>2. \A f \in Sources : status'[f] = status[f]
    BY <1>0, <2>1, Basics
  <2>3. \A f \in Jobs : tpc'[f] = tpc[f] \/ (f = Makefile /\ tpc'[f] \in {"start", "joined"})
    BY <1>0, <2>1, Basics
  <2> QED BY <2>1, <2>2, <2>3, FilesUntouched DEF Before, Loops, JoinLoops, Returned, Succeeded
<1>6. CASE InstallRest \/ FreePackage
  <2>1. Done' \/ ~(pc' = "install" \/ Succeeded')
    BY <1>6 DEF InstallRest, FreePackage, FilesInv, FileInv, Succeeded, Done, Had, Downloaded, Overflow
  <2> QED BY <1>6, <2>1, FilesUntouched DEF InstallRest, FreePackage, Before, Loops, JoinLoops, Returned
<1>7. CASE CacheDelete
  <2>1. /\ pc = "check_cache" /\ pc' = "launch" /\ complete' = FALSE
        /\ UNCHANGED <<disk, found, copied, cut, tpc, status, rc>>
    BY <1>7 DEF CacheDelete, Release
  <2>2. \A f \in Sources : disk[f] = found[f]
    BY <2>1 DEF FilesInv, HalfInv, Before
  <2>3. FileInv'
    BY <2>1, <2>2 DEF FilesInv, FileInv, AsFound, Had, Joined, Returned, Succeeded
  <2> QED BY <2>1, <2>3 DEF HalfInv, CacheInv, Before
<1>8. ASSUME NEW g \in Jobs, LoadFile(g) PROVE FileInv' /\ HalfInv' /\ CacheInv'
  <2>1. /\ pc = "load" /\ pc' = "load" /\ UNCHANGED <<cache, complete, found, cut, tpc, status, rc>>
        /\ disk' = [disk EXCEPT ![g] = cache[g]] /\ copied' = copied \cup {g} /\ cache[g] # "no"
    BY <1>8 DEF LoadFile, Copies, Listed, Uncopied
  <2>2. FileInv'
    BY <2>1, LoadFiles DEF FileInv, Loops, JoinLoops, Joined, Returned, Succeeded, Unjoined, Running
  <2>3. HalfInv'
    BY <1>0, <2>1, LoadFiles DEF FilesInv, HalfInv, Before
  <2>4. CacheInv'
    BY <2>1 DEF FilesInv, CacheInv, Cached
  <2> QED BY <2>2, <2>3, <2>4
<1>9. CASE CacheLoaded
  <2>1. /\ pc = "load" /\ pc' = "install" /\ UNCHANGED <<disk, cache, complete, found, cut, tpc, status, rc, next>>
        /\ \A f \in Jobs : cache[f] # "no" => f \in copied
    BY <1>9 DEF CacheLoaded, Release, Uncopied
  <2>2. Cached
    BY <2>1 DEF FilesInv, IInv, CopyInv, Copying
  <2>3. ASSUME NEW f \in Sources \ Overflow
        PROVE  /\ next \in Sources /\ disk[f] = (IF cache[f] = "no" THEN found[f] ELSE cache[f])
               /\ complete => disk[f] # "no"
    <3>1. next \in Sources
      BY <2>1, LoadFiles, FetchAssumption DEF Sources
    <3>2. /\ disk[f] = (IF f \in copied THEN cache[f] ELSE found[f])
          /\ cache[f] # "no" <=> f \in copied
      BY <2>1, LoadFiles DEF FilesInv, HalfInv
    <3>3. complete => cache[f] # "no"
      BY <2>2 DEF FilesInv, CacheInv
    <3> QED BY <3>1, <3>2, <3>3
  <2>4. Done'
    BY <2>1, <2>3 DEF Done, Downloaded, Had, Overflow
  <2>5. FileInv'
    BY <2>1, <2>4, LoadFiles DEF FileInv, Loops, JoinLoops, Joined, Returned, Unjoined, Running
  <2> QED BY <2>1, <2>5 DEF FilesInv, HalfInv, CacheInv, Cached, Before
<1>10. CASE CacheLoadFails
  <2>1. /\ pc = "load" /\ pc' = "launch" /\ UNCHANGED <<cache, complete, found, tpc, status, rc>>
    BY <1>10 DEF CacheLoadFails, Release
  <2>2. ASSUME NEW f \in Sources PROVE AsFound(f)'
    <3>1. f \in copied => cache[f] \in {"part", "whole"}
      BY <2>1, TypedCache, LoadFiles DEF FilesInv, HalfInv, IInv, CopyInv, Copying, FileStates
    <3>2. disk[f] = (IF f \in copied THEN cache[f] ELSE found[f])
      BY <2>1 DEF FilesInv, HalfInv
    <3>3. CASE disk' = disk /\ cut' = {h \in copied : disk[h] = "part"}
      <4>1. f \in copied /\ disk[f] = "part" => f \in cut'
        BY <3>3
      <4> QED BY <2>1, <3>1, <3>2, <3>3, <4>1 DEF AsFound
    <3>4. ASSUME NEW g \in Jobs, disk' = [disk EXCEPT ![g] = "part"],
                 cut' = {h \in copied \cup {g} : disk'[h] = "part"}
          PROVE  AsFound(f)'
      <4>1. f \in Jobs
        BY Basics
      <4>2. CASE f = g
        BY <1>0, <3>4, <4>1, <4>2 DEF AsFound
      <4>3. CASE f # g
        <5>1. disk'[f] = disk[f]
          BY <1>0, <3>4, <4>1, <4>3
        <5>2. f \in copied /\ disk[f] = "part" => f \in cut'
          BY <3>4, <5>1
        <5> QED BY <2>1, <3>1, <3>2, <5>1, <5>2 DEF AsFound
      <4> QED BY <4>2, <4>3
    <3> QED BY <1>10, <3>3, <3>4 DEF CacheLoadFails, Cuts
  <2>3. FileInv'
    BY <2>1, <2>2, LoadFiles DEF FileInv, Joined, Returned, Succeeded, Unjoined, Running
  <2> QED BY <2>1, <2>3 DEF FilesInv, HalfInv, CacheInv, Cached, Before
<1>11. CASE CacheSave
  <2>1. /\ pc = "save" /\ pc' = "save_cache" /\ complete' = FALSE
        /\ UNCHANGED <<disk, found, copied, cut, tpc, status, rc>>
    BY <1>11 DEF CacheSave
  <2>2. copied = {}
    BY <2>1 DEF FilesInv, IInv, CopyInv, Copying
  <2>3. FileInv'
    BY <2>1 DEF FilesInv, FileInv, AsFound, Had, Loops, JoinLoops, Joined, Returned, Succeeded
  <2> QED BY <2>1, <2>2, <2>3 DEF HalfInv, CacheInv, Before
<1>12. ASSUME NEW g \in Jobs, SaveFile(g) PROVE FileInv' /\ HalfInv' /\ CacheInv'
  <2>1. /\ pc = "save_cache" /\ pc' = "save_cache"
        /\ UNCHANGED <<disk, complete, found, cut, tpc, status, rc>>
        /\ cache' = [cache EXCEPT ![g] = disk[g]] /\ copied' = copied \cup {g}
    BY <1>12 DEF SaveFile, Copies
  <2>2. cache \in [Jobs -> FileStates] /\ ~complete
    BY <2>1, TypedCache DEF FilesInv, HalfInv, IInv, CopyInv, Copying
  <2>3. FileInv'
    BY <2>1 DEF FilesInv, FileInv, AsFound, Had, Loops, JoinLoops, Joined, Returned, Succeeded
  <2>4. HalfInv'
    BY <2>1, <2>2 DEF FilesInv, HalfInv, Before, Overflow
  <2> QED BY <2>1, <2>2, <2>3, <2>4 DEF CacheInv
<1>13. CASE CacheSaved \/ CacheSaveFails
  <2>1. /\ pc = "save_cache" /\ pc' = "install"
        /\ UNCHANGED <<disk, found, cut, tpc, status, rc, next>>
    BY <1>13 DEF CacheSaved, CacheSaveFails, Release
  <2>2. Done'
    BY <2>1, SaveFiles DEF Done, Downloaded, Had, Late, Overflow
  <2>3. FileInv'
    BY <2>1, <2>2 DEF FilesInv, FileInv, AsFound, Had, Loops, JoinLoops, Joined, Returned
  <2>4. CASE CacheSaved
    <3>1. cache' = cache /\ \A f \in Jobs : disk[f] # "no" => f \in copied
      BY <2>4 DEF CacheSaved, Uncopied
    <3>2. \A f \in Sources \ Overflow : disk[f] # "no" /\ (ForceFetch => disk[f] = "whole") /\ f \in Jobs
      BY <2>1, SaveFiles DEF Had, Late
    <3>3. \A f \in Sources \ Overflow : cache'[f] = disk[f]
      BY <2>1, <3>1, <3>2 DEF FilesInv, HalfInv
    <3>4. CacheInv'
      BY <3>2, <3>3 DEF CacheInv, Overflow
    <3> QED BY <2>1, <2>3, <3>4 DEF HalfInv, Before
  <2>5. CASE CacheSaveFails
    <3>1. complete' = FALSE
      BY <2>1, <2>5 DEF CacheSaveFails, FilesInv, HalfInv, IInv, TypeOK
    <3> QED BY <2>1, <2>3, <3>1 DEF HalfInv, CacheInv, Before
  <2> QED BY <1>13, <2>4, <2>5
<1>14. CASE StartSource
  <2>1. /\ pc = "create" /\ pc' \in {"launch", "drain"} /\ tpc' = [tpc EXCEPT ![next] = "start"]
        /\ UNCHANGED <<disk, cache, complete, copied, cut, found, status>>
    BY <1>14 DEF StartSource, CreateThread
  <2>2. next \in Sources /\ next \in Jobs /\ tpc[next] = "none"
    BY <2>1, Basics DEF FilesInv, IInv, TypeOK, SlotInv, LoopInv, Loops
  <2>3. AsFound(next) /\ status[next] = 0
    BY <2>1, <2>2 DEF FilesInv, FileInv, Loops
  <2>4. tpc'[next] = "start" /\ \A f \in Jobs : f # next => tpc'[f] = tpc[f]
    BY <1>0, <2>1, <2>2
  <2>5. \A f \in Sources : AsFound(f)' = AsFound(f) /\ Had(f)' = Had(f) /\ f \in Jobs
    BY <2>1, Basics DEF AsFound, Had
  <2>6. FileInv'
    BY <2>1, <2>2, <2>3, <2>4, <2>5
       DEF FilesInv, FileInv, Loops, JoinLoops, Joined, Returned, Succeeded
  <2>7. HalfInv' /\ CacheInv'
    BY <2>1 DEF FilesInv, HalfInv, CacheInv, Cached, Before
  <2> QED BY <2>6, <2>7
<1>15. CASE JoinOk \/ JoinFailed
  <2> DEFINE f == fetchs[i - 1]
  <2>1. /\ pc \in JoinLoops /\ f \in Jobs /\ tpc[f] = "exited" /\ tpc' = [tpc EXCEPT ![f] = "joined"]
        /\ UNCHANGED <<disk, cache, complete, copied, cut, found, status>>
        /\ \/ pc' = pc /\ rc' = rc /\ status[f] = 0
           \/ pc' = "returned" /\ rc' = -1
    BY <1>15 DEF JoinOk, JoinFailed, JoinedThread, Learned
  <2> HIDE DEF f
  <2>2. tpc'[f] = "joined" /\ \A g \in Jobs : g # f => tpc'[g] = tpc[g]
    BY <1>0, <2>1
  <2>3. \A g \in Sources : AsFound(g)' = AsFound(g) /\ Had(g)' = Had(g) /\ g \in Jobs
    BY <2>1, Basics DEF AsFound, Had
  <2>4. FileInv'
    BY <2>1, <2>2, <2>3 DEF FilesInv, FileInv, Loops, Joined, Returned, Succeeded, JoinLoops
  <2>5. HalfInv' /\ CacheInv'
    BY <2>1 DEF FilesInv, HalfInv, CacheInv, Cached, Before, JoinLoops
  <2> QED BY <2>4, <2>5
<1>16. ASSUME NEW f \in Jobs, Thread(f) PROVE FileInv' /\ HalfInv' /\ CacheInv'
  BY <1>16, ThreadFiles
<1>17. CASE UNCHANGED vars
  <2>1. \A f : AsFound(f)' = AsFound(f) /\ Had(f)' = Had(f)
    BY <1>17 DEF vars, AsFound, Had
  <2> QED BY <1>17, <2>1 DEF vars, FilesInv, FileInv, HalfInv, CacheInv, Cached, Done, Downloaded,
                             Joined, Succeeded, Overflow
<1> QED BY <1>1, <1>2, <1>3, <1>4, <1>5, <1>6, <1>7, <1>8, <1>9, <1>10, <1>11, <1>12, <1>13,
           <1>14, <1>15, <1>16, <1>17 DEF Next, Install, NoMoreRuns

LEMMA FilesInductive == Spec => []FilesInv
<1> QED BY InitFiles, StepFiles, PTL DEF Spec

\* When clib_package_install() returns 0, sources of slot opts.concurrency apart, every
\* source is whole that was not found or left partial, an error of a thread reaching the
\* caller through the joins of lines 1489-1535; or every source is as the cache has it,
\* which lacks none if its copy was finished.  Copies stop or fail at any file.
THEOREM SuccessIsFetched == Spec => []SuccessMeansFetched
<1>1. FilesInv => SuccessMeansFetched
  BY DEF FilesInv, FileInv, Done, Had, SuccessMeansFetched
<1> QED BY <1>1, FilesInductive, PTL

\* A finished copy in the package cache lacks no source, slot opts.concurrency apart,
\* wherever the processes before were stopped and whichever copies failed.
THEOREM CacheStaysComplete == Spec => []CacheIsComplete
<1>1. FilesInv => CacheIsComplete
  BY DEF FilesInv, CacheInv, CacheIsComplete
<1> QED BY <1>1, FilesInductive, PTL

\* Without opts.force no step takes a whole file away, but the copy from the cache
\* while it comes to that file.
THEOREM WholeFilesStay == Spec => WholeStaysWhole
<1>1. FilesInv /\ [Next]_vars =>
        [\A f \in Jobs : disk[f] = "whole" /\ disk'[f] # "whole" /\ ~ForceFetch /\ pc # "off" =>
           pc = "load" /\ f \notin copied /\ disk'[f] = "part"]_vars
  <2> SUFFICES ASSUME FilesInv, Next, NEW f \in Jobs, disk[f] = "whole", disk'[f] # "whole",
                      ~ForceFetch, pc # "off"
               PROVE  pc = "load" /\ f \notin copied /\ disk'[f] = "part"
    OBVIOUS
  <2>0. DOMAIN disk = Jobs /\ tpc[f] # "fetch"
    BY DEF FilesInv, FileInv, IInv, TypeOK
  <2>1. ASSUME NEW g \in Jobs, pc = "load", Copies(g, cache, disk) \/ Cuts(g, cache, disk)
        PROVE  f \notin copied /\ disk'[f] = "part"
    <3>1. cache \in [Jobs -> FileStates] /\ g \notin copied /\ cache[g] \in {"part", "whole"}
      BY <2>1, TypedCache DEF FilesInv, IInv, CopyInv, Copying, Copies, Cuts, Listed, Uncopied, FileStates
    <3>2. g = f /\ disk'[f] \in {cache[g], "part"}
      BY <2>0, <2>1 DEF Copies, Cuts
    <3> QED BY <3>1, <3>2
  <2>2. CASE Stop \/ (\E g \in Jobs : LoadFile(g)) \/ CacheLoadFails
    BY <2>1, <2>2 DEF Stop, LoadFile, CacheLoadFails, Goto, Release
  <2>3. ASSUME NEW g \in Jobs, Thread(g) PROVE FALSE
    <3>1. CASE g = f
      BY <2>0, <2>3, <3>1 DEF Thread, ThreadGivesUp, ThreadCheck, ThreadFetch, ThreadSkip, ThreadSaved,
           ThreadFails, ThreadReport, ThreadReported, ThreadLoadRefs, ThreadExit, Step
    <3>2. CASE g # f
      BY <2>0, <2>3, <3>2, ThreadStep
    <3> QED BY <3>1, <3>2
  <2>4. CASE Start \/ NoMoreRuns
    BY <2>4 DEF Start, NoMoreRuns, vars, persistent
  <2>5. ASSUME Install, ~\E g \in Jobs : LoadFile(g), ~CacheLoadFails PROVE FALSE
    <3>1. disk' = disk
      BY <2>5 DEF Install, Prepare, PrepareFails, LoadRefs, AllocFails, CreateFails,
           StartMakefile, JoinMakefile, CacheLock, CacheMiss, CacheDelete, CacheHit, CacheLoaded,
           StartSource, LaunchedAll, JoinOk, JoinFailed, JoinedThread, JoinsDone, CacheSave, SaveFile,
           CacheSaved, CacheSaveFails, InstallRest, FreePackage, Acquire, Release, Fail, CreateThread,
           persistent
    <3> QED BY <3>1
  <2> QED BY <2>2, <2>3, <2>4, <2>5 DEF Next
<1>2. Spec => [][Next]_vars
  BY PTL DEF Spec
<1> QED BY <1>1, <1>2, FilesInductive, PTL DEF WholeStaysWhole

=============================================================================
