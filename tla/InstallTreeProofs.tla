-------------------------- MODULE InstallTreeProofs --------------------------
(***************************************************************************)
(* Proofs about InstallTree, for any repositories, packages, versions and  *)
(* dependencies, cyclic ones included.                                     *)
(***************************************************************************)
EXTENDS InstallTree, TLAPS, SequenceTheorems, FiniteSetTheorems

-----------------------------------------------------------------------------
(* Sequences *)

LEMMA IndexOfLast ==
  \A n \in Nat \ {0} : n \in 1 .. n /\ \A k \in 1 .. n - 1 : k \in 1 .. n /\ k # n
OBVIOUS

LEMMA Pushed ==
  ASSUME NEW S, NEW s \in Seq(S), NEW e \in S
  PROVE  /\ Append(s, e) \in Seq(S) /\ Len(Append(s, e)) = Len(s) + 1 /\ Len(s) \in Nat
         /\ DOMAIN Append(s, e) = 1 .. Len(s) + 1 /\ DOMAIN s = 1 .. Len(s)
         /\ \A k \in 1 .. Len(s) : Append(s, e)[k] = s[k]
         /\ Append(s, e)[Len(s) + 1] = e
BY AppendProperties, LenProperties

LEMMA Popped ==
  ASSUME NEW S, NEW s \in Seq(S), s # << >>
  PROVE  LET p == SubSeq(s, 1, Len(s) - 1) IN
         /\ p \in Seq(S) /\ Len(p) = Len(s) - 1 /\ Len(s) \in Nat \ {0}
         /\ DOMAIN p = 1 .. Len(s) - 1 /\ DOMAIN s = 1 .. Len(s)
         /\ \A k \in 1 .. Len(s) - 1 : p[k] = s[k]
<1>1. Len(s) \in Nat \ {0} /\ DOMAIN s = 1 .. Len(s)
  BY EmptySeq, LenProperties
<1>2. \A k \in 1 .. Len(s) - 1 : s[k] \in S
  BY <1>1, ElementOfSeq
<1> QED BY <1>1, <1>2

LEMMA Replaced ==
  ASSUME NEW S, NEW s \in Seq(S), s # << >>, NEW e \in S
  PROVE  LET p == [s EXCEPT ![Len(s)] = e] IN
         /\ p \in Seq(S) /\ Len(p) = Len(s) /\ Len(s) \in Nat \ {0}
         /\ DOMAIN p = 1 .. Len(s) /\ DOMAIN s = 1 .. Len(s)
         /\ \A k \in 1 .. Len(s) - 1 : p[k] = s[k]
         /\ p[Len(s)] = e
<1>1. Len(s) \in Nat \ {0} /\ DOMAIN s = 1 .. Len(s)
  BY EmptySeq, LenProperties
<1>2. Len(s) \in 1 .. Len(s) /\ \A k \in 1 .. Len(s) - 1 : k \in 1 .. Len(s) /\ k # Len(s)
  BY <1>1, IndexOfLast, Zenon
<1> DEFINE p == [s EXCEPT ![Len(s)] = e]
<1>3. /\ p \in Seq(S) /\ Len(p) = Len(s)
      /\ \A j \in 1 .. Len(s) : p[j] = IF j = Len(s) THEN e ELSE s[j]
  BY <1>2, ExceptSeq
<1> HIDE DEF p
<1>4. DOMAIN p = 1 .. Len(s)
  BY <1>3, LenProperties
<1>5. p[Len(s)] = e /\ \A k \in 1 .. Len(s) - 1 : p[k] = s[k]
  BY <1>2, <1>3
<1> QED BY <1>1, <1>3, <1>4, <1>5 DEF p

-----------------------------------------------------------------------------
(* The load of a manifest *)

LoadTyped ==
  /\ skip_cache \in BOOLEAN /\ mutex \in BOOLEAN
  /\ DOMAIN jsons \subseteq Keys /\ \A k \in DOMAIN jsons : jsons[k] \in Manifests
  /\ lpc \in {"idle", "begin", "lock", "cache", "download", "get", "build", "error",
              "loaded", "null", "crashed"}
  /\ slug \in Slugs /\ file \in 1 .. 2 /\ retries \in -1 .. 3
  /\ res \in {"none", "live", "freed", "freed_twice"} /\ manifest \in Manifests

\* The response is freed at the end of an attempt only; three are made at most.
LoadInv ==
  /\ lpc \in {"lock", "cache", "download", "get", "build", "error"} => res \in {"none", "live"}
  /\ res # "freed_twice"
  /\ lpc \in {"lock", "cache", "download", "get"} => retries >= 0

LEMMA TwoNames == DOMAIN ManifestNames = 1 .. 2 /\ Len(ManifestNames) = 2
BY DEF ManifestNames

LEMMA LoadingStep ==
  ASSUME server \in [Slugs -> Manifests], LoadTyped, LoadInv, Loading, UNCHANGED fixed
  PROVE  /\ LoadTyped' /\ LoadInv'
         /\ lpc \notin {"idle", "loaded", "null", "crashed"} /\ lpc' # "idle"
<1> USE DEF LoadTyped, LoadInv, Goto, fixed
<1>1. CASE Begin \/ BeginFails
  <2>1. /\ lpc = "begin" /\ lpc' \in {"lock", "error"} /\ retries' = 3 /\ res' = "none"
        /\ UNCHANGED <<jsons, mutex, slug, file, manifest>>
    BY <1>1 DEF Begin, BeginFails, Retries
  <2>2. LoadTyped'
    BY <2>1
  <2> QED BY <2>1, <2>2
<1>2. CASE LockCache \/ CacheMiss
  BY <1>2 DEF LockCache, CacheMiss
<1>3. CASE CacheHit
  BY <1>3 DEF CacheHit, Cached
<1>4. CASE CacheDelete
  BY <1>4 DEF CacheDelete
<1>5. CASE Download
  <2>1. /\ lpc = "download" /\ lpc' \in {"error", "get"} /\ mutex' = FALSE /\ retries' = retries - 1
        /\ UNCHANGED <<jsons, slug, file, res, manifest>>
    BY <1>5 DEF Download
  <2>2. (lpc' = "get" => retries > 0) /\ retries' \in -1 .. 3
    BY <1>5 DEF Download
  <2>3. LoadTyped'
    BY <2>1, <2>2
  <2> QED BY <2>1, <2>2, <2>3
<1>6. CASE GetOk
  <2>1. manifest' \in Manifests
    BY <1>6 DEF GetOk
  <2>2. lpc = "get" /\ lpc' = "build" /\ res' = "live" /\ UNCHANGED <<jsons, mutex, slug, file, retries>>
    BY <1>6 DEF GetOk
  <2>3. LoadTyped'
    BY <2>1, <2>2
  <2> QED BY <2>2, <2>3
<1>7. CASE GetFails \/ GetNull \/ BuildFails
  BY <1>7 DEF GetFails, GetNull, BuildFails
<1>8. CASE Build
  <2> DEFINE key == SaveKey(slug, manifest)
  <2>1. key \in Keys
    <3>1. manifest.name \in Names /\ manifest.version \in Versions \cup {NoVersion}
      BY DEF Manifests
    <3>2. slug.version \in Versions
      BY TreeAssumption
    <3>3. \E v \in Versions : key = <<manifest.name, v>>
      BY <3>1, <3>2 DEF SaveKey
    <3>4. key \in Names \X Versions
      BY <3>1, <3>3
    <3> QED BY <3>4 DEF Keys
  <2>2. jsons' \in {jsons, [k \in DOMAIN jsons \cup {key} |-> IF k = key THEN manifest ELSE jsons[k]]}
    BY <1>8 DEF Build
  <2>3. DOMAIN jsons' \subseteq Keys /\ \A k \in DOMAIN jsons' : jsons'[k] \in Manifests
    <3> HIDE DEF key
    <3> QED BY <2>1, <2>2
  <2>4. lpc = "build" /\ lpc' = "loaded" /\ res' \in {"none", "freed"}
    BY <1>8 DEF Build, FreeRes
  <2> QED BY <1>8, <2>3, <2>4 DEF Build
<1>9. CASE Error
  <2>1. lpc = "error" /\ res' \in {"none", "freed"} /\ UNCHANGED <<jsons, mutex, slug, retries, manifest>>
    BY <1>9 DEF Error, FreeRes
  <2>2. lpc' \in {"begin", "null"} /\ file' \in 1 .. 2
    BY <1>9, TwoNames DEF Error
  <2>3. LoadTyped'
    BY <2>1, <2>2
  <2> QED BY <2>1, <2>2, <2>3
<1> QED BY <1>1, <1>2, <1>3, <1>4, <1>5, <1>6, <1>7, <1>8, <1>9 DEF Loading

-----------------------------------------------------------------------------
(* The invariant *)

Ends == {"none", "skipped", "begun", "ok", "error", "failed"}
Objects == [of: Manifests, mem: {"live", "freed", "freed_twice"}, dir: Names \cup {Asked}, end: Ends]

\* The list that a call is to install, and the directory that it installs it in.
ListIn(ps, f) == IF f.pc = "development" THEN ps[f.pkg].of.dev ELSE ps[f.pkg].of.deps
DirIn(ps, f) == IF f.pc = "unpacked" THEN ps[f.pkg].of.name ELSE f.dir

\* A frame, whatever its packages are.
Loops == {"unpacked", "deps", "development"}
Pcs == {"visit", "prepare", "sources", "executable", "command"} \cup Loops
Calls == [pkg: Nat, dir: Names \cup {Asked}, pc: Pcs, next: Nat \ {0}, freelist: Seq(Nat)]

Typed ==
  /\ server \in [Slugs -> Manifests] /\ force \in BOOLEAN /\ developed \in BOOLEAN
  /\ LoadTyped
  /\ mpc \in {"start", "load", "install", "develop", "done", "failed"} /\ code \in Results
  /\ pkgs \in Seq(Objects) /\ stack \in Seq(Calls)
  /\ ret # << >> => ret \in Nat \X Results
  /\ visited \subseteq Names

\* Where the program, the innermost call and the load are fits together: every call
\* but the innermost is in install_packages(), and only there are packages kept.
ControlInv ==
  /\ mpc \in {"start", "load", "failed"} =>
       stack = << >> /\ ret = << >> /\ pkgs = << >> /\ visited = {}
  /\ mpc \in {"start", "done", "failed"} => lpc = "idle"
  /\ mpc = "load" => lpc # "idle"
  /\ mpc = "done" => stack = << >> /\ ret = << >>
  /\ mpc \in {"install", "develop"} => stack # << >> \/ ret # << >>
  /\ mpc # "load" /\ lpc # "idle" => stack # << >> /\ ret = << >> /\ Top.pc \in Loops
  /\ ret # << >> /\ stack # << >> => Top.pc \in Loops
  /\ \A k \in 1 .. Len(stack) - 1 : stack[k].pc \in Loops
  /\ \A k \in 1 .. Len(stack) : stack[k].pc \notin Loops => stack[k].freelist = << >>

\* Calls keep packages in the order in which these were built: a call's package is
\* older than those of its freelist, and these are older than what an inner call
\* has or what has just come back.
OrderInv ==
  /\ \A k \in 1 .. Len(stack) :
       /\ stack[k].pkg \in 1 .. Len(pkgs)
       /\ \A j \in DOMAIN stack[k].freelist :
            stack[k].freelist[j] \in 1 .. Len(pkgs) /\ stack[k].pkg < stack[k].freelist[j]
  /\ \A k, l \in 1 .. Len(stack) : k < l =>
       /\ stack[k].pkg < stack[l].pkg
       /\ \A j \in DOMAIN stack[k].freelist : stack[k].freelist[j] < stack[l].pkg
  /\ ret # << >> =>
       /\ ret[1] \in 1 .. Len(pkgs)
       /\ \A k \in 1 .. Len(stack) :
            /\ stack[k].pkg < ret[1]
            /\ \A j \in DOMAIN stack[k].freelist : stack[k].freelist[j] < ret[1]

\* A package is live exactly while somebody has it, but what a failure passes by
\* is never freed.
Has(k, o) == stack[k].pkg = o \/ \E j \in DOMAIN stack[k].freelist : stack[k].freelist[j] = o
Owned(o) == (\E k \in 1 .. Len(stack) : Has(k, o)) \/ (ret # << >> /\ ret[1] = o)
Failing == (ret # << >> /\ ret[2] = -1) \/ (mpc = "done" /\ code = -1)
MemoryInv == \A o \in 1 .. Len(pkgs) :
  /\ pkgs[o].mem # "freed_twice"
  /\ Owned(o) => pkgs[o].mem = "live"
  /\ pkgs[o].mem = "live" => Owned(o) \/ Failing

\* An installation that has begun has marked its package as visited, or failed to;
\* the root is not skipped, nor is what is being installed begun again.
VisitInv ==
  /\ \A o \in 1 .. Len(pkgs) : Begun(o) => Package(o).name \in visited \/ Failing
  /\ \A k \in 1 .. Len(stack) :
       IF stack[k].pc \in {"visit", "prepare"} THEN pkgs[stack[k].pkg].end = "none"
                                               ELSE Begun(stack[k].pkg)
  /\ \A k \in 1 .. Len(stack) :
       stack[k].pc = "prepare" /\ ~force => Package(stack[k].pkg).name \notin visited
  /\ stack # << >> /\ stack[1].pc = "visit" => visited = {}
  /\ stack = << >> /\ ret # << >> => Begun(ret[1])
OnceInv == ~force => \A o, q \in 1 .. Len(pkgs) :
  Begun(o) /\ Begun(q) /\ Package(o).name = Package(q).name => o = q

-----------------------------------------------------------------------------
(* What the steps do to the calls and to the packages *)

\* The calls below the innermost one are as they were.
Below == \A k \in 1 .. Len(stack) - 1 : stack'[k] = stack[k]

Goes(to) ==
  /\ stack # << >> /\ Len(stack) \in Nat \ {0} /\ Len(stack') = Len(stack) /\ Below
  /\ stack'[Len(stack)].pkg = Top.pkg /\ stack'[Len(stack)].pc = to
  /\ stack'[Len(stack)].dir = Top.dir /\ stack'[Len(stack)].next = 1
  /\ stack'[Len(stack)].freelist = << >>

Pops(v) ==
  /\ stack # << >> /\ Len(stack) \in Nat \ {0} /\ Len(stack') = Len(stack) - 1 /\ Below
  /\ ret' # << >> /\ ret'[1] = Top.pkg /\ ret'[2] = v

Pushes(o, dir, pc) ==
  /\ Len(stack) \in Nat /\ Len(stack') = Len(stack) + 1
  /\ \A k \in 1 .. Len(stack) : stack'[k] = stack[k]
  /\ stack'[Len(stack) + 1].pkg = o /\ stack'[Len(stack) + 1].pc = pc
  /\ stack'[Len(stack) + 1].dir = dir /\ stack'[Len(stack) + 1].next = 1
  /\ stack'[Len(stack) + 1].freelist = << >>

\* The packages are the same, apart from mem and end.
SamePkgs ==
  /\ Len(pkgs') = Len(pkgs)
  /\ \A q \in 1 .. Len(pkgs) : pkgs'[q].of = pkgs[q].of /\ pkgs'[q].dir = pkgs[q].dir

Marks(o, end) ==
  /\ SamePkgs
  /\ \A q \in 1 .. Len(pkgs) : /\ pkgs'[q].mem = pkgs[q].mem
                               /\ pkgs'[q].end = IF q = o THEN end ELSE pkgs[q].end

Occurs(o, objs) == \E j \in DOMAIN objs : objs[j] = o

LEMMA FrameType ==
  ASSUME Typed, NEW k \in 1 .. Len(stack)
  PROVE  /\ stack[k] \in Calls /\ stack[k].pkg \in Nat /\ stack[k].freelist \in Seq(Nat)
         /\ stack[k].pc \in Pcs /\ stack[k].dir \in Names \cup {Asked}
         /\ stack[k].next \in Nat \ {0}
<1>1. stack[k] \in Calls
  BY ElementOfSeq DEF Typed
<1> QED BY <1>1 DEF Calls

LEMMA TopType ==
  ASSUME Typed, stack # << >>
  PROVE  /\ Len(stack) \in Nat \ {0} /\ Len(stack) \in 1 .. Len(stack)
         /\ Top.pkg \in Nat /\ Top.freelist \in Seq(Nat)
         /\ Top.pc \in Pcs /\ Top.dir \in Names \cup {Asked} /\ Top.next \in Nat \ {0}
<1>1. Len(stack) \in Nat \ {0}
  BY EmptySeq DEF Typed
<1>2. Len(stack) \in 1 .. Len(stack)
  BY <1>1, Zenon, IndexOfLast
<1> QED BY <1>1, <1>2, FrameType DEF Top

LEMMA PkgType ==
  ASSUME Typed, NEW o \in 1 .. Len(pkgs)
  PROVE  /\ pkgs[o] \in Objects /\ Package(o) \in Manifests /\ Package(o).name \in Names
         /\ Package(o).deps \in Seq(Slugs) /\ Package(o).dev \in Seq(Slugs)
         /\ pkgs[o].end \in Ends
<1>1. pkgs[o] \in Objects
  BY ElementOfSeq DEF Typed
<1>2. Package(o) \in Manifests
  BY <1>1 DEF Objects, Package
<1> QED BY <1>1, <1>2 DEF Objects, Manifests

LEMMA GoShape ==
  ASSUME Typed, stack # << >>, NEW to \in Pcs, Go(to)
  PROVE  stack' \in Seq(Calls) /\ Goes(to)
<1> DEFINE f == [Top EXCEPT !.pc = to, !.next = 1, !.freelist = << >>]
<1>1. Top \in Calls /\ Len(stack) \in Nat \ {0}
  BY TopType, FrameType DEF Top
<1>2. /\ f \in Calls /\ f.pkg = Top.pkg /\ f.pc = to /\ f.dir = Top.dir /\ f.next = 1
      /\ f.freelist = << >>
  <2>1. << >> \in Seq(Nat)
    BY EmptySeq
  <2> DEFINE t == Top
             f1 == [t EXCEPT !.pc = to]
             f2 == [f1 EXCEPT !.next = 1]
             f3 == [f2 EXCEPT !.freelist = << >>]
  <2>2. f = f3
    OBVIOUS
  <2> HIDE DEF f, t
  <2>3. t \in Calls
    BY <1>1 DEF t
  <2>4. f1 \in Calls /\ f1.pkg = t.pkg /\ f1.pc = to /\ f1.dir = t.dir
    BY <2>3 DEF Calls
  <2> HIDE DEF f1
  <2>5. f2 \in Calls /\ f2.pkg = t.pkg /\ f2.pc = to /\ f2.dir = t.dir /\ f2.next = 1
    BY <2>4 DEF Calls
  <2> HIDE DEF f2
  <2>6. /\ f3 \in Calls /\ f3.pkg = t.pkg /\ f3.pc = to /\ f3.dir = t.dir /\ f3.next = 1
        /\ f3.freelist = << >>
    BY <2>1, <2>5 DEF Calls
  <2> QED BY <2>2, <2>6 DEF t
<1>3. stack' = [stack EXCEPT ![Len(stack)] = f] /\ stack \in Seq(Calls)
  BY DEF Go, Become, Typed
<1> HIDE DEF f
<1>4. /\ stack' \in Seq(Calls) /\ Len(stack') = Len(stack) /\ Below
      /\ stack'[Len(stack)] = f
  BY <1>2, <1>3, Replaced DEF Below
<1> QED BY <1>1, <1>2, <1>4 DEF Goes

LEMMA PopShape ==
  ASSUME Typed, stack # << >>, NEW v \in Results, Pop(Top.pkg, v)
  PROVE  /\ stack' \in Seq(Calls) /\ ret' \in Nat \X Results /\ Pops(v)
         /\ stack' = << >> <=> Len(stack) = 1
<1>1. stack \in Seq(Calls)
  BY DEF Typed
<1>2. stack' = SubSeq(stack, 1, Len(stack) - 1) /\ ret' = <<Top.pkg, v>>
  BY DEF Pop
<1>3. /\ stack' \in Seq(Calls) /\ Len(stack') = Len(stack) - 1 /\ Len(stack) \in Nat \ {0}
      /\ Below
  BY <1>1, <1>2, Popped DEF Below
<1>4. ret' \in Nat \X Results /\ ret' # << >> /\ ret'[1] = Top.pkg /\ ret'[2] = v
  BY <1>2, TopType
<1>5. stack' = << >> <=> Len(stack') = 0
  BY <1>3, EmptySeq
<1> QED BY <1>3, <1>4, <1>5 DEF Pops

LEMMA PushShape ==
  ASSUME NEW s \in Seq(Calls), NEW o \in Nat, NEW dir \in Names \cup {Asked}, NEW pc \in Pcs,
         stack = s, stack' = Append(s, Frame(o, dir, pc))
  PROVE  stack' \in Seq(Calls) /\ Pushes(o, dir, pc) /\ stack' # << >>
<1>1. /\ Frame(o, dir, pc) \in Calls /\ Frame(o, dir, pc).pkg = o /\ Frame(o, dir, pc).pc = pc
      /\ Frame(o, dir, pc).dir = dir /\ Frame(o, dir, pc).next = 1
      /\ Frame(o, dir, pc).freelist = << >>
  BY EmptySeq DEF Frame, Calls
<1>2. /\ stack' \in Seq(Calls) /\ Len(stack') = Len(stack) + 1 /\ Len(stack) \in Nat
      /\ \A k \in 1 .. Len(stack) : stack'[k] = stack[k]
      /\ stack'[Len(stack) + 1] = Frame(o, dir, pc)
  BY <1>1, Pushed
<1>3. stack' # << >>
  BY <1>2, EmptySeq
<1> QED BY <1>1, <1>2, <1>3 DEF Pushes

LEMMA MarkShape ==
  ASSUME Typed, NEW o \in 1 .. Len(pkgs), NEW end \in Ends, Mark(o, end)
  PROVE  pkgs' \in Seq(Objects) /\ Marks(o, end)
<1> DEFINE p == [pkgs[o] EXCEPT !.end = end]
<1>1. pkgs[o] \in Objects
  BY PkgType
<1>2. /\ p \in Objects /\ p.of = pkgs[o].of /\ p.dir = pkgs[o].dir
      /\ p.mem = pkgs[o].mem /\ p.end = end
  BY <1>1 DEF Objects
<1>3. pkgs' = [pkgs EXCEPT ![o] = p] /\ pkgs \in Seq(Objects)
  BY DEF Mark, Typed
<1> HIDE DEF p
<1>4. /\ pkgs' \in Seq(Objects) /\ Len(pkgs') = Len(pkgs)
      /\ \A q \in 1 .. Len(pkgs) : pkgs'[q] = IF q = o THEN p ELSE pkgs[q]
  BY <1>2, <1>3, ExceptSeq
<1> QED BY <1>2, <1>4 DEF Marks, SamePkgs

LEMMA FreeShape ==
  ASSUME NEW ps \in Seq(Objects), NEW objs
  PROVE  /\ FreeAll(objs, ps) \in Seq(Objects) /\ Len(FreeAll(objs, ps)) = Len(ps)
         /\ \A q \in 1 .. Len(ps) :
              /\ FreeAll(objs, ps)[q].of = ps[q].of /\ FreeAll(objs, ps)[q].dir = ps[q].dir
              /\ FreeAll(objs, ps)[q].end = ps[q].end
              /\ FreeAll(objs, ps)[q].mem = IF Occurs(q, objs) THEN FreeOf(ps[q].mem) ELSE ps[q].mem
<1> DEFINE F == FreeAll(objs, ps)
<1>1. Len(ps) \in Nat /\ DOMAIN ps = 1 .. Len(ps)
  BY LenProperties
<1>2. \A q \in 1 .. Len(ps) : ps[q] \in Objects
  BY ElementOfSeq
<1>3. F = [q \in 1 .. Len(ps) |->
             IF Occurs(q, objs) THEN [ps[q] EXCEPT !.mem = FreeOf(@)] ELSE ps[q]]
  BY <1>1 DEF FreeAll, Occurs
<1>4. \A q \in 1 .. Len(ps) :
        /\ F[q] \in Objects /\ F[q].of = ps[q].of /\ F[q].dir = ps[q].dir /\ F[q].end = ps[q].end
        /\ F[q].mem = IF Occurs(q, objs) THEN FreeOf(ps[q].mem) ELSE ps[q].mem
  <2> HIDE DEF F
  <2> TAKE q \in 1 .. Len(ps)
  <2>1. ps[q] \in Objects
    BY <1>2
  <2>2. FreeOf(ps[q].mem) \in {"freed", "freed_twice"}
    BY DEF FreeOf
  <2>3. CASE Occurs(q, objs)
    <3>1. F[q] = [ps[q] EXCEPT !.mem = FreeOf(@)]
      BY <1>3, <2>3
    <3> QED BY <2>1, <2>2, <2>3, <3>1 DEF Objects
  <2>4. CASE ~Occurs(q, objs)
    <3>1. F[q] = ps[q]
      BY <1>3, <2>4
    <3> QED BY <2>1, <2>4, <3>1
  <2> QED BY <2>3, <2>4
<1>5. DOMAIN F = 1 .. Len(ps)
  BY <1>3
<1> HIDE DEF F
<1>6. F \in [1 .. Len(ps) -> Objects]
  BY <1>3, <1>4
<1>7. F \in Seq(Objects)
  BY <1>1, <1>6, SeqDef
<1>8. Len(F) = Len(ps)
  BY <1>1, <1>5, <1>7, LenProperties
<1> QED BY <1>4, <1>7, <1>8 DEF F

LEMMA BuiltShape ==
  ASSUME Typed, NEW dir \in Names \cup {Asked}, pkgs' = Built(dir)
  PROVE  /\ pkgs' \in Seq(Objects) /\ Len(pkgs') = Len(pkgs) + 1 /\ Len(pkgs) \in Nat
         /\ \A q \in 1 .. Len(pkgs) : pkgs'[q] = pkgs[q]
         /\ pkgs'[Len(pkgs) + 1].mem = "live" /\ pkgs'[Len(pkgs) + 1].end = "none"
         /\ pkgs'[Len(pkgs) + 1].of = manifest /\ pkgs'[Len(pkgs) + 1].dir = dir
<1> DEFINE p == [of |-> manifest, mem |-> "live", dir |-> dir, end |-> "none"]
<1>1. p \in Objects /\ p.mem = "live" /\ p.end = "none" /\ p.of = manifest /\ p.dir = dir
  BY DEF Typed, LoadTyped, Objects, Ends
<1>2. pkgs' = Append(pkgs, p) /\ pkgs \in Seq(Objects)
  BY DEF Built, Typed
<1> HIDE DEF p
<1>3. /\ pkgs' \in Seq(Objects) /\ Len(pkgs') = Len(pkgs) + 1 /\ Len(pkgs) \in Nat
      /\ (\A q \in 1 .. Len(pkgs) : pkgs'[q] = pkgs[q]) /\ pkgs'[Len(pkgs) + 1] = p
  BY <1>1, <1>2, Pushed
<1> QED BY <1>1, <1>3

Frees(objs) ==
  /\ SamePkgs
  /\ \A q \in 1 .. Len(pkgs) : pkgs'[q].mem = IF Occurs(q, objs) THEN FreeOf(pkgs[q].mem)
                                                                 ELSE pkgs[q].mem

Basis == Typed /\ LoadInv /\ ControlInv /\ OrderInv

LEMMA TopPkg ==
  ASSUME Typed, OrderInv, stack # << >>
  PROVE  Top.pkg \in 1 .. Len(pkgs)
BY TopType DEF OrderInv, Top

LEMMA Rested ==
  ASSUME Typed, LoadInv, UNCHANGED <<loadVars, fixed>>
  PROVE  LoadTyped' /\ LoadInv' /\ lpc' = lpc /\ server' = server
BY DEF Typed, LoadTyped, LoadInv, loadVars, fixed

LEMMA TakenTyped ==
  ASSUME Typed, LoadInv, NEW as, Taken(as), UNCHANGED fixed
  PROVE  LoadTyped' /\ LoadInv' /\ lpc = as /\ lpc' = "idle" /\ server' = server
BY DEF Typed, LoadTyped, LoadInv, Taken, Goto, fixed

LEMMA LoadBegun ==
  ASSUME Typed, LoadInv, NEW s \in Slugs, Load(s), UNCHANGED fixed
  PROVE  LoadTyped' /\ LoadInv' /\ lpc = "idle" /\ lpc' = "begin" /\ server' = server
BY DEF Typed, LoadTyped, LoadInv, Load, Goto, fixed

-----------------------------------------------------------------------------
(* Each step keeps the types, and does what its effect says *)

LEMMA LoadingEffect ==
  ASSUME Basis, Loading, UNCHANGED <<fixed, force, treeVars>>
  PROVE  /\ Typed' /\ LoadInv' /\ UNCHANGED <<mpc, code, stack, ret, visited, pkgs, force>>
         /\ lpc # "idle" /\ lpc' # "idle"
<1>1. Typed /\ LoadTyped /\ LoadInv /\ server \in [Slugs -> Manifests]
  BY DEF Basis, Typed
<1>2. LoadTyped' /\ LoadInv' /\ lpc # "idle" /\ lpc' # "idle"
  BY <1>1, LoadingStep
<1>3. UNCHANGED <<mpc, code, stack, ret, visited, pkgs, force, developed, server>>
  BY DEF treeVars, fixed
<1> QED BY <1>1, <1>2, <1>3 DEF Typed

LEMMA StartEffect ==
  ASSUME Basis, Start
  PROVE  /\ Typed' /\ LoadInv' /\ UNCHANGED <<code, stack, ret, visited, pkgs, force>>
         /\ mpc = "start" /\ mpc' = "load" /\ lpc' # "idle"
<1>1. Typed /\ LoadInv
  BY DEF Basis
<1>2. LoadTyped' /\ LoadInv' /\ lpc' = "begin" /\ server' = server
  BY <1>1, LoadBegun, TreeAssumption DEF Start
<1>3. /\ UNCHANGED <<code, stack, ret, visited, pkgs, force, developed>>
      /\ mpc = "start" /\ mpc' = "load"
  BY DEF Start
<1> QED BY <1>1, <1>2, <1>3 DEF Typed

LEMMA RootNullEffect ==
  ASSUME Basis, RootNull
  PROVE  /\ Typed' /\ LoadInv' /\ UNCHANGED <<code, stack, ret, visited, pkgs, force>>
         /\ mpc = "load" /\ mpc' = "failed" /\ lpc' = "idle"
<1>1. Typed /\ LoadInv
  BY DEF Basis
<1>2. LoadTyped' /\ LoadInv' /\ lpc' = "idle" /\ server' = server
  BY <1>1, TakenTyped DEF RootNull
<1>3. /\ UNCHANGED <<code, stack, ret, visited, pkgs, force, developed>>
      /\ mpc = "load" /\ mpc' = "failed"
  BY DEF RootNull
<1> QED BY <1>1, <1>2, <1>3 DEF Typed

\* A package is built and a call begins.
Builds ==
  /\ Len(pkgs) \in Nat /\ Len(pkgs') = Len(pkgs) + 1
  /\ \A q \in 1 .. Len(pkgs) : pkgs'[q] = pkgs[q]
  /\ pkgs'[Len(pkgs) + 1].mem = "live" /\ pkgs'[Len(pkgs) + 1].end = "none"
  /\ pkgs'[Len(pkgs) + 1].of = manifest
  /\ Pushes(Len(pkgs) + 1, pkgs'[Len(pkgs) + 1].dir, "visit") /\ stack' # << >>
  /\ ret = << >> /\ UNCHANGED <<code, ret, visited, force>>
  /\ lpc = "loaded" /\ lpc' = "idle"

LEMMA RootLoadedEffect ==
  ASSUME Basis, RootLoaded
  PROVE  /\ Typed' /\ LoadInv' /\ Builds /\ mpc = "load" /\ mpc' = "install"
         /\ pkgs'[Len(pkgs) + 1].dir = Asked
<1>1. Typed /\ LoadInv /\ ControlInv
  BY DEF Basis
<1>2. LoadTyped' /\ LoadInv' /\ lpc = "loaded" /\ lpc' = "idle" /\ server' = server
  BY <1>1, TakenTyped DEF RootLoaded
<1>3. /\ UNCHANGED <<code, ret, visited, force, developed>>
      /\ mpc = "load" /\ mpc' = "install" /\ stack = << >> /\ ret = << >>
  BY <1>1 DEF RootLoaded, ControlInv
<1>4. /\ pkgs' \in Seq(Objects) /\ Len(pkgs') = Len(pkgs) + 1 /\ Len(pkgs) \in Nat
      /\ \A q \in 1 .. Len(pkgs) : pkgs'[q] = pkgs[q]
      /\ pkgs'[Len(pkgs) + 1].mem = "live" /\ pkgs'[Len(pkgs) + 1].end = "none"
      /\ pkgs'[Len(pkgs) + 1].of = manifest /\ pkgs'[Len(pkgs) + 1].dir = Asked
  BY <1>1, BuiltShape DEF RootLoaded
<1>5. stack' \in Seq(Calls) /\ Pushes(Len(pkgs) + 1, Asked, "visit") /\ stack' # << >>
  <2>1. << >> \in Seq(Calls) /\ Len(pkgs) + 1 \in Nat /\ "visit" \in Pcs
    BY <1>4, EmptySeq DEF Pcs
  <2>2. stack' = <<Frame(Len(pkgs) + 1, Asked, "visit")>>
    BY <1>4 DEF RootLoaded
  <2>3. stack' = Append(<< >>, Frame(Len(pkgs) + 1, Asked, "visit"))
    BY <2>2
  <2> QED BY <1>3, <2>1, <2>3, PushShape
<1> QED BY <1>1, <1>2, <1>3, <1>4, <1>5 DEF Typed, Builds

LEMMA DepLoadedEffect ==
  ASSUME Basis, DepLoaded
  PROVE  /\ Typed' /\ LoadInv' /\ Builds /\ mpc' = mpc /\ stack # << >> /\ Top.pc \in Loops
         /\ pkgs'[Len(pkgs) + 1].dir = DirIn(pkgs, Top)
<1>1. Typed /\ LoadInv /\ ControlInv /\ OrderInv /\ stack # << >>
  BY DEF Basis, DepLoaded
<1>2. LoadTyped' /\ LoadInv' /\ lpc = "loaded" /\ lpc' = "idle" /\ server' = server
  BY <1>1, TakenTyped DEF DepLoaded
<1>3. /\ UNCHANGED <<mpc, code, ret, visited, force, developed>> /\ ret = << >> /\ Top.pc \in Loops
  BY <1>1, <1>2 DEF DepLoaded, ControlInv
<1> DEFINE dir == DirIn(pkgs, Top)
<1>4. dir \in Names \cup {Asked}
  BY <1>1, TopType, TopPkg, PkgType DEF DirIn, Package
<1>5. pkgs' = Built(dir) /\ stack' = Append(stack, Frame(Len(pkgs'), dir, "visit"))
  BY DEF DepLoaded, DirIn, Package
<1> HIDE DEF dir
<1>6. /\ pkgs' \in Seq(Objects) /\ Len(pkgs') = Len(pkgs) + 1 /\ Len(pkgs) \in Nat
      /\ \A q \in 1 .. Len(pkgs) : pkgs'[q] = pkgs[q]
      /\ pkgs'[Len(pkgs) + 1].mem = "live" /\ pkgs'[Len(pkgs) + 1].end = "none"
      /\ pkgs'[Len(pkgs) + 1].of = manifest /\ pkgs'[Len(pkgs) + 1].dir = dir
  BY <1>1, <1>4, <1>5, BuiltShape
<1>7. stack' \in Seq(Calls) /\ Pushes(Len(pkgs) + 1, dir, "visit") /\ stack' # << >>
  <2>1. stack \in Seq(Calls) /\ Len(pkgs) + 1 \in Nat /\ "visit" \in Pcs
    BY <1>1, <1>6 DEF Pcs, Typed
  <2> QED BY <1>4, <1>5, <1>6, <2>1, PushShape
<1> QED BY <1>1, <1>2, <1>3, <1>6, <1>7 DEF Typed, Builds, dir

\* The innermost call goes on to another place, with nothing kept.
Advances(to) ==
  /\ Goes(to) /\ ret = << >> /\ UNCHANGED <<mpc, code, ret, force>>
  /\ lpc = "idle" /\ lpc' = "idle" /\ stack' # << >>

LEMMA GoesOn ==
  ASSUME Basis, NEW pc, At(pc), NEW to \in Pcs, Go(to), UNCHANGED <<loadVars, fixed, force, developed, mpc, code, ret>>
  PROVE  /\ Advances(to) /\ stack' \in Seq(Calls) /\ Top.pc = pc
         /\ LoadTyped' /\ LoadInv' /\ server' = server
<1>1. Typed /\ LoadInv /\ stack # << >> /\ ret = << >> /\ lpc = "idle" /\ Top.pc = pc
  BY DEF Basis, At
<1>2. stack' \in Seq(Calls) /\ Goes(to)
  BY <1>1, GoShape
<1>3. LoadTyped' /\ LoadInv' /\ lpc' = lpc /\ server' = server
  BY <1>1, Rested
<1>4. stack' # << >>
  BY <1>2, EmptySeq DEF Goes
<1> QED BY <1>1, <1>2, <1>3, <1>4 DEF Advances

\* NotVisited, FetchSources, Unpack and Command: nothing else happens.
LEMMA PlainEffect ==
  ASSUME Basis, NEW pc, At(pc), NEW to \in Pcs, Go(to),
         UNCHANGED <<loadVars, fixed, force, developed, mpc, code, ret, visited, pkgs>>
  PROVE  Typed' /\ LoadInv' /\ Advances(to) /\ Top.pc = pc /\ UNCHANGED <<visited, pkgs>>
<1>1. Typed
  BY DEF Basis
<1>2. Advances(to) /\ stack' \in Seq(Calls) /\ Top.pc = pc /\ LoadTyped' /\ LoadInv' /\ server' = server
  BY GoesOn
<1> QED BY <1>1, <1>2 DEF Typed, Advances

LEMMA PrepareEffect ==
  ASSUME Basis, Prepare
  PROVE  /\ Typed' /\ LoadInv' /\ Advances("sources") /\ Top.pc = "prepare"
         /\ visited' = visited \cup {Package(Top.pkg).name} /\ Marks(Top.pkg, "begun")
<1>1. Typed /\ OrderInv /\ stack # << >>
  BY DEF Basis, Prepare, At
<1>2. /\ Advances("sources") /\ stack' \in Seq(Calls) /\ Top.pc = "prepare"
      /\ LoadTyped' /\ LoadInv' /\ server' = server
  <2>1. "sources" \in Pcs
    BY DEF Pcs
  <2> QED BY <2>1, GoesOn DEF Prepare
<1>3. pkgs' \in Seq(Objects) /\ Marks(Top.pkg, "begun")
  BY <1>1, TopPkg, MarkShape DEF Prepare, Ends
<1>4. visited' = visited \cup {Package(Top.pkg).name} /\ visited' \subseteq Names
  BY <1>1, TopPkg, PkgType DEF Prepare, Typed
<1>5. developed' = developed /\ force' = force
  BY DEF Prepare
<1> QED BY <1>1, <1>2, <1>3, <1>4, <1>5 DEF Typed, Advances

\* The innermost call returns.
Returns(v) ==
  /\ Pops(v) /\ UNCHANGED <<mpc, code, visited, force>>
  /\ lpc' = "idle" /\ (stack' = << >> <=> Len(stack) = 1)

LEMMA ReturnsTyped ==
  ASSUME Basis, stack # << >>, NEW v \in Results, Pop(Top.pkg, v), pkgs' \in Seq(Objects),
         LoadTyped', server' = server, lpc' = "idle",
         UNCHANGED <<force, developed, mpc, code, visited>>
  PROVE  Typed' /\ Returns(v)
<1>1. Typed
  BY DEF Basis
<1>2. stack' \in Seq(Calls) /\ ret' \in Nat \X Results /\ Pops(v) /\ (stack' = << >> <=> Len(stack) = 1)
  BY <1>1, PopShape
<1> QED BY <1>1, <1>2 DEF Typed, Returns

LEMMA EndedIsAnEnd ==
  \A v \in Results : /\ Ended(v) \in {"ok", "error", "failed"} /\ Ended(v) \in Ends
                     /\ Ended(v) = "ok" => v = 0
BY DEF Ended, Ends

LEMMA VisitedEffect ==
  ASSUME Basis, Visited
  PROVE  /\ Typed' /\ LoadInv' /\ Returns(0) /\ Marks(Top.pkg, "skipped") /\ Top.pc = "visit"
         /\ ret = << >> /\ ~force /\ Package(Top.pkg).name \in visited
<1>1. /\ Typed /\ LoadInv /\ OrderInv /\ stack # << >> /\ lpc = "idle" /\ Top.pc = "visit"
      /\ ret = << >> /\ ~force /\ Package(Top.pkg).name \in visited
  BY DEF Basis, Visited, At
<1>2. LoadTyped' /\ LoadInv' /\ lpc' = "idle" /\ server' = server
  BY <1>1, Rested DEF Visited
<1>3. pkgs' \in Seq(Objects) /\ Marks(Top.pkg, "skipped")
  BY <1>1, TopPkg, MarkShape DEF Visited, Ends
<1>4. Typed' /\ Returns(0)
  <2>1. 0 \in Results
    BY DEF Results
  <2> QED BY <1>1, <1>2, <1>3, <2>1, ReturnsTyped DEF Visited
<1> QED BY <1>1, <1>2, <1>3, <1>4

LEMMA StepFailsEffect ==
  ASSUME Basis, StepFails
  PROVE  /\ Typed' /\ LoadInv' /\ ret = << >>
         /\ \E v \in Results \ {0} :
              /\ Returns(v) /\ Marks(Top.pkg, Ended(v))
              /\ \/ Top.pc \in {"sources", "executable", "command"}
                 \/ Top.pc = "prepare" /\ v = -1
<1>1. PICK v \in Results \ {0} :
        /\ stack # << >> /\ ret = << >> /\ lpc = "idle" /\ Return(v)
        /\ \/ Top.pc \in {"sources", "executable", "command"}
           \/ Top.pc = "prepare" /\ v = -1
  <2>1. -1 \in Results \ {0}
    BY DEF Results
  <2> QED BY <2>1 DEF StepFails, At
<1>2. Typed /\ LoadInv /\ OrderInv
  BY DEF Basis
<1>3. LoadTyped' /\ LoadInv' /\ lpc' = "idle" /\ server' = server
  BY <1>1, <1>2, Rested DEF StepFails
<1>4. pkgs' \in Seq(Objects) /\ Marks(Top.pkg, Ended(v))
  BY <1>1, <1>2, TopPkg, MarkShape, EndedIsAnEnd DEF Return
<1>5. Typed' /\ Returns(v)
  BY <1>1, <1>2, <1>3, <1>4, ReturnsTyped DEF StepFails, Return
<1> QED BY <1>1, <1>3, <1>4, <1>5

\* What a package of the innermost call ends with.
EndsTop(v) == \A q \in 1 .. Len(pkgs) :
  pkgs'[q].end = IF q = Top.pkg /\ Top.pc # "development" THEN Ended(v) ELSE pkgs[q].end

LEMMA FreeingShape ==
  ASSUME Typed, OrderInv, stack # << >>, NEW v \in Results, ReturnFreeing(v)
  PROVE  pkgs' \in Seq(Objects) /\ Frees(Top.freelist) /\ EndsTop(v)
<1> DEFINE ps == IF Top.pc = "development" THEN pkgs ELSE [pkgs EXCEPT ![Top.pkg].end = Ended(v)]
<1>1. pkgs \in Seq(Objects) /\ Top.pkg \in 1 .. Len(pkgs) /\ Ended(v) \in Ends
  BY TopPkg, EndedIsAnEnd DEF Typed
<1>2. /\ ps \in Seq(Objects) /\ Len(ps) = Len(pkgs)
      /\ \A q \in 1 .. Len(pkgs) :
           /\ ps[q].of = pkgs[q].of /\ ps[q].dir = pkgs[q].dir /\ ps[q].mem = pkgs[q].mem
           /\ ps[q].end = IF q = Top.pkg /\ Top.pc # "development" THEN Ended(v) ELSE pkgs[q].end
  <2>1. CASE Top.pc = "development"
    BY <1>1, <2>1
  <2>2. CASE Top.pc # "development"
    <3> DEFINE p == [pkgs[Top.pkg] EXCEPT !.end = Ended(v)]
    <3>1. /\ p \in Objects /\ p.of = pkgs[Top.pkg].of /\ p.dir = pkgs[Top.pkg].dir
          /\ p.mem = pkgs[Top.pkg].mem /\ p.end = Ended(v)
      <4>1. pkgs[Top.pkg] \in Objects
        BY <1>1, PkgType
      <4> QED BY <1>1, <4>1 DEF Objects
    <3>2. ps = [pkgs EXCEPT ![Top.pkg] = p]
      BY <2>2
    <3> HIDE DEF p, ps
    <3>3. /\ ps \in Seq(Objects) /\ Len(ps) = Len(pkgs)
          /\ \A q \in 1 .. Len(pkgs) : ps[q] = IF q = Top.pkg THEN p ELSE pkgs[q]
      BY <1>1, <3>1, <3>2, ExceptSeq
    <3> QED BY <2>2, <3>1, <3>3
  <2> QED BY <2>1, <2>2
<1>3. pkgs' = FreeAll(Top.freelist, ps)
  BY DEF ReturnFreeing
<1> HIDE DEF ps
<1>4. /\ pkgs' \in Seq(Objects) /\ Len(pkgs') = Len(ps)
      /\ \A q \in 1 .. Len(ps) :
           /\ pkgs'[q].of = ps[q].of /\ pkgs'[q].dir = ps[q].dir /\ pkgs'[q].end = ps[q].end
           /\ pkgs'[q].mem = IF Occurs(q, Top.freelist) THEN FreeOf(ps[q].mem) ELSE ps[q].mem
  BY <1>2, <1>3, FreeShape
<1> QED BY <1>2, <1>4 DEF Frees, SamePkgs, EndsTop

LEMMA DepFailsEffect ==
  ASSUME Basis, DepFails
  PROVE  /\ Typed' /\ LoadInv' /\ Returns(-1) /\ Frees(Top.freelist) /\ EndsTop(-1)
         /\ Top.pc \in Loops /\ (ret # << >> => ret[2] = -1)
<1>1. Typed /\ LoadInv /\ ControlInv /\ OrderInv /\ stack # << >> /\ -1 \in Results
  BY DEF Basis, DepFails, Results
<1>2. /\ LoadTyped' /\ LoadInv' /\ lpc' = "idle" /\ server' = server
      /\ Top.pc \in Loops /\ (ret # << >> => ret[2] = -1)
  <2>1. CASE Taken("null")
    <3>1. LoadTyped' /\ LoadInv' /\ lpc = "null" /\ lpc' = "idle" /\ server' = server
      BY <1>1, <2>1, TakenTyped DEF DepFails
    <3> QED BY <1>1, <3>1 DEF ControlInv
  <2>2. CASE ret # << >> /\ ret[2] = -1 /\ UNCHANGED loadVars
    <3>1. LoadTyped' /\ LoadInv' /\ lpc' = lpc /\ server' = server
      BY <1>1, <2>2, Rested DEF DepFails
    <3> QED BY <1>1, <2>2, <3>1 DEF ControlInv
  <2> QED BY <2>1, <2>2 DEF DepFails
<1>3. pkgs' \in Seq(Objects) /\ Frees(Top.freelist) /\ EndsTop(-1)
  BY <1>1, FreeingShape DEF DepFails
<1>4. Typed' /\ Returns(-1)
  BY <1>1, <1>2, <1>3, ReturnsTyped DEF DepFails, ReturnFreeing
<1> QED BY <1>2, <1>3, <1>4

LEMMA InLoopIsLoops ==
  ASSUME InLoop
  PROVE  stack # << >> /\ ret = << >> /\ lpc = "idle" /\ Top.pc \in Loops
BY DEF InLoop, At, Loops

\* DepsDone, of the executable's dependencies ...
LEMMA UnpackedDoneEffect ==
  ASSUME Basis, DepsDone, Top.pc = "unpacked"
  PROVE  /\ Typed' /\ LoadInv' /\ Top.next > Len(List) /\ Advances("command") /\ Frees(Top.freelist)
         /\ visited' = visited
         /\ \A q \in 1 .. Len(pkgs) : pkgs'[q].end = pkgs[q].end
<1>1. Typed /\ LoadInv /\ At("unpacked") /\ pkgs \in Seq(Objects)
  BY InLoopIsLoops DEF Basis, DepsDone, At, Typed
<1>2. Go("command") /\ pkgs' = FreeAll(Top.freelist, pkgs) /\ "command" \in Pcs
  BY DEF DepsDone, Pcs
<1>3. /\ Advances("command") /\ stack' \in Seq(Calls) /\ LoadTyped' /\ LoadInv' /\ server' = server
  BY <1>1, <1>2, GoesOn DEF DepsDone
<1>4. /\ pkgs' \in Seq(Objects) /\ Frees(Top.freelist)
      /\ \A q \in 1 .. Len(pkgs) : pkgs'[q].end = pkgs[q].end
  BY <1>1, <1>2, FreeShape DEF Frees, SamePkgs
<1>5. visited' = visited /\ developed' = developed /\ Top.next > Len(List)
  BY DEF DepsDone
<1> QED BY <1>1, <1>3, <1>4, <1>5 DEF Typed, Advances

\* ... and of the package's own.
LEMMA DepsDoneEffect ==
  ASSUME Basis, DepsDone, Top.pc # "unpacked"
  PROVE  /\ Typed' /\ LoadInv' /\ Returns(0) /\ Frees(Top.freelist) /\ EndsTop(0)
         /\ Top.pc \in Loops /\ ret = << >> /\ Top.next > Len(List)
<1>1. /\ Typed /\ LoadInv /\ OrderInv /\ stack # << >> /\ ret = << >> /\ lpc = "idle"
      /\ Top.pc \in Loops /\ 0 \in Results /\ ReturnFreeing(0) /\ Top.next > Len(List)
  BY InLoopIsLoops DEF Basis, DepsDone, Results
<1>2. LoadTyped' /\ LoadInv' /\ lpc' = "idle" /\ server' = server
  BY <1>1, Rested DEF DepsDone
<1>3. pkgs' \in Seq(Objects) /\ Frees(Top.freelist) /\ EndsTop(0)
  BY <1>1, FreeingShape
<1>4. Typed' /\ Returns(0)
  BY <1>1, <1>2, <1>3, ReturnsTyped DEF DepsDone, ReturnFreeing
<1> QED BY <1>1, <1>2, <1>3, <1>4

LEMMA LoadDepEffect ==
  ASSUME Basis, LoadDep
  PROVE  /\ Typed' /\ LoadInv' /\ UNCHANGED <<mpc, code, stack, ret, visited, pkgs, force>>
         /\ stack # << >> /\ ret = << >> /\ Top.pc \in Loops /\ lpc = "idle" /\ lpc' = "begin"
<1>1. Typed /\ LoadInv /\ OrderInv /\ stack # << >> /\ ret = << >> /\ Top.pc \in Loops
  BY InLoopIsLoops DEF Basis, LoadDep
<1>2. List[Top.next] \in Slugs
  <2>1. List \in Seq(Slugs)
    BY <1>1, TopPkg, PkgType DEF List
  <2>2. Top.next \in 1 .. Len(List)
    <3>1. Top.next \in Nat \ {0} /\ Top.next <= Len(List)
      BY <1>1, TopType DEF LoadDep
    <3>2. Len(List) \in Nat
      BY <2>1, LenProperties
    <3> HIDE DEF List, Top
    <3> QED BY <3>1, <3>2
  <2> QED BY <2>1, <2>2, ElementOfSeq
<1>3. LoadTyped' /\ LoadInv' /\ lpc = "idle" /\ lpc' = "begin" /\ server' = server
  BY <1>1, <1>2, LoadBegun DEF LoadDep
<1>4. UNCHANGED <<mpc, code, stack, ret, visited, pkgs, force, developed>>
  BY DEF LoadDep, treeVars
<1> QED BY <1>1, <1>3, <1>4 DEF Typed

\* The package that has come back is put on the freelist.
Collects ==
  /\ stack # << >> /\ Top.pc \in Loops /\ Len(stack) \in Nat \ {0} /\ Len(stack') = Len(stack) /\ Below
  /\ stack'[Len(stack)].pkg = Top.pkg /\ stack'[Len(stack)].pc = Top.pc
  /\ stack'[Len(stack)].dir = Top.dir /\ stack'[Len(stack)].next = Top.next + 1
  /\ Top.freelist \in Seq(Nat) /\ stack'[Len(stack)].freelist = Append(Top.freelist, ret[1])
  /\ ret # << >> /\ ret[2] # -1 /\ ret[1] \in Nat /\ ret' = << >> /\ stack' # << >>
  /\ UNCHANGED <<mpc, code, visited, pkgs, force, lpc>>

LEMMA DepInstalledEffect ==
  ASSUME Basis, DepInstalled
  PROVE  Typed' /\ LoadInv' /\ Collects
<1>1. Typed /\ LoadInv /\ ControlInv /\ stack # << >> /\ ret # << >> /\ ret[2] # -1 /\ Top.pc \in Loops
  BY DEF Basis, DepInstalled, ControlInv
<1>2. LoadTyped' /\ LoadInv' /\ lpc' = lpc /\ server' = server
  BY <1>1, Rested DEF DepInstalled
<1>3. ret[1] \in Nat
  BY <1>1 DEF Typed
<1> DEFINE f1 == [Top EXCEPT !.next = Top.next + 1]
           f == [f1 EXCEPT !.freelist = Append(f1.freelist, ret[1])]
<1>4. stack' = [stack EXCEPT ![Len(stack)] = f]
  BY DEF DepInstalled, Become
<1>5. Top \in Calls /\ Top.freelist \in Seq(Nat) /\ Top.next \in Nat \ {0}
  BY <1>1, TopType, FrameType DEF Top
<1>6. /\ f1 \in Calls /\ f1.pkg = Top.pkg /\ f1.pc = Top.pc /\ f1.dir = Top.dir
      /\ f1.next = Top.next + 1 /\ f1.freelist = Top.freelist
  <2> HIDE DEF Top
  <2> QED BY <1>5 DEF Calls
<1> HIDE DEF f1
<1>7. /\ f \in Calls /\ f.pkg = Top.pkg /\ f.pc = Top.pc /\ f.dir = Top.dir /\ f.next = Top.next + 1
      /\ f.freelist = Append(Top.freelist, ret[1])
  <2>1. Append(Top.freelist, ret[1]) \in Seq(Nat)
    BY <1>3, <1>5, Pushed
  <2> HIDE DEF Top
  <2> QED BY <1>6, <2>1 DEF Calls
<1> HIDE DEF f
<1>8. /\ stack' \in Seq(Calls) /\ Len(stack') = Len(stack) /\ Len(stack) \in Nat \ {0} /\ Below
      /\ stack'[Len(stack)] = f
  <2>1. stack \in Seq(Calls)
    BY <1>1 DEF Typed
  <2> QED BY <1>1, <1>4, <1>7, <2>1, Replaced DEF Below
<1>9. stack' # << >>
  BY <1>8, EmptySeq
<1>10. ret' = << >> /\ UNCHANGED <<mpc, code, visited, pkgs, force, developed>>
  BY DEF DepInstalled
<1>11. Collects
  BY <1>1, <1>2, <1>3, <1>5, <1>7, <1>8, <1>9, <1>10 DEF Collects
<1> QED BY <1>1, <1>2, <1>8, <1>10, <1>11 DEF Typed

LEMMA DevelopEffect ==
  ASSUME Basis, Develop
  PROVE  /\ Typed' /\ LoadInv' /\ Pushes(ret[1], Asked, "development") /\ stack' # << >>
         /\ stack = << >> /\ ret # << >> /\ ret' = << >> /\ ret[2] = 0
         /\ mpc = "install" /\ mpc' = "develop" /\ lpc = "idle" /\ lpc' = "idle"
         /\ UNCHANGED <<code, visited, pkgs, force>>
<1>1. /\ Typed /\ LoadInv /\ ControlInv /\ stack = << >> /\ ret # << >> /\ ret[2] = 0 /\ mpc = "install"
      /\ mpc' = "develop" /\ developed' = TRUE
  BY DEF Basis, Develop
<1>2. LoadTyped' /\ LoadInv' /\ lpc' = lpc /\ lpc = "idle" /\ server' = server
  BY <1>1, Rested DEF Develop, ControlInv
<1>3. ret[1] \in Nat
  BY <1>1 DEF Typed
<1>4. stack' \in Seq(Calls) /\ Pushes(ret[1], Asked, "development") /\ stack' # << >>
  <2>1. << >> \in Seq(Calls) /\ "development" \in Pcs
    BY EmptySeq DEF Pcs, Loops
  <2>2. stack' = <<Frame(ret[1], Asked, "development")>>
    BY DEF Develop
  <2>3. stack' = Append(<< >>, Frame(ret[1], Asked, "development"))
    BY <2>2
  <2> QED BY <1>1, <1>3, <2>1, <2>3, PushShape
<1>5. ret' = << >> /\ UNCHANGED <<code, visited, pkgs, force>>
  BY DEF Develop
<1> QED BY <1>1, <1>2, <1>4, <1>5 DEF Typed

LEMMA FinishEffect ==
  ASSUME Basis, Finish
  PROVE  /\ Typed' /\ LoadInv' /\ Frees(<<ret[1]>>)
         /\ \A q \in 1 .. Len(pkgs) : pkgs'[q].end = pkgs[q].end
         /\ stack = << >> /\ stack' = << >> /\ ret # << >> /\ ret' = << >> /\ code' = ret[2]
         /\ mpc \in {"install", "develop"} /\ mpc' = "done" /\ lpc = "idle" /\ lpc' = "idle"
         /\ UNCHANGED <<visited, force>>
<1>1. /\ Typed /\ LoadInv /\ ControlInv /\ stack = << >> /\ ret # << >>
      /\ mpc \in {"install", "develop"} /\ mpc' = "done" /\ pkgs \in Seq(Objects)
  BY DEF Basis, Finish, Typed
<1>2. LoadTyped' /\ LoadInv' /\ lpc' = lpc /\ lpc = "idle" /\ server' = server
  BY <1>1, Rested DEF Finish, ControlInv
<1>3. ret[2] \in Results
  BY <1>1 DEF Typed
<1>4. /\ stack' = stack /\ ret' = << >> /\ code' = ret[2] /\ UNCHANGED <<visited, force, developed>>
      /\ pkgs' = FreeAll(<<ret[1]>>, pkgs)
  BY DEF Finish
<1>5. /\ pkgs' \in Seq(Objects) /\ Frees(<<ret[1]>>)
      /\ \A q \in 1 .. Len(pkgs) : pkgs'[q].end = pkgs[q].end
  BY <1>1, <1>4, FreeShape DEF Frees, SamePkgs
<1> QED BY <1>1, <1>2, <1>3, <1>4, <1>5 DEF Typed

-----------------------------------------------------------------------------
(* The kinds of steps there are *)

Rests ==
  /\ UNCHANGED <<code, stack, ret, visited, pkgs, force>>
  /\ \/ mpc' = mpc /\ lpc' = lpc
     \/ mpc' = mpc /\ lpc # "idle" /\ lpc' # "idle"
     \/ /\ mpc' = mpc /\ lpc = "idle" /\ lpc' = "begin"
        /\ stack # << >> /\ ret = << >> /\ Top.pc \in Loops
     \/ mpc = "start" /\ mpc' = "load" /\ lpc' # "idle"
     \/ mpc = "load" /\ mpc' = "failed" /\ lpc' = "idle"

Enters ==
  /\ Builds
  /\ \/ mpc = "load" /\ mpc' = "install" /\ pkgs'[Len(pkgs) + 1].dir = Asked
     \/ /\ mpc' = mpc /\ stack # << >> /\ Top.pc \in Loops
        /\ pkgs'[Len(pkgs) + 1].dir = DirIn(pkgs, Top)

SetsEnd(end) == \A q \in 1 .. Len(pkgs) :
  pkgs'[q].end = IF q = Top.pkg /\ Top.pc # "development" THEN end ELSE pkgs[q].end

\* From where to where an installation goes on.
Onward(to) ==
  \/ Top.pc = "visit" /\ to = "prepare"
  \/ Top.pc = "prepare" /\ to = "sources"
  \/ Top.pc = "sources" /\ to = IF Package(Top.pkg).install THEN "executable" ELSE "deps"
  \/ Top.pc = "executable" /\ to = "unpacked"
  \/ Top.pc = "unpacked" /\ to = "command" /\ Top.next > Len(List)
  \/ Top.pc = "command" /\ to = "deps"

Moves == \E to \in Pcs :
  /\ Advances(to) /\ Frees(Top.freelist) /\ Onward(to)
  /\ \/ /\ Top.pc # "prepare" /\ visited' = visited
        /\ \A q \in 1 .. Len(pkgs) : pkgs'[q].end = pkgs[q].end
        /\ IF Top.pc = "visit" THEN to = "prepare" /\ (force \/ Package(Top.pkg).name \notin visited)
                               ELSE to \notin {"visit", "prepare"}
     \/ /\ Top.pc = "prepare" /\ to = "sources" /\ SetsEnd("begun")
        /\ visited' = visited \cup {Package(Top.pkg).name}

\* What a result tells of the package.
Outcome(v) ==
  \/ v = -1 /\ SetsEnd("error")
  \/ v = 0 /\ Top.pc = "visit" /\ ret = << >> /\ SetsEnd("skipped")
  \/ v = 0 /\ Top.pc \in {"deps", "development"} /\ ret = << >> /\ Top.next > Len(List) /\ SetsEnd("ok")
  \/ v \notin {0, -1} /\ Top.pc \in {"sources", "executable", "command"} /\ ret = << >> /\ SetsEnd("failed")

Leaves == \E v \in Results :
  /\ Returns(v) /\ Frees(Top.freelist) /\ (ret # << >> => ret[2] = -1 /\ v = -1) /\ Outcome(v)
  /\ \/ /\ Top.pc = "visit" /\ ret = << >> /\ v = 0 /\ ~force /\ Package(Top.pkg).name \in visited
        /\ SetsEnd("skipped")
     \/ /\ Top.pc = "prepare" /\ ret = << >> /\ v = -1
        /\ SetsEnd("error")
     \/ /\ Top.pc \notin {"visit", "prepare"}
        /\ \E end \in {"ok", "error", "failed"} : SetsEnd(end)

Develops ==
  /\ Pushes(ret[1], Asked, "development") /\ stack' # << >>
  /\ stack = << >> /\ ret # << >> /\ ret' = << >> /\ ret[2] = 0
  /\ mpc = "install" /\ mpc' = "develop" /\ lpc = "idle" /\ lpc' = "idle"
  /\ UNCHANGED <<code, visited, pkgs, force>>

Finishes ==
  /\ Frees(<<ret[1]>>) /\ \A q \in 1 .. Len(pkgs) : pkgs'[q].end = pkgs[q].end
  /\ stack = << >> /\ stack' = << >> /\ ret # << >> /\ ret' = << >> /\ code' = ret[2]
  /\ mpc \in {"install", "develop"} /\ mpc' = "done" /\ lpc = "idle" /\ lpc' = "idle"
  /\ UNCHANGED <<visited, force>>

LEMMA NothingKept ==
  ASSUME Basis, stack # << >>, Top.pc \notin Loops
  PROVE  Top.freelist = << >> /\ \A q : ~Occurs(q, Top.freelist)
<1>1. Top.freelist = << >>
  BY TopType DEF Basis, ControlInv, Top
<1> QED BY <1>1 DEF Occurs

LEMMA SameIsFreed ==
  ASSUME Basis, stack # << >>, Top.pc \notin Loops, UNCHANGED pkgs
  PROVE  Frees(Top.freelist) /\ \A q \in 1 .. Len(pkgs) : pkgs'[q].end = pkgs[q].end
BY NothingKept DEF Frees, SamePkgs

LEMMA MarkedIsFreed ==
  ASSUME Basis, stack # << >>, Top.pc \notin Loops, NEW end, Marks(Top.pkg, end)
  PROVE  Frees(Top.freelist) /\ SetsEnd(end)
<1>1. Top.pc # "development"
  BY DEF Loops
<1> QED BY <1>1, NothingKept DEF Frees, Marks, SetsEnd

LEMMA PlainMoves ==
  ASSUME Basis, NEW pc \in Pcs \ (Loops \cup {"prepare"}), At(pc), NEW to \in Pcs, Go(to),
         UNCHANGED <<loadVars, fixed, force, developed, mpc, code, ret, visited, pkgs>>,
         IF pc = "visit" THEN to = "prepare" /\ (force \/ Package(Top.pkg).name \notin visited)
                         ELSE to \notin {"visit", "prepare"},
         Onward(to)
  PROVE  Typed' /\ LoadInv' /\ Moves
<1>1. Typed' /\ LoadInv' /\ Advances(to) /\ Top.pc = pc /\ UNCHANGED <<visited, pkgs>>
  BY PlainEffect
<1>2. stack # << >>
  BY DEF At
<1>3. Frees(Top.freelist) /\ \A q \in 1 .. Len(pkgs) : pkgs'[q].end = pkgs[q].end
  BY <1>1, <1>2, SameIsFreed
<1> QED BY <1>1, <1>3 DEF Moves

LEMMA Kinds ==
  ASSUME Basis, [Next]_vars
  PROVE  /\ Typed' /\ LoadInv'
         /\ Rests \/ Enters \/ Moves \/ Leaves \/ Collects \/ Develops \/ Finishes
<1>0. Typed /\ LoadInv
  BY DEF Basis
<1>1. CASE Loading /\ UNCHANGED <<fixed, force, treeVars>>
  BY <1>1, LoadingEffect DEF Rests
<1>2. CASE Start
  BY <1>2, StartEffect DEF Rests
<1>3. CASE RootNull
  BY <1>3, RootNullEffect DEF Rests
<1>4. CASE LoadDep
  BY <1>4, LoadDepEffect DEF Rests
<1>5. CASE RootLoaded
  BY <1>5, RootLoadedEffect DEF Enters
<1>6. CASE DepLoaded
  BY <1>6, DepLoadedEffect DEF Enters
<1>7. CASE NotVisited
  <2>1. "visit" \in Pcs \ (Loops \cup {"prepare"}) /\ "prepare" \in Pcs
    BY DEF Pcs, Loops
  <2>2. Onward("prepare")
    BY <1>7 DEF NotVisited, At, Onward
  <2> QED BY <1>7, <2>1, <2>2, PlainMoves DEF NotVisited
<1>8. CASE FetchSources
  <2> DEFINE to == IF Package(Top.pkg).install THEN "executable" ELSE "deps"
  <2>1. /\ "sources" \in Pcs \ (Loops \cup {"prepare"}) /\ "sources" # "visit"
        /\ to \in Pcs /\ to \notin {"visit", "prepare"}
    BY DEF Pcs, Loops
  <2>2. At("sources") /\ Go(to)
        /\ UNCHANGED <<loadVars, fixed, force, developed, mpc, code, ret, visited, pkgs>>
    BY <1>8 DEF FetchSources
  <2>3. Onward(to)
    BY <2>2 DEF At, Onward
  <2> HIDE DEF to
  <2> QED BY <2>1, <2>2, <2>3, PlainMoves
<1>9. CASE Unpack
  <2>1. /\ "executable" \in Pcs \ (Loops \cup {"prepare"}) /\ "executable" # "visit"
        /\ "unpacked" \in Pcs /\ "unpacked" \notin {"visit", "prepare"}
    BY DEF Pcs, Loops
  <2>2. Onward("unpacked")
    BY <1>9 DEF Unpack, At, Onward
  <2> QED BY <1>9, <2>1, <2>2, PlainMoves DEF Unpack
<1>10. CASE Command
  <2>1. /\ "command" \in Pcs \ (Loops \cup {"prepare"}) /\ "command" # "visit"
        /\ "deps" \in Pcs /\ "deps" \notin {"visit", "prepare"}
    BY DEF Pcs, Loops
  <2>2. Onward("deps")
    BY <1>10 DEF Command, At, Onward
  <2> QED BY <1>10, <2>1, <2>2, PlainMoves DEF Command
<1>11. CASE Prepare
  <2>1. /\ Typed' /\ LoadInv' /\ Advances("sources") /\ Top.pc = "prepare"
        /\ visited' = visited \cup {Package(Top.pkg).name} /\ Marks(Top.pkg, "begun")
    BY <1>11, PrepareEffect
  <2>2. Frees(Top.freelist) /\ SetsEnd("begun")
    BY <2>1, MarkedIsFreed DEF Advances, Goes, Loops
  <2>3. "sources" \in Pcs /\ Onward("sources")
    BY <2>1 DEF Pcs, Onward
  <2> QED BY <2>1, <2>2, <2>3 DEF Moves
<1>12. CASE Visited
  <2>1. /\ Typed' /\ LoadInv' /\ Returns(0) /\ Marks(Top.pkg, "skipped") /\ Top.pc = "visit"
        /\ ret = << >> /\ ~force /\ Package(Top.pkg).name \in visited
    BY <1>12, VisitedEffect
  <2>2. Frees(Top.freelist) /\ SetsEnd("skipped")
    BY <2>1, MarkedIsFreed DEF Returns, Pops, Loops
  <2>3. 0 \in Results /\ Outcome(0)
    BY <2>1, <2>2 DEF Results, Outcome
  <2> QED BY <2>1, <2>2, <2>3 DEF Leaves
<1>13. CASE StepFails
  <2>1. Typed' /\ LoadInv' /\ ret = << >>
    BY <1>13, StepFailsEffect
  <2>2. PICK v \in Results \ {0} :
          /\ Returns(v) /\ Marks(Top.pkg, Ended(v))
          /\ \/ Top.pc \in {"sources", "executable", "command"}
             \/ Top.pc = "prepare" /\ v = -1
    BY <1>13, StepFailsEffect
  <2>3. Frees(Top.freelist) /\ SetsEnd(Ended(v))
    BY <2>2, MarkedIsFreed DEF Returns, Pops, Loops
  <2>4. Ended(v) \in {"ok", "error", "failed"} /\ Ended(-1) = "error"
    BY EndedIsAnEnd DEF Ended
  <2>5. Outcome(v)
    <3>1. v = -1 => Ended(v) = "error"
      BY <2>4
    <3>2. v # -1 => v \notin {0, -1} /\ Ended(v) = "failed"
      BY <2>2 DEF Ended
    <3> QED BY <2>1, <2>2, <2>3, <3>1, <3>2 DEF Outcome
  <2> QED BY <2>1, <2>2, <2>3, <2>4, <2>5 DEF Leaves
<1>14. CASE DepFails
  <2>1. /\ Typed' /\ LoadInv' /\ Returns(-1) /\ Frees(Top.freelist) /\ EndsTop(-1)
        /\ Top.pc \in Loops /\ (ret # << >> => ret[2] = -1)
    BY <1>14, DepFailsEffect
  <2>2. SetsEnd(Ended(-1)) /\ -1 \in Results /\ Top.pc \notin {"visit", "prepare"}
    BY <2>1 DEF SetsEnd, EndsTop, Results, Loops
  <2>3. Outcome(-1)
    BY <2>2 DEF Outcome, Ended
  <2> QED BY <2>1, <2>2, <2>3, EndedIsAnEnd DEF Leaves
<1>15. CASE DepsDone /\ Top.pc = "unpacked"
  <2>1. /\ Typed' /\ LoadInv' /\ Top.next > Len(List) /\ Advances("command") /\ Frees(Top.freelist)
        /\ visited' = visited
        /\ \A q \in 1 .. Len(pkgs) : pkgs'[q].end = pkgs[q].end
    BY <1>15, UnpackedDoneEffect
  <2>2. "command" \in Pcs /\ "command" \notin {"visit", "prepare"} /\ Onward("command")
    BY <1>15, <2>1 DEF Pcs, Onward
  <2> QED BY <1>15, <2>1, <2>2 DEF Moves
<1>16. CASE DepsDone /\ Top.pc # "unpacked"
  <2>1. /\ Typed' /\ LoadInv' /\ Returns(0) /\ Frees(Top.freelist) /\ EndsTop(0)
        /\ Top.pc \in Loops /\ ret = << >> /\ Top.next > Len(List)
    BY <1>16, DepsDoneEffect
  <2>2. SetsEnd(Ended(0)) /\ 0 \in Results /\ Top.pc \notin {"visit", "prepare"}
    BY <2>1 DEF SetsEnd, EndsTop, Results, Loops
  <2>3. Outcome(0)
    <3>1. Top.pc \in {"deps", "development"}
      BY <1>16, <2>1 DEF Loops
    <3> QED BY <2>1, <2>2, <3>1 DEF Outcome, Ended
  <2> QED BY <2>1, <2>2, <2>3, EndedIsAnEnd DEF Leaves
<1>17. CASE DepInstalled
  BY <1>17, DepInstalledEffect
<1>18. CASE Develop
  BY <1>18, DevelopEffect DEF Develops
<1>19. CASE Finish
  BY <1>19, FinishEffect DEF Finishes
<1>20. CASE UNCHANGED vars
  <2>1. LoadTyped' /\ LoadInv' /\ lpc' = lpc /\ server' = server
    BY <1>0, <1>20, Rested DEF vars
  <2>2. UNCHANGED <<mpc, code, stack, ret, visited, pkgs, force, developed>>
    BY <1>20 DEF vars, treeVars
  <2> QED BY <1>0, <2>1, <2>2 DEF Typed, Rests
<1> QED BY <1>1, <1>2, <1>3, <1>4, <1>5, <1>6, <1>7, <1>8, <1>9, <1>10, <1>11, <1>12, <1>13,
           <1>14, <1>15, <1>16, <1>17, <1>18, <1>19, <1>20 DEF Next, Step, Stays

-----------------------------------------------------------------------------
(* Control *)

LEMMA Running ==
  ASSUME Basis, stack # << >> \/ ret # << >>
  PROVE  mpc \in {"install", "develop"}
BY DEF Basis, ControlInv, Typed

LEMMA TopIsLast == Top = stack[Len(stack)]
BY DEF Top

LEMMA StepControl == Basis /\ [Next]_vars => ControlInv'
<1> SUFFICES ASSUME Basis, [Next]_vars PROVE ControlInv'
  OBVIOUS
<1>0. ControlInv /\ Typed /\ Typed'
  BY Kinds DEF Basis
<1>1. CASE Rests
  BY <1>0, <1>1 DEF Rests, ControlInv, Top
<1>2. CASE Enters
  <2>1. /\ Len(stack) \in Nat /\ Len(stack') = Len(stack) + 1
        /\ \A k \in 1 .. Len(stack) : stack'[k] = stack[k]
        /\ stack'[Len(stack) + 1].pc = "visit" /\ stack'[Len(stack) + 1].freelist = << >>
        /\ ret' = << >> /\ lpc' = "idle" /\ stack' # << >>
    BY <1>2 DEF Enters, Builds, Pushes
  <2>2. mpc' \in {"install", "develop"}
    BY <1>2, Running DEF Enters
  <2>3. \A k \in 1 .. Len(stack) : stack[k].pc \in Loops
    <3>1. CASE stack = << >>
      BY <3>1, EmptySeq
    <3>2. CASE stack # << >>
      <4>1. Top.pc \in Loops
        BY <1>0, <1>2, <3>2 DEF Enters, ControlInv
      <4>2. \A k \in 1 .. Len(stack) - 1 : stack[k].pc \in Loops
        BY <1>0 DEF ControlInv
      <4> QED BY <2>1, <4>1, <4>2, TopIsLast, <3>2
    <3> QED BY <3>1, <3>2
  <2>4. \A k \in 1 .. Len(stack') - 1 : stack'[k].pc \in Loops
    BY <2>1, <2>3
  <2>5. \A k \in 1 .. Len(stack') : stack'[k].pc \notin Loops => stack'[k].freelist = << >>
    BY <2>1, <2>3
  <2> QED BY <2>1, <2>2, <2>4, <2>5 DEF ControlInv
<1>3. CASE Moves
  <2>1. /\ stack # << >> /\ Len(stack) \in Nat \ {0} /\ Len(stack') = Len(stack)
        /\ \A k \in 1 .. Len(stack) - 1 : stack'[k] = stack[k]
        /\ stack'[Len(stack)].freelist = << >>
        /\ ret' = << >> /\ lpc' = "idle" /\ stack' # << >> /\ mpc' = mpc
    BY <1>3 DEF Moves, Advances, Goes, Below
  <2>2. mpc' \in {"install", "develop"}
    BY <2>1, Running
  <2>3. \A k \in 1 .. Len(stack) - 1 : stack[k].pc \in Loops
    BY <1>0 DEF ControlInv
  <2>4. \A k \in 1 .. Len(stack') - 1 : stack'[k].pc \in Loops
    BY <2>1, <2>3
  <2>5. \A k \in 1 .. Len(stack') : stack'[k].pc \notin Loops => stack'[k].freelist = << >>
    BY <2>1, <2>3
  <2> QED BY <2>1, <2>2, <2>4, <2>5 DEF ControlInv
<1>4. CASE Leaves
  <2>1. /\ stack # << >> /\ Len(stack) \in Nat \ {0} /\ Len(stack') = Len(stack) - 1
        /\ \A k \in 1 .. Len(stack) - 1 : stack'[k] = stack[k]
        /\ ret' # << >> /\ lpc' = "idle" /\ mpc' = mpc /\ (stack' = << >> <=> Len(stack) = 1)
    BY <1>4 DEF Leaves, Returns, Pops, Below
  <2>2. mpc' \in {"install", "develop"}
    BY <2>1, Running
  <2>3. \A k \in 1 .. Len(stack) - 1 : stack[k].pc \in Loops
    BY <1>0 DEF ControlInv
  <2>4. \A k \in 1 .. Len(stack') : stack'[k].pc \in Loops
    BY <2>1, <2>3
  <2>5. stack' # << >> => Top'.pc \in Loops
    <3>1. stack' # << >> => Len(stack') \in 1 .. Len(stack')
      BY <2>1
    <3> QED BY <2>4, <3>1 DEF Top
  <2>6. \A k \in 1 .. Len(stack') - 1 : stack'[k].pc \in Loops
    BY <2>1, <2>4
  <2> QED BY <2>1, <2>2, <2>4, <2>5, <2>6 DEF ControlInv
<1>5. CASE Collects
  <2>1. /\ stack # << >> /\ Len(stack) \in Nat \ {0} /\ Len(stack') = Len(stack)
        /\ \A k \in 1 .. Len(stack) - 1 : stack'[k] = stack[k]
        /\ stack'[Len(stack)].pc \in Loops
        /\ ret # << >> /\ ret' = << >> /\ lpc' = lpc /\ stack' # << >> /\ mpc' = mpc
    BY <1>5 DEF Collects, Below
  <2>2. mpc' \in {"install", "develop"} /\ lpc' = "idle"
    BY <1>0, <2>1, Running DEF ControlInv
  <2>3. \A k \in 1 .. Len(stack) - 1 : stack[k].pc \in Loops
    BY <1>0 DEF ControlInv
  <2>4. \A k \in 1 .. Len(stack') : stack'[k].pc \in Loops
    BY <2>1, <2>3
  <2>5. \A k \in 1 .. Len(stack') - 1 : stack'[k].pc \in Loops
    BY <2>1, <2>4
  <2> QED BY <2>1, <2>2, <2>4, <2>5 DEF ControlInv
<1>6. CASE Develops
  <2>1. /\ Len(stack) = 0 /\ Len(stack') = 1 /\ stack'[1].pc = "development"
        /\ ret' = << >> /\ lpc' = "idle" /\ stack' # << >> /\ mpc' = "develop"
    BY <1>6, EmptySeq DEF Develops, Pushes
  <2>2. \A k \in 1 .. Len(stack') : stack'[k].pc \in Loops
    BY <2>1 DEF Loops
  <2>3. \A k \in 1 .. Len(stack') - 1 : stack'[k].pc \in Loops
    BY <2>1, <2>2
  <2> QED BY <2>1, <2>2, <2>3 DEF ControlInv
<1>7. CASE Finishes
  <2>1. /\ stack' = << >> /\ ret' = << >> /\ lpc' = "idle" /\ mpc' = "done" /\ Len(stack') = 0
    BY <1>7, EmptySeq DEF Finishes
  <2> QED BY <2>1 DEF ControlInv
<1> QED BY <1>1, <1>2, <1>3, <1>4, <1>5, <1>6, <1>7, Kinds

-----------------------------------------------------------------------------
(* Order *)

LEMMA StepOrder == Basis /\ [Next]_vars => OrderInv'
<1> SUFFICES ASSUME Basis, [Next]_vars PROVE OrderInv'
  OBVIOUS
<1>0. OrderInv /\ ControlInv /\ Typed /\ Len(pkgs) \in Nat /\ Len(stack) \in Nat
  BY LenProperties DEF Basis, Typed
<1>1. CASE Rests
  BY <1>0, <1>1 DEF Rests, OrderInv
<1>2. CASE Enters
  <2>1. /\ Len(pkgs') = Len(pkgs) + 1 /\ Len(stack') = Len(stack) + 1
        /\ \A k \in 1 .. Len(stack) : stack'[k] = stack[k]
        /\ stack'[Len(stack) + 1].pkg = Len(pkgs) + 1
        /\ DOMAIN stack'[Len(stack) + 1].freelist = {}
        /\ ret' = << >>
    BY <1>2 DEF Enters, Builds, Pushes
  <2>2. \A k \in 1 .. Len(stack') :
          /\ stack'[k].pkg \in 1 .. Len(pkgs')
          /\ \A j \in DOMAIN stack'[k].freelist :
               stack'[k].freelist[j] \in 1 .. Len(pkgs') /\ stack'[k].pkg < stack'[k].freelist[j]
    BY <1>0, <2>1 DEF OrderInv
  <2>3. \A k, l \in 1 .. Len(stack') : k < l =>
          /\ stack'[k].pkg < stack'[l].pkg
          /\ \A j \in DOMAIN stack'[k].freelist : stack'[k].freelist[j] < stack'[l].pkg
    BY <1>0, <2>1 DEF OrderInv
  <2> QED BY <2>1, <2>2, <2>3 DEF OrderInv
<1>3. CASE Moves
  <2>1. /\ stack # << >> /\ Len(stack') = Len(stack) /\ Len(pkgs') = Len(pkgs)
        /\ \A k \in 1 .. Len(stack) - 1 : stack'[k] = stack[k]
        /\ stack'[Len(stack)].pkg = stack[Len(stack)].pkg
        /\ DOMAIN stack'[Len(stack)].freelist = {}
        /\ ret' = << >>
    BY <1>3 DEF Moves, Advances, Goes, Below, Frees, SamePkgs, Top
  <2>2. \A k \in 1 .. Len(stack) :
          /\ stack'[k].pkg = stack[k].pkg
          /\ k # Len(stack) => stack'[k].freelist = stack[k].freelist
    BY <1>0, <2>1
  <2> QED BY <1>0, <2>1, <2>2 DEF OrderInv
<1>4. CASE Leaves
  <2>1. /\ stack # << >> /\ Len(stack) \in Nat \ {0}
        /\ Len(stack') = Len(stack) - 1 /\ Len(pkgs') = Len(pkgs)
        /\ \A k \in 1 .. Len(stack) - 1 : stack'[k] = stack[k]
        /\ ret'[1] = stack[Len(stack)].pkg
    BY <1>4 DEF Leaves, Returns, Pops, Below, Frees, SamePkgs, Top
  <2>2. Len(stack) \in 1 .. Len(stack)
    BY <2>1
  <2>3. \A k \in 1 .. Len(stack') : k \in 1 .. Len(stack) /\ k < Len(stack) /\ stack'[k] = stack[k]
    BY <2>1
  <2>4. \A k \in 1 .. Len(stack') :
          /\ stack'[k].pkg \in 1 .. Len(pkgs')
          /\ \A j \in DOMAIN stack'[k].freelist :
               stack'[k].freelist[j] \in 1 .. Len(pkgs') /\ stack'[k].pkg < stack'[k].freelist[j]
    BY <1>0, <2>1, <2>3 DEF OrderInv
  <2>5. \A k, l \in 1 .. Len(stack') : k < l =>
          /\ stack'[k].pkg < stack'[l].pkg
          /\ \A j \in DOMAIN stack'[k].freelist : stack'[k].freelist[j] < stack'[l].pkg
    BY <1>0, <2>3 DEF OrderInv
  <2>6. /\ ret'[1] \in 1 .. Len(pkgs')
        /\ \A k \in 1 .. Len(stack') :
             /\ stack'[k].pkg < ret'[1]
             /\ \A j \in DOMAIN stack'[k].freelist : stack'[k].freelist[j] < ret'[1]
    BY <1>0, <2>1, <2>2, <2>3 DEF OrderInv
  <2> QED BY <2>4, <2>5, <2>6 DEF OrderInv
<1>5. CASE Collects
  <2>1. /\ Len(stack) \in Nat \ {0} /\ Len(stack') = Len(stack) /\ pkgs' = pkgs
        /\ \A k \in 1 .. Len(stack) - 1 : stack'[k] = stack[k]
        /\ stack'[Len(stack)].pkg = stack[Len(stack)].pkg
        /\ ret # << >> /\ ret' = << >>
    BY <1>5 DEF Collects, Below, Top
  <2>2. \A j \in DOMAIN stack'[Len(stack)].freelist :
          \/ stack'[Len(stack)].freelist[j] = ret[1]
          \/ /\ j \in DOMAIN stack[Len(stack)].freelist
             /\ stack'[Len(stack)].freelist[j] = stack[Len(stack)].freelist[j]
    <3>1. /\ Top.freelist \in Seq(Nat) /\ ret[1] \in Nat /\ Top = stack[Len(stack)]
          /\ stack'[Len(stack)].freelist = Append(Top.freelist, ret[1])
      BY <1>5 DEF Collects, Top
    <3> HIDE DEF Top
    <3>2. /\ DOMAIN Append(Top.freelist, ret[1]) = 1 .. Len(Top.freelist) + 1
          /\ DOMAIN Top.freelist = 1 .. Len(Top.freelist) /\ Len(Top.freelist) \in Nat
          /\ \A j \in 1 .. Len(Top.freelist) : Append(Top.freelist, ret[1])[j] = Top.freelist[j]
          /\ Append(Top.freelist, ret[1])[Len(Top.freelist) + 1] = ret[1]
      BY <3>1, Pushed
    <3> QED BY <3>1, <3>2
  <2>3. Len(stack) \in 1 .. Len(stack)
    BY <2>1
  <2>4. \A k \in 1 .. Len(stack) :
          /\ stack'[k].pkg = stack[k].pkg
          /\ k # Len(stack) => stack'[k].freelist = stack[k].freelist
    BY <1>0, <2>1
  <2>5. \A k \in 1 .. Len(stack') :
          /\ stack'[k].pkg \in 1 .. Len(pkgs')
          /\ \A j \in DOMAIN stack'[k].freelist :
               stack'[k].freelist[j] \in 1 .. Len(pkgs') /\ stack'[k].pkg < stack'[k].freelist[j]
    BY <1>0, <2>1, <2>2, <2>3, <2>4 DEF OrderInv
  <2>6. \A k, l \in 1 .. Len(stack') : k < l =>
          /\ stack'[k].pkg < stack'[l].pkg
          /\ \A j \in DOMAIN stack'[k].freelist : stack'[k].freelist[j] < stack'[l].pkg
    BY <1>0, <2>1, <2>4 DEF OrderInv
  <2> QED BY <2>1, <2>5, <2>6 DEF OrderInv
<1>6. CASE Develops
  <2>1. /\ Len(stack) = 0 /\ Len(stack') = 1 /\ stack'[1].pkg = ret[1]
        /\ DOMAIN stack'[1].freelist = {} /\ ret # << >> /\ ret' = << >> /\ pkgs' = pkgs
    BY <1>6, EmptySeq DEF Develops, Pushes
  <2> QED BY <1>0, <2>1 DEF OrderInv
<1>7. CASE Finishes
  <2>1. Len(stack') = 0 /\ ret' = << >>
    BY <1>7, EmptySeq DEF Finishes
  <2> QED BY <2>1 DEF OrderInv
<1> QED BY <1>1, <1>2, <1>3, <1>4, <1>5, <1>6, <1>7, Kinds

-----------------------------------------------------------------------------
(* Memory *)

LEMMA HasTop ==
  ASSUME Typed, stack # << >>, NEW o
  PROVE  Has(Len(stack), o) <=> Top.pkg = o \/ Occurs(o, Top.freelist)
BY DEF Has, Occurs, Top

\* What is on the innermost freelist is with nobody else.
LEMMA TopHasItAlone ==
  ASSUME Basis, stack # << >>, NEW o, Occurs(o, Top.freelist)
  PROVE  /\ o # Top.pkg /\ \A k \in 1 .. Len(stack) - 1 : ~Has(k, o)
         /\ ret # << >> => ret[1] # o
<1>1. Typed /\ OrderInv /\ Len(stack) \in Nat \ {0} /\ Len(stack) \in 1 .. Len(stack)
  BY TopType DEF Basis
<1>2. PICK j \in DOMAIN stack[Len(stack)].freelist : stack[Len(stack)].freelist[j] = o
  BY DEF Occurs, Top
<1>3. /\ o \in 1 .. Len(pkgs) /\ stack[Len(stack)].pkg \in 1 .. Len(pkgs) /\ stack[Len(stack)].pkg < o
      /\ Len(pkgs) \in Nat
  BY <1>1, <1>2, LenProperties DEF OrderInv, Typed
<1>4. ASSUME NEW k \in 1 .. Len(stack) - 1 PROVE ~Has(k, o)
  <2>1. k \in 1 .. Len(stack) /\ k < Len(stack)
    BY <1>1
  <2>2. /\ stack[k].pkg \in 1 .. Len(pkgs) /\ stack[k].pkg < stack[Len(stack)].pkg
        /\ \A i \in DOMAIN stack[k].freelist :
             stack[k].freelist[i] \in 1 .. Len(pkgs) /\ stack[k].freelist[i] < stack[Len(stack)].pkg
    BY <1>1, <2>1 DEF OrderInv
  <2> QED BY <1>3, <2>2 DEF Has
<1>5. ret # << >> => ret[1] \in 1 .. Len(pkgs) /\ o < ret[1]
  BY <1>1, <1>2 DEF OrderInv
<1>6. o # Top.pkg
  BY <1>3 DEF Top
<1> QED BY <1>3, <1>4, <1>5, <1>6

LEMMA StepMemory == Basis /\ MemoryInv /\ [Next]_vars => MemoryInv'
<1> SUFFICES ASSUME Basis, MemoryInv, [Next]_vars PROVE MemoryInv'
  OBVIOUS
<1>0. Typed /\ Len(pkgs) \in Nat /\ Len(stack) \in Nat
  BY LenProperties DEF Basis, Typed
<1>1. CASE Rests
  BY <1>1 DEF Rests, MemoryInv, Owned, Has, Failing
<1>2. CASE Enters
  <2>1. /\ Len(pkgs') = Len(pkgs) + 1 /\ Len(stack') = Len(stack) + 1
        /\ \A q \in 1 .. Len(pkgs) : pkgs'[q] = pkgs[q]
        /\ pkgs'[Len(pkgs) + 1].mem = "live"
        /\ \A k \in 1 .. Len(stack) : stack'[k] = stack[k]
        /\ stack'[Len(stack) + 1].pkg = Len(pkgs) + 1
        /\ DOMAIN stack'[Len(stack) + 1].freelist = {}
        /\ ret = << >> /\ ret' = << >>
    BY <1>2 DEF Enters, Builds, Pushes
  <2>2. ~Failing
    <3>1. mpc # "done"
      BY <1>2, Running DEF Enters
    <3> QED BY <2>1, <3>1 DEF Failing
  <2>3. \A o \in 1 .. Len(pkgs) : Owned(o)' <=> Owned(o)
    BY <1>0, <2>1 DEF Owned, Has
  <2>4. ASSUME NEW o, o = Len(pkgs) + 1 PROVE Owned(o)'
    <3>1. Len(stack) + 1 \in 1 .. Len(stack')
      BY <1>0, <2>1
    <3>2. stack'[Len(stack) + 1].pkg = o
      BY <2>1, <2>4
    <3> QED BY <3>1, <3>2 DEF Owned, Has
  <2>5. ASSUME NEW o \in 1 .. Len(pkgs')
        PROVE  /\ pkgs'[o].mem # "freed_twice"
               /\ Owned(o)' => pkgs'[o].mem = "live"
               /\ pkgs'[o].mem = "live" => Owned(o)'
    <3>1. CASE o \in 1 .. Len(pkgs)
      BY <2>1, <2>2, <2>3, <3>1 DEF MemoryInv
    <3>2. CASE o = Len(pkgs) + 1
      BY <2>1, <2>4, <3>2
    <3> QED BY <1>0, <2>1, <3>1, <3>2
  <2> QED BY <2>5 DEF MemoryInv
<1>3. CASE Moves
  <2>1. /\ stack # << >> /\ Len(stack) \in Nat \ {0} /\ Len(stack') = Len(stack)
        /\ \A k \in 1 .. Len(stack) - 1 : stack'[k] = stack[k]
        /\ stack'[Len(stack)].pkg = Top.pkg /\ DOMAIN stack'[Len(stack)].freelist = {}
        /\ ret = << >> /\ ret' = << >> /\ Frees(Top.freelist)
    BY <1>3 DEF Moves, Advances, Goes, Below
  <2>2. ~Failing
    BY <2>1, Running DEF Failing
  <2>3. ASSUME NEW o \in 1 .. Len(pkgs) PROVE Owned(o)' <=> Owned(o) /\ ~Occurs(o, Top.freelist)
    <3>1. Owned(o) <=> (\E k \in 1 .. Len(stack) - 1 : Has(k, o)) \/ Has(Len(stack), o)
      BY <2>1 DEF Owned
    <3>2. Owned(o)' <=> (\E k \in 1 .. Len(stack) - 1 : Has(k, o)) \/ Top.pkg = o
      BY <2>1 DEF Owned, Has
    <3> QED BY <1>0, <2>1, <3>1, <3>2, HasTop, TopHasItAlone
  <2>4. \A o \in 1 .. Len(pkgs) : Occurs(o, Top.freelist) => Owned(o)
    BY <1>0, <2>1, HasTop, IndexOfLast DEF Owned
  <2> QED BY <2>1, <2>2, <2>3, <2>4 DEF MemoryInv, Frees, SamePkgs, FreeOf
<1>4. CASE Leaves
  <2>1. PICK v \in Results : Returns(v) /\ Frees(Top.freelist) /\ (ret # << >> => ret[2] = -1 /\ v = -1)
    BY <1>4 DEF Leaves
  <2>2. /\ stack # << >> /\ Len(stack) \in Nat \ {0} /\ Len(stack') = Len(stack) - 1
        /\ \A k \in 1 .. Len(stack) - 1 : stack'[k] = stack[k]
        /\ ret' # << >> /\ ret'[1] = Top.pkg /\ ret'[2] = v
    BY <2>1 DEF Returns, Pops, Below
  <2>3. Failing <=> ret # << >>
    BY <2>1, <2>2, Running DEF Failing
  <2>4. ret # << >> => Failing'
    BY <2>1, <2>2 DEF Failing
  <2>5. ASSUME NEW o \in 1 .. Len(pkgs)
        PROVE  /\ Owned(o)' => Owned(o) /\ ~Occurs(o, Top.freelist)
               /\ Owned(o) /\ ~Occurs(o, Top.freelist) => Owned(o)' \/ (ret # << >> /\ ret[1] = o)
    <3>1. Owned(o) <=> \/ \E k \in 1 .. Len(stack) - 1 : Has(k, o)
                       \/ Has(Len(stack), o)
                       \/ ret # << >> /\ ret[1] = o
      BY <2>2 DEF Owned
    <3>2. Owned(o)' <=> (\E k \in 1 .. Len(stack) - 1 : Has(k, o)) \/ Top.pkg = o
      BY <2>2 DEF Owned, Has
    <3> QED BY <1>0, <2>2, <3>1, <3>2, HasTop, TopHasItAlone
  <2>6. \A o \in 1 .. Len(pkgs) : Occurs(o, Top.freelist) => Owned(o)
    BY <1>0, <2>2, HasTop, IndexOfLast DEF Owned
  <2> QED BY <2>1, <2>3, <2>4, <2>5, <2>6 DEF MemoryInv, Frees, SamePkgs, FreeOf
<1>5. CASE Collects
  <2>1. /\ stack # << >> /\ Len(stack) \in Nat \ {0} /\ Len(stack') = Len(stack) /\ pkgs' = pkgs
        /\ \A k \in 1 .. Len(stack) - 1 : stack'[k] = stack[k]
        /\ stack'[Len(stack)].pkg = Top.pkg
        /\ Top.freelist \in Seq(Nat) /\ ret[1] \in Nat
        /\ stack'[Len(stack)].freelist = Append(Top.freelist, ret[1])
        /\ ret # << >> /\ ret[2] # -1 /\ ret' = << >>
    BY <1>5 DEF Collects, Below
  <2>2. ~Failing
    BY <2>1, Running DEF Failing
  <2>3. \A o : Occurs(o, stack'[Len(stack)].freelist) <=> Occurs(o, Top.freelist) \/ o = ret[1]
    <3>1. /\ DOMAIN Append(Top.freelist, ret[1]) = 1 .. Len(Top.freelist) + 1
          /\ DOMAIN Top.freelist = 1 .. Len(Top.freelist) /\ Len(Top.freelist) \in Nat
          /\ \A j \in 1 .. Len(Top.freelist) : Append(Top.freelist, ret[1])[j] = Top.freelist[j]
          /\ Append(Top.freelist, ret[1])[Len(Top.freelist) + 1] = ret[1]
      BY <2>1, Pushed
    <3> HIDE DEF Top
    <3> QED BY <2>1, <3>1 DEF Occurs
  <2>4. ASSUME NEW o \in 1 .. Len(pkgs) PROVE Owned(o)' <=> Owned(o)
    <3>1. Owned(o) <=> \/ \E k \in 1 .. Len(stack) - 1 : Has(k, o)
                       \/ Has(Len(stack), o)
                       \/ ret[1] = o
      BY <2>1 DEF Owned
    <3>2. Owned(o)' <=> \/ \E k \in 1 .. Len(stack) - 1 : Has(k, o)
                        \/ Top.pkg = o \/ Occurs(o, stack'[Len(stack)].freelist)
      <4>1. \A k \in 1 .. Len(stack) - 1 : (stack'[k].pkg = o
              \/ \E j \in DOMAIN stack'[k].freelist : stack'[k].freelist[j] = o) <=> Has(k, o)
        BY <2>1 DEF Has
      <4>2. (stack'[Len(stack)].pkg = o \/ \E j \in DOMAIN stack'[Len(stack)].freelist :
               stack'[Len(stack)].freelist[j] = o)
            <=> Top.pkg = o \/ Occurs(o, stack'[Len(stack)].freelist)
        BY <2>1 DEF Occurs
      <4>3. Owned(o)' <=> \E k \in 1 .. Len(stack) : stack'[k].pkg = o
              \/ \E j \in DOMAIN stack'[k].freelist : stack'[k].freelist[j] = o
        BY <2>1 DEF Owned, Has
      <4>4. \A k \in 1 .. Len(stack) : k \in 1 .. Len(stack) - 1 \/ k = Len(stack)
        BY <2>1
      <4>5. Len(stack) \in 1 .. Len(stack) /\ \A k \in 1 .. Len(stack) - 1 : k \in 1 .. Len(stack)
        BY <2>1
      <4> HIDE DEF Top
      <4> QED BY <4>1, <4>2, <4>3, <4>4, <4>5
    <3> QED BY <1>0, <2>1, <2>3, <3>1, <3>2, HasTop
  <2> QED BY <2>1, <2>2, <2>4 DEF MemoryInv
<1>6. CASE Develops
  <2>1. /\ Len(stack) = 0 /\ Len(stack') = 1 /\ stack'[1].pkg = ret[1]
        /\ DOMAIN stack'[1].freelist = {} /\ ret # << >> /\ ret[2] = 0 /\ ret' = << >> /\ pkgs' = pkgs
    BY <1>6, EmptySeq DEF Develops, Pushes
  <2>2. ~Failing
    BY <2>1, Running DEF Failing
  <2>3. \A o \in 1 .. Len(pkgs) : Owned(o)' <=> Owned(o)
    BY <2>1 DEF Owned, Has
  <2> QED BY <2>1, <2>2, <2>3 DEF MemoryInv
<1>7. CASE Finishes
  <2>1. /\ Len(stack) = 0 /\ Len(stack') = 0 /\ ret # << >> /\ ret' = << >> /\ code' = ret[2]
        /\ mpc # "done" /\ mpc' = "done" /\ Frees(<<ret[1]>>)
    BY <1>7, EmptySeq DEF Finishes
  <2>2. Failing' <=> Failing
    BY <2>1 DEF Failing
  <2>3. \A o \in 1 .. Len(pkgs) : ~Owned(o)' /\ (Owned(o) <=> Occurs(o, <<ret[1]>>))
    BY <2>1 DEF Owned, Occurs
  <2> QED BY <2>1, <2>2, <2>3 DEF MemoryInv, Frees, SamePkgs, FreeOf
<1> QED BY <1>1, <1>2, <1>3, <1>4, <1>5, <1>6, <1>7, Kinds

-----------------------------------------------------------------------------
(* Visits *)

LEMMA SamePackages ==
  ASSUME SamePkgs, NEW q \in 1 .. Len(pkgs)
  PROVE  Package(q)' = Package(q)
BY DEF SamePkgs, Package

LEMMA BegunShape ==
  ASSUME NEW end, SetsEnd(end), NEW q \in 1 .. Len(pkgs)
  PROVE  Begun(q)' <=> IF q = Top.pkg /\ Top.pc # "development" THEN end \notin {"none", "skipped"}
                                                             ELSE Begun(q)
BY DEF SetsEnd, Begun

LEMMA BegunSame ==
  ASSUME \A q \in 1 .. Len(pkgs) : pkgs'[q].end = pkgs[q].end, NEW q \in 1 .. Len(pkgs)
  PROVE  Begun(q)' <=> Begun(q)
BY DEF Begun

\* The calls below the innermost one have other packages, and are in install_packages().
LEMMA BelowTop ==
  ASSUME Basis, stack # << >>, NEW k \in 1 .. Len(stack) - 1
  PROVE  /\ k \in 1 .. Len(stack) /\ stack[k].pkg \in 1 .. Len(pkgs) /\ stack[k].pkg # Top.pkg
         /\ stack[k].pc \in Loops /\ stack[k].pc \notin {"visit", "prepare"}
<1>1. Typed /\ OrderInv /\ ControlInv /\ Len(stack) \in Nat \ {0} /\ Len(stack) \in 1 .. Len(stack)
  BY TopType DEF Basis
<1>2. k \in 1 .. Len(stack) /\ k < Len(stack)
  BY <1>1
<1>3. Len(pkgs) \in Nat /\ Top.pkg \in 1 .. Len(pkgs) /\ stack[k].pkg \in 1 .. Len(pkgs)
      /\ stack[k].pkg < Top.pkg
  BY <1>1, <1>2, LenProperties DEF OrderInv, Typed, Top
<1>4. stack[k].pc \in Loops
  BY <1>1 DEF ControlInv
<1> QED BY <1>2, <1>3, <1>4 DEF Loops

LEMMA StepVisit == Basis /\ VisitInv /\ [Next]_vars => VisitInv'
<1> SUFFICES ASSUME Basis, VisitInv, [Next]_vars PROVE VisitInv'
  OBVIOUS
<1>0. Typed /\ ControlInv /\ OrderInv /\ Len(pkgs) \in Nat /\ Len(stack) \in Nat
  BY LenProperties DEF Basis, Typed
<1>1. CASE Rests
  BY <1>1 DEF Rests, VisitInv, Begun, Package, Failing
<1>2. CASE Enters
  <2>1. /\ Len(pkgs') = Len(pkgs) + 1 /\ Len(stack') = Len(stack) + 1
        /\ \A q \in 1 .. Len(pkgs) : pkgs'[q] = pkgs[q]
        /\ pkgs'[Len(pkgs) + 1].end = "none"
        /\ \A k \in 1 .. Len(stack) : stack'[k] = stack[k]
        /\ stack'[Len(stack) + 1].pkg = Len(pkgs) + 1 /\ stack'[Len(stack) + 1].pc = "visit"
        /\ ret = << >> /\ ret' = << >> /\ visited' = visited /\ stack' # << >> /\ force' = force
    BY <1>2 DEF Enters, Builds, Pushes
  <2>2. ~Failing
    <3>1. mpc # "done"
      BY <1>2, Running DEF Enters
    <3> QED BY <2>1, <3>1 DEF Failing
  <2>3. \A q \in 1 .. Len(pkgs) : (Begun(q)' <=> Begun(q)) /\ Package(q)' = Package(q)
    BY <2>1 DEF Begun, Package
  <2>4. \A o \in 1 .. Len(pkgs') : Begun(o)' => Package(o)'.name \in visited'
    <3> TAKE o \in 1 .. Len(pkgs')
    <3>1. CASE o \in 1 .. Len(pkgs)
      BY <2>1, <2>2, <2>3, <3>1 DEF VisitInv
    <3>2. CASE o = Len(pkgs) + 1
      BY <2>1, <3>2 DEF Begun
    <3> QED BY <1>0, <2>1, <3>1, <3>2
  <2>5. ASSUME NEW k \in 1 .. Len(stack')
        PROVE  /\ IF stack'[k].pc \in {"visit", "prepare"} THEN pkgs'[stack'[k].pkg].end = "none"
                                                           ELSE pkgs'[stack'[k].pkg].end \notin {"none", "skipped"}
               /\ stack'[k].pc = "prepare" /\ ~force' => pkgs'[stack'[k].pkg].of.name \notin visited'
    <3>1. CASE k \in 1 .. Len(stack)
      <4>1. stack'[k] = stack[k] /\ stack[k].pkg \in 1 .. Len(pkgs)
        BY <1>0, <2>1, <3>1 DEF OrderInv
      <4>2. pkgs'[stack[k].pkg] = pkgs[stack[k].pkg]
        BY <2>1, <4>1
      <4> QED BY <2>1, <3>1, <4>1, <4>2 DEF VisitInv, Begun, Package
    <3>2. CASE k = Len(stack) + 1
      BY <2>1, <3>2
    <3> QED BY <1>0, <2>1, <3>1, <3>2
  <2>6. stack'[1].pc = "visit" => visited' = {}
    <3>1. CASE stack = << >>
      BY <1>0, <1>2, <2>1, <3>1 DEF Enters, ControlInv
    <3>2. CASE stack # << >>
      <4>1. 1 \in 1 .. Len(stack)
        BY <1>0, <3>2, EmptySeq DEF Typed
      <4> QED BY <2>1, <3>2, <4>1 DEF VisitInv
    <3> QED BY <3>1, <3>2
  <2> QED BY <2>1, <2>4, <2>5, <2>6 DEF VisitInv, Begun, Package
<1>3. CASE Moves
  <2>1. PICK to \in Pcs :
          /\ Advances(to) /\ Frees(Top.freelist)
          /\ \/ /\ Top.pc # "prepare" /\ visited' = visited
                /\ \A q \in 1 .. Len(pkgs) : pkgs'[q].end = pkgs[q].end
                /\ IF Top.pc = "visit" THEN to = "prepare" /\ (force \/ Package(Top.pkg).name \notin visited)
                                       ELSE to \notin {"visit", "prepare"}
             \/ /\ Top.pc = "prepare" /\ to = "sources" /\ SetsEnd("begun")
                /\ visited' = visited \cup {Package(Top.pkg).name}
    BY <1>3 DEF Moves
  <2>2. /\ stack # << >> /\ Len(stack) \in Nat \ {0} /\ Len(stack') = Len(stack)
        /\ \A k \in 1 .. Len(stack) - 1 : stack'[k] = stack[k]
        /\ stack'[Len(stack)].pkg = Top.pkg /\ stack'[Len(stack)].pc = to
        /\ ret = << >> /\ ret' = << >> /\ force' = force /\ stack' # << >> /\ SamePkgs
    BY <2>1 DEF Advances, Goes, Below, Frees
  <2>3. ~Failing /\ Len(pkgs') = Len(pkgs) /\ Top.pkg \in 1 .. Len(pkgs)
    BY <1>0, <2>2, Running, TopPkg DEF Failing, SamePkgs
  <2>4. /\ IF Top.pc \in {"visit", "prepare"} THEN pkgs[Top.pkg].end = "none" ELSE Begun(Top.pkg)
        /\ Top.pc = "prepare" /\ ~force => Package(Top.pkg).name \notin visited
    BY <2>2, IndexOfLast, TopIsLast DEF VisitInv
  <2>5. \A k \in 1 .. Len(stack) - 1 :
          /\ stack[k].pkg \in 1 .. Len(pkgs) /\ stack[k].pkg # Top.pkg
          /\ stack[k].pc \notin {"visit", "prepare"} /\ Begun(stack[k].pkg)
    BY <2>2, BelowTop DEF VisitInv
  <2>6. \A q \in 1 .. Len(pkgs) : /\ pkgs'[q].of = pkgs[q].of /\ (Begun(q) => pkgs[q].of.name \in visited)
                                  /\ q # Top.pkg => pkgs'[q].end = pkgs[q].end
    BY <2>1, <2>2, <2>3 DEF VisitInv, SetsEnd, SamePkgs, Package
  <2>7. \A o \in 1 .. Len(pkgs') : Begun(o)' => Package(o)'.name \in visited'
    <3> TAKE o \in 1 .. Len(pkgs')
    <3>1. visited \subseteq visited' /\ o \in 1 .. Len(pkgs)
      BY <2>1, <2>3
    <3>2. CASE o # Top.pkg \/ Top.pc # "prepare"
      <4>1. pkgs'[o].end = pkgs[o].end
        BY <2>1, <2>6, <3>1, <3>2
      <4> QED BY <2>6, <3>1, <4>1 DEF Begun, Package
    <3>3. CASE o = Top.pkg /\ Top.pc = "prepare"
      <4>1. pkgs[o].of.name \in visited'
        BY <2>1, <3>3 DEF Package
      <4> QED BY <2>6, <3>1, <4>1 DEF Package
    <3> QED BY <3>2, <3>3
  <2>8. ASSUME NEW k \in 1 .. Len(stack')
        PROVE  /\ IF stack'[k].pc \in {"visit", "prepare"} THEN pkgs'[stack'[k].pkg].end = "none"
                                                           ELSE pkgs'[stack'[k].pkg].end \notin {"none", "skipped"}
               /\ stack'[k].pc = "prepare" /\ ~force' => pkgs'[stack'[k].pkg].of.name \notin visited'
    <3>1. CASE k \in 1 .. Len(stack) - 1
      <4>1. /\ stack'[k] = stack[k] /\ stack[k].pc \notin {"visit", "prepare"}
            /\ pkgs'[stack[k].pkg].end = pkgs[stack[k].pkg].end
            /\ pkgs[stack[k].pkg].end \notin {"none", "skipped"}
        BY <2>2, <2>5, <2>6, <3>1 DEF Begun
      <4> QED BY <4>1
    <3>2. CASE k = Len(stack)
      <4>1. CASE Top.pc = "prepare"
        <5>1. Top.pc # "development" /\ to = "sources" /\ SetsEnd("begun")
          BY <2>1, <4>1
        <5>2. pkgs'[Top.pkg].end = "begun"
          BY <2>3, <5>1 DEF SetsEnd
        <5> QED BY <2>2, <3>2, <5>1, <5>2 DEF Begun
      <4>2. CASE Top.pc = "visit"
        <5>1. /\ to = "prepare" /\ (force \/ pkgs[Top.pkg].of.name \notin visited)
              /\ visited' = visited /\ pkgs'[Top.pkg].end = "none"
          BY <2>1, <2>3, <2>4, <4>2 DEF Package
        <5> QED BY <2>2, <2>3, <2>6, <3>2, <5>1
      <4>3. CASE Top.pc \notin {"visit", "prepare"}
        BY <2>1, <2>2, <2>3, <2>4, <2>6, <3>2, <4>3 DEF Begun
      <4> QED BY <4>1, <4>2, <4>3
    <3> QED BY <2>2, <3>1, <3>2
  <2>9. stack'[1].pc # "visit"
    <3>1. CASE Len(stack) = 1
      BY <2>1, <2>2, <3>1
    <3>2. CASE Len(stack) # 1
      <4>1. 1 \in 1 .. Len(stack) - 1
        BY <2>2, <3>2
      <4> QED BY <2>2, <2>5, <4>1
    <3> QED BY <3>1, <3>2
  <2> QED BY <2>2, <2>7, <2>8, <2>9 DEF VisitInv, Begun, Package
<1>4. CASE Leaves
  <2>1. PICK v \in Results :
          /\ Returns(v) /\ Frees(Top.freelist) /\ (ret # << >> => ret[2] = -1 /\ v = -1)
          /\ \/ /\ Top.pc = "visit" /\ ret = << >> /\ v = 0 /\ ~force /\ Package(Top.pkg).name \in visited
                /\ SetsEnd("skipped")
             \/ /\ Top.pc = "prepare" /\ ret = << >> /\ v = -1
                /\ SetsEnd("error")
             \/ /\ Top.pc \notin {"visit", "prepare"}
                /\ \E end \in {"ok", "error", "failed"} : SetsEnd(end)
    BY <1>4 DEF Leaves
  <2>2. /\ stack # << >> /\ Len(stack) \in Nat \ {0} /\ Len(stack') = Len(stack) - 1
        /\ \A k \in 1 .. Len(stack) - 1 : stack'[k] = stack[k]
        /\ ret' # << >> /\ ret'[1] = Top.pkg /\ ret'[2] = v /\ force' = force /\ visited' = visited
        /\ (stack' = << >> <=> Len(stack) = 1) /\ SamePkgs
    BY <2>1 DEF Returns, Pops, Below, Frees
  <2>3. /\ Failing <=> ret # << >>
        /\ Failing => Failing'
        /\ Len(pkgs') = Len(pkgs) /\ Top.pkg \in 1 .. Len(pkgs)
    BY <1>0, <2>1, <2>2, Running, TopPkg DEF Failing, SamePkgs
  <2>4. /\ IF Top.pc \in {"visit", "prepare"} THEN pkgs[Top.pkg].end = "none" ELSE Begun(Top.pkg)
        /\ stack[1].pc = "visit" => visited = {}
    BY <2>2, IndexOfLast, TopIsLast DEF VisitInv
  <2>5. \A k \in 1 .. Len(stack) - 1 :
          /\ stack[k].pkg \in 1 .. Len(pkgs) /\ stack[k].pkg # Top.pkg
          /\ stack[k].pc \notin {"visit", "prepare"} /\ Begun(stack[k].pkg)
    BY <2>2, BelowTop DEF VisitInv
  <2>6. \A q \in 1 .. Len(pkgs) : /\ pkgs'[q].of = pkgs[q].of
                                  /\ q # Top.pkg => pkgs'[q].end = pkgs[q].end
    BY <2>1, <2>2, <2>3 DEF SetsEnd, SamePkgs
  <2>7. pkgs'[Top.pkg].end \notin {"none", "skipped"} =>
          Begun(Top.pkg) \/ (Top.pc = "prepare" /\ Failing')
    <3>1. CASE Top.pc = "visit"
      <4>1. SetsEnd("skipped")
        BY <2>1, <3>1
      <4>2. pkgs'[Top.pkg].end = "skipped"
        BY <2>3, <3>1, <4>1 DEF SetsEnd
      <4> QED BY <4>2 DEF Begun
    <3>2. CASE Top.pc = "prepare"
      BY <2>1, <2>2, <3>2 DEF Failing
    <3>3. CASE Top.pc \notin {"visit", "prepare"}
      BY <2>4, <3>3
    <3> QED BY <3>1, <3>2, <3>3
  <2>8. \A o \in 1 .. Len(pkgs') : Begun(o)' => Package(o)'.name \in visited' \/ Failing'
    <3> TAKE o \in 1 .. Len(pkgs')
    <3>1. o \in 1 .. Len(pkgs) /\ Package(o)'.name = Package(o).name
      BY <2>3, <2>6 DEF Package
    <3>2. Begun(o)' => Begun(o) \/ Failing'
      <4>1. CASE o = Top.pkg
        BY <2>7, <4>1 DEF Begun
      <4>2. CASE o # Top.pkg
        BY <2>6, <3>1, <4>2 DEF Begun
      <4> QED BY <4>1, <4>2
    <3> QED BY <2>2, <2>3, <3>1, <3>2 DEF VisitInv
  <2>9. \A k \in 1 .. Len(stack') :
          stack'[k].pc \notin {"visit", "prepare"} /\ pkgs'[stack'[k].pkg].end \notin {"none", "skipped"}
    <3> TAKE k \in 1 .. Len(stack')
    <3>1. k \in 1 .. Len(stack) - 1
      BY <2>2
    <3>2. /\ stack'[k] = stack[k] /\ stack[k].pc \notin {"visit", "prepare"}
          /\ pkgs'[stack[k].pkg].end = pkgs[stack[k].pkg].end
          /\ pkgs[stack[k].pkg].end \notin {"none", "skipped"}
      BY <2>2, <2>5, <2>6, <3>1 DEF Begun
    <3> QED BY <3>2
  <2>10. stack' # << >> => stack'[1].pc # "visit"
    <3>1. stack' # << >> => 1 \in 1 .. Len(stack')
      BY <2>2
    <3> QED BY <2>9, <3>1
  <2>11. stack' = << >> => pkgs'[ret'[1]].end \notin {"none", "skipped"}
    <3> SUFFICES ASSUME stack' = << >> PROVE pkgs'[Top.pkg].end \notin {"none", "skipped"}
      BY <2>2
    <3>1. Len(stack) = 1 /\ Top = stack[1]
      BY <2>2, TopIsLast
    <3>2. CASE Top.pc = "visit"
      BY <2>1, <2>4, <3>1, <3>2
    <3>3. CASE Top.pc = "prepare"
      <4>1. SetsEnd("error")
        BY <2>1, <3>3
      <4>2. pkgs'[Top.pkg].end = "error"
        BY <2>3, <3>3, <4>1 DEF SetsEnd
      <4> QED BY <4>2 DEF Begun
    <3>4. CASE Top.pc \notin {"visit", "prepare"}
      <4>1. PICK end \in {"ok", "error", "failed"} : SetsEnd(end)
        BY <2>1, <3>4
      <4> QED BY <2>3, <2>4, <3>4, <4>1 DEF SetsEnd, Begun
    <3> QED BY <3>2, <3>3, <3>4
  <2> QED BY <2>2, <2>8, <2>9, <2>10, <2>11 DEF VisitInv, Begun, Package
<1>5. CASE Collects
  <2>1. /\ stack # << >> /\ Len(stack) \in Nat \ {0} /\ Len(stack') = Len(stack) /\ pkgs' = pkgs
        /\ \A k \in 1 .. Len(stack) - 1 : stack'[k] = stack[k]
        /\ stack'[Len(stack)].pkg = stack[Len(stack)].pkg /\ stack'[Len(stack)].pc = stack[Len(stack)].pc
        /\ ret # << >> /\ ret[2] # -1 /\ ret' = << >>
        /\ visited' = visited /\ force' = force /\ stack' # << >>
    BY <1>5 DEF Collects, Below, Top
  <2>2. ~Failing
    BY <2>1, Running DEF Failing
  <2>3. \A k \in 1 .. Len(stack) : stack'[k].pkg = stack[k].pkg /\ stack'[k].pc = stack[k].pc
    BY <2>1
  <2>4. \A q : (Begun(q)' <=> Begun(q)) /\ Package(q)' = Package(q)
    BY <2>1 DEF Begun, Package
  <2>5. 1 \in 1 .. Len(stack)
    BY <2>1
  <2> QED BY <2>1, <2>2, <2>3, <2>4, <2>5 DEF VisitInv, Begun, Package
<1>6. CASE Develops
  <2>1. /\ Len(stack) = 0 /\ Len(stack') = 1 /\ stack'[1].pkg = ret[1]
        /\ stack'[1].pc = "development" /\ stack = << >> /\ stack' # << >>
        /\ ret # << >> /\ ret[2] = 0 /\ ret' = << >> /\ pkgs' = pkgs
        /\ visited' = visited /\ force' = force
    BY <1>6, EmptySeq DEF Develops, Pushes
  <2>2. ~Failing
    BY <2>1, Running DEF Failing
  <2> QED BY <2>1, <2>2 DEF VisitInv, Begun, Package
<1>7. CASE Finishes
  <2>1. /\ Len(stack') = 0 /\ stack' = << >> /\ ret # << >> /\ ret' = << >> /\ code' = ret[2]
        /\ mpc # "done" /\ mpc' = "done" /\ SamePkgs /\ Len(pkgs') = Len(pkgs) /\ visited' = visited
        /\ \A q \in 1 .. Len(pkgs) : pkgs'[q].end = pkgs[q].end
    BY <1>7, EmptySeq DEF Finishes, Frees, SamePkgs
  <2>2. Failing' <=> Failing
    BY <2>1 DEF Failing
  <2>3. \A q \in 1 .. Len(pkgs) : (Begun(q)' <=> Begun(q)) /\ Package(q)' = Package(q)
    BY <2>1, BegunSame, SamePackages
  <2> QED BY <2>1, <2>2, <2>3 DEF VisitInv
<1> QED BY <1>1, <1>2, <1>3, <1>4, <1>5, <1>6, <1>7, Kinds

LEMMA StepOnce == Basis /\ VisitInv /\ OnceInv /\ [Next]_vars => OnceInv'
<1> SUFFICES ASSUME Basis, VisitInv, OnceInv, [Next]_vars, ~force' PROVE OnceInv'
  BY DEF OnceInv
<1>0. Typed /\ OrderInv /\ Len(pkgs) \in Nat
  BY LenProperties DEF Basis, Typed
\* Nothing begins, ...
<1>1. ASSUME force' = force, Len(pkgs') = Len(pkgs),
             \A q \in 1 .. Len(pkgs) : (Begun(q)' => Begun(q)) /\ Package(q)' = Package(q)
      PROVE  OnceInv'
  BY <1>1 DEF OnceInv
\* ... or the package of the innermost call does, which is not visited.
<1>2. ASSUME force' = force, Len(pkgs') = Len(pkgs), ~Failing, stack # << >>, Top.pc = "prepare",
             \A q \in 1 .. Len(pkgs) :
               (Begun(q)' => Begun(q) \/ q = Top.pkg) /\ Package(q)' = Package(q)
      PROVE  OnceInv'
  <2>1. Package(Top.pkg).name \notin visited
    <3>1. Len(stack) \in 1 .. Len(stack)
      BY <1>0, <1>2, TopType
    <3> QED BY <1>2, <3>1, TopIsLast DEF VisitInv
  <2>2. \A q \in 1 .. Len(pkgs) : Begun(q) => Package(q).name \in visited
    BY <1>2 DEF VisitInv
  <2> QED BY <1>2, <2>1, <2>2 DEF OnceInv
<1>3. CASE Rests
  BY <1>1, <1>3 DEF Rests, Begun, Package
<1>4. CASE Enters
  <2>1. /\ Len(pkgs') = Len(pkgs) + 1 /\ force' = force
        /\ \A q \in 1 .. Len(pkgs) : pkgs'[q] = pkgs[q]
        /\ pkgs'[Len(pkgs) + 1].end = "none"
    BY <1>4 DEF Enters, Builds
  <2>2. \A q \in 1 .. Len(pkgs') : Begun(q)' => q \in 1 .. Len(pkgs)
    BY <1>0, <2>1 DEF Begun
  <2> QED BY <2>1, <2>2 DEF OnceInv, Begun, Package
<1>5. CASE Moves
  <2>1. /\ stack # << >> /\ ret = << >> /\ force' = force /\ SamePkgs /\ Len(pkgs') = Len(pkgs)
    BY <1>5 DEF Moves, Advances, Goes, Frees, SamePkgs
  <2>2. ~Failing
    BY <2>1, Running DEF Failing
  <2>3. CASE \A q \in 1 .. Len(pkgs) : pkgs'[q].end = pkgs[q].end
    BY <1>1, <2>1, <2>3, BegunSame, SamePackages
  <2>4. CASE Top.pc = "prepare" /\ SetsEnd("begun")
    BY <1>2, <2>1, <2>2, <2>4, BegunShape, SamePackages
  <2> QED BY <1>5, <2>3, <2>4 DEF Moves
<1>6. CASE Leaves
  <2>1. stack # << >> /\ force' = force /\ SamePkgs /\ Len(pkgs') = Len(pkgs)
    BY <1>6 DEF Leaves, Returns, Pops, Frees, SamePkgs
  <2>2. CASE SetsEnd("skipped")
    BY <1>1, <2>1, <2>2, BegunShape, SamePackages
  <2>3. CASE Top.pc = "prepare" /\ ret = << >> /\ SetsEnd("error")
    <3>1. ~Failing
      BY <2>1, <2>3, Running DEF Failing
    <3> QED BY <1>2, <2>1, <2>3, <3>1, BegunShape, SamePackages
  <2>4. CASE Top.pc \notin {"visit", "prepare"} /\ \E end \in {"ok", "error", "failed"} : SetsEnd(end)
    <3>1. PICK end \in {"ok", "error", "failed"} : SetsEnd(end)
      BY <2>4
    <3>2. Begun(Top.pkg)
      <4>1. Len(stack) \in 1 .. Len(stack)
        BY <1>0, <2>1, TopType
      <4> QED BY <2>4, <4>1, TopIsLast DEF VisitInv
    <3> QED BY <1>1, <2>1, <3>1, <3>2, BegunShape, SamePackages
  <2> QED BY <1>6, <2>2, <2>3, <2>4 DEF Leaves
<1>7. CASE Collects
  BY <1>1, <1>7 DEF Collects, Begun, Package
<1>8. CASE Develops
  BY <1>1, <1>8 DEF Develops, Begun, Package
<1>9. CASE Finishes
  <2>1. /\ force' = force /\ SamePkgs /\ Len(pkgs') = Len(pkgs)
        /\ \A q \in 1 .. Len(pkgs) : pkgs'[q].end = pkgs[q].end
    BY <1>9 DEF Finishes, Frees, SamePkgs
  <2> QED BY <1>1, <2>1, BegunSame, SamePackages
<1> QED BY <1>3, <1>4, <1>5, <1>6, <1>7, <1>8, <1>9, Kinds

-----------------------------------------------------------------------------
(* Theorems *)

IInv == Basis /\ MemoryInv /\ VisitInv /\ OnceInv

LEMMA InitInv == Init => IInv
<1> SUFFICES ASSUME Init PROVE IInv
  OBVIOUS
<1>1. /\ server \in [Slugs -> Manifests] /\ skip_cache \in BOOLEAN /\ force \in BOOLEAN
      /\ mpc = "start" /\ code = 0 /\ stack = << >> /\ ret = << >> /\ visited = {} /\ pkgs = << >>
      /\ developed = FALSE
  BY TreeAssumption DEF Init
<1>2. LoadTyped /\ LoadInv /\ lpc = "idle"
  <2>1. /\ jsons = << >> /\ mutex = FALSE /\ lpc = "idle" /\ slug = Root /\ file = 1 /\ retries = 3
        /\ res = "none" /\ manifest = server[Root]
    BY DEF Init, LoadInit, Retries
  <2>2. manifest \in Manifests /\ slug \in Slugs
    BY <1>1, <2>1, TreeAssumption
  <2>3. DOMAIN jsons \subseteq Keys /\ \A k \in DOMAIN jsons : jsons[k] \in Manifests
    <3>1. DOMAIN jsons = {}
      BY <2>1
    <3> QED BY <3>1
  <2>4. file \in 1 .. 2 /\ retries \in -1 .. 3
    BY <2>1
  <2>5. LoadTyped
    <3>1. mutex \in BOOLEAN /\ lpc = "idle" /\ res = "none"
      BY <2>1, Zenon
    <3> QED BY <1>1, <2>2, <2>3, <2>4, <3>1, Zenon DEF LoadTyped
  <2> QED BY <2>1, <2>5 DEF LoadInv
<1>3. Typed
  <2>1. pkgs \in Seq(Objects) /\ stack \in Seq(Calls) /\ code \in Results
    BY <1>1, EmptySeq DEF Results
  <2> QED BY <1>1, <1>2, <2>1 DEF Typed
<1>4. Len(stack) = 0 /\ Len(pkgs) = 0
  BY <1>1, EmptySeq
<1>5. ControlInv /\ OrderInv /\ MemoryInv /\ VisitInv /\ OnceInv
  BY <1>1, <1>2, <1>4 DEF ControlInv, OrderInv, MemoryInv, VisitInv, OnceInv
<1> QED BY <1>2, <1>3, <1>5 DEF IInv, Basis

LEMMA Inductive == Spec => []IInv
<1>1. IInv /\ [Next]_vars => IInv'
  BY Kinds, StepControl, StepOrder, StepMemory, StepVisit, StepOnce DEF IInv, Basis
<1> QED BY InitInv, <1>1, PTL DEF Spec

LEMMA FrameTyped ==
  ASSUME Basis, NEW k \in 1 .. Len(stack)
  PROVE  stack[k] \in Frames
<1>1. Typed /\ OrderInv /\ DOMAIN pkgs = 1 .. Len(pkgs)
  BY LenProperties DEF Basis, Typed
<1>2. stack[k].pkg \in DOMAIN pkgs
  BY <1>1 DEF OrderInv
<1>3. stack[k].freelist \in Seq(DOMAIN pkgs)
  <2>1. /\ stack[k].freelist \in [1 .. Len(stack[k].freelist) -> Nat]
        /\ DOMAIN stack[k].freelist = 1 .. Len(stack[k].freelist)
        /\ Len(stack[k].freelist) \in Nat
    BY <1>1, FrameType, LenProperties
  <2>2. \A j \in DOMAIN stack[k].freelist : stack[k].freelist[j] \in DOMAIN pkgs
    BY <1>1 DEF OrderInv
  <2>3. stack[k].freelist \in [1 .. Len(stack[k].freelist) -> DOMAIN pkgs]
    BY <2>1, <2>2
  <2> QED BY <2>1, <2>3, SeqDef
<1>4. stack[k] \in Calls
  BY <1>1, FrameType
<1>5. stack[k].next \in Nat
  BY <1>4 DEF Calls
<1> QED BY <1>2, <1>3, <1>4, <1>5 DEF Calls, Frames, Pcs, Loops

\* The types hold in every run, whatever the repositories hold: in particular no
\* call, freelist or result names a package that was not built.
THEOREM TypeCorrect == Spec => []TypeOK
<1>1. IInv => TypeOK
  <2> SUFFICES ASSUME IInv PROVE TypeOK
    OBVIOUS
  <2>1. Basis /\ Typed /\ LoadTyped /\ OrderInv /\ DOMAIN pkgs = 1 .. Len(pkgs)
    BY LenProperties DEF IInv, Basis, Typed
  <2>2. stack \in Seq(Frames)
    <3>1. stack \in [1 .. Len(stack) -> Calls] /\ Len(stack) \in Nat
      BY <2>1, LenProperties DEF Typed
    <3>2. stack \in [1 .. Len(stack) -> Frames]
      BY <2>1, <3>1, FrameTyped
    <3> QED BY <3>1, <3>2, SeqDef
  <2>3. ret = << >> \/ ret \in (DOMAIN pkgs) \X Results
    BY <2>1 DEF Typed, OrderInv
  <2>4. {skip_cache, mutex, force} \subseteq BOOLEAN
    BY <2>1 DEF Typed, LoadTyped
  <2>5. file \in DOMAIN ManifestNames /\ retries \in -1 .. Retries
    BY <2>1, TwoNames DEF LoadTyped, Retries
  <2>6. pkgs \in Seq([of: Manifests, mem: {"live", "freed", "freed_twice"}, dir: Names \cup {Asked},
                      end: {"none", "skipped", "begun", "ok", "error", "failed"}])
    BY <2>1 DEF Typed, Objects, Ends
  <2> QED BY <2>1, <2>2, <2>3, <2>4, <2>5, <2>6 DEF Typed, LoadTyped, TypeOK
<1> QED BY <1>1, Inductive, PTL

\* Without opts.force no package is installed twice, whatever depends on whatever:
\* it is marked as visited (line 1383) before anything else can ask for it.
THEOREM PackagesInstalledOnce == Spec => []InstalledOnce
<1>1. IInv => InstalledOnce
  <2> SUFFICES ASSUME IInv PROVE InstalledOnce
    OBVIOUS
  <2>1. DOMAIN pkgs = 1 .. Len(pkgs)
    BY LenProperties DEF IInv, Basis, Typed
  <2> QED BY <2>1 DEF IInv, OnceInv, InstalledOnce
<1> QED BY <1>1, Inductive, PTL

\* Without opts.force the recursion is as deep as there are packages, and one call
\* more: every call but the innermost is of another package.
THEOREM RecursionIsBounded == Spec => []DepthBounded
<1>1. IInv => DepthBounded
  <2> SUFFICES ASSUME IInv, ~force PROVE Len(stack) <= Cardinality(Names) + 1
    BY DEF DepthBounded
  <2>1. Basis /\ Typed /\ VisitInv /\ OnceInv /\ Len(stack) \in Nat
    BY LenProperties DEF IInv, Basis, Typed
  <2>2. IsFiniteSet(Names) /\ Cardinality(Names) \in Nat
    BY TreeAssumption, FS_CardinalityType
  <2>3. CASE stack = << >>
    BY <2>2, <2>3, EmptySeq
  <2>4. CASE stack # << >>
    <3> DEFINE d == Len(stack) - 1
               f == [k \in 1 .. d |-> Package(stack[k].pkg).name]
    <3>1. d \in Nat
      BY <2>1, <2>4, TopType
    <3>2. \A k \in 1 .. d : /\ k \in 1 .. Len(stack) /\ stack[k].pkg \in 1 .. Len(pkgs)
                            /\ Begun(stack[k].pkg) /\ Package(stack[k].pkg).name \in Names
      BY <2>1, <2>4, BelowTop, PkgType DEF VisitInv
    <3>3. ASSUME NEW k \in 1 .. d, NEW l \in 1 .. d,
                 Package(stack[k].pkg).name = Package(stack[l].pkg).name
          PROVE  k = l
      <4>1. stack[k].pkg = stack[l].pkg
        BY <2>1, <3>2, <3>3 DEF OnceInv
      <4>2. stack[k].pkg \in Nat /\ stack[l].pkg \in Nat
        BY <2>1, <3>2, FrameType
      <4>3. ~(k < l) /\ ~(l < k)
        BY <2>1, <3>2, <4>1, <4>2 DEF Basis, OrderInv
      <4> QED BY <3>1, <4>3
    <3>4. IsFiniteSet(1 .. d) /\ Cardinality(1 .. d) = d
      BY <3>1, FS_Interval
    <3>5. f \in Injection(1 .. d, Names)
      BY <3>2, <3>3 DEF Injection, IsInjective
    <3>6. d <= Cardinality(Names)
      BY <2>2, <3>4, <3>5, FS_Injection
    <3> QED BY <2>1, <2>2, <3>1, <3>6
  <2> QED BY <2>3, <2>4
<1> QED BY <1>1, Inductive, PTL

\* Neither a package nor a response is freed twice, and a package that a call, a
\* freelist or a result names is not freed: however a step fails, its owner is the
\* only one who frees it (lines 393-405).
THEOREM NothingUsedAfterFree == Spec => []NoUseAfterFree
<1>1. IInv => NoUseAfterFree
  <2> SUFFICES ASSUME IInv, NEW o \in InUse PROVE pkgs[o].mem = "live"
    BY DEF NoUseAfterFree
  <2>1. Basis /\ Typed /\ OrderInv /\ MemoryInv /\ DOMAIN stack = 1 .. Len(stack)
    BY LenProperties DEF IInv, Basis, Typed
  <2>2. CASE \E k \in DOMAIN stack : stack[k].pkg = o
    BY <2>1, <2>2 DEF OrderInv, MemoryInv, Owned, Has
  <2>3. CASE \E k \in DOMAIN stack : \E j \in DOMAIN stack[k].freelist : stack[k].freelist[j] = o
    BY <2>1, <2>3 DEF OrderInv, MemoryInv, Owned, Has
  <2>4. CASE ret # << >> /\ ret[1] = o
    BY <2>1, <2>4 DEF OrderInv, MemoryInv, Owned
  <2>5. \/ \E k \in DOMAIN stack : stack[k].pkg = o
        \/ \E k \in DOMAIN stack : o \in {stack[k].freelist[j] : j \in DOMAIN stack[k].freelist}
        \/ ret # << >> /\ ret[1] = o
    <3> DEFINE Kept == {{stack[k].freelist[j] : j \in DOMAIN stack[k].freelist} : k \in DOMAIN stack}
               Called == {stack[k].pkg : k \in DOMAIN stack}
               Returned == IF ret = << >> THEN {} ELSE {ret[1]}
    <3>1. InUse = Called \cup (UNION Kept) \cup Returned
      BY DEF InUse
    <3>2. o \in Called => \E k \in DOMAIN stack : stack[k].pkg = o
      OBVIOUS
    <3>3. ASSUME NEW S \in Kept, o \in S
          PROVE  \E k \in DOMAIN stack : o \in {stack[k].freelist[j] : j \in DOMAIN stack[k].freelist}
      BY <3>3
    <3>4. o \in Returned => ret # << >> /\ ret[1] = o
      OBVIOUS
    <3> HIDE DEF Kept, Called, Returned
    <3>5. o \in Called \/ o \in Returned \/ \E S \in Kept : o \in S
      BY <3>1
    <3> QED BY <3>2, <3>3, <3>4, <3>5
  <2> QED BY <2>2, <2>3, <2>4, <2>5
<1> QED BY <1>1, Inductive, PTL

\* When an installation has succeeded, every package that was built for it has been
\* freed, once; and nothing is ever freed twice.
THEOREM EverythingFreedOnce == Spec => []FreedOnce
<1>1. IInv => FreedOnce
  <2> SUFFICES ASSUME IInv PROVE FreedOnce
    OBVIOUS
  <2>1. /\ Basis /\ Typed /\ ControlInv /\ LoadInv /\ MemoryInv /\ DOMAIN pkgs = 1 .. Len(pkgs)
    BY LenProperties DEF IInv, Basis, Typed
  <2>2. res # "freed_twice"
    BY <2>1 DEF LoadInv
  <2>3. \A o \in DOMAIN pkgs : pkgs[o].mem # "freed_twice"
    BY <2>1 DEF MemoryInv
  <2>4. ASSUME mpc = "done", code = 0, NEW o \in DOMAIN pkgs PROVE pkgs[o].mem = "freed"
    <3>1. stack = << >> /\ ret = << >> /\ Len(stack) = 0
      BY <2>1, <2>4, EmptySeq DEF ControlInv
    <3>2. ~Owned(o) /\ ~Failing
      BY <2>4, <3>1 DEF Owned, Failing
    <3>3. pkgs[o].mem \in {"live", "freed", "freed_twice"}
      BY <2>1, PkgType DEF Objects
    <3> QED BY <2>1, <2>3, <3>2, <3>3 DEF MemoryInv
  <2> QED BY <2>2, <2>3, <2>4 DEF FreedOnce
<1> QED BY <1>1, Inductive, PTL

-----------------------------------------------------------------------------
(* What is covered *)

\* Where a repository has the name of some package, it holds a package of that name.
NamesAgree(sv) == \A s, t \in Slugs : s.repo = sv[t].name => sv[s].name = sv[t].name

\* What the cache serves, and what has been read, has the name of the package that is
\* in the repository.
CacheInv ==
  /\ NamesAgree(server)
  /\ \A key \in DOMAIN jsons :
       jsons[key].name = key[1] /\ \E t \in Slugs : key[1] = server[t].name
  /\ lpc \in {"build", "loaded"} => manifest.name = server[slug].name
SlugInv == mpc # "load" /\ lpc # "idle" => Top.next <= Len(List) /\ slug = List[Top.next]

\* The program's own package is the first one; a call and the call that it made, or
\* what that one returned, are of a package and of its dependency that is next.
RootInv ==
  /\ 1 \in 1 .. Len(pkgs) => pkgs[1].dir = Asked
  /\ 1 \in 1 .. Len(stack) => stack[1].pkg = 1
  /\ stack = << >> /\ ret # << >> => ret[1] = 1
  /\ developed => /\ mpc \in {"develop", "done"}
                  /\ 1 \in 1 .. Len(stack) => stack[1].pc = "development"

ChildIn(ps, sv, f, o) ==
  /\ f.next <= Len(ListIn(ps, f))
  /\ ps[o].of.name = sv[ListIn(ps, f)[f.next]].name /\ ps[o].dir = DirIn(ps, f)
ChainInv ==
  /\ \A k \in 1 .. Len(stack) : stack[k].dir = pkgs[stack[k].pkg].dir
  /\ \A k \in 1 .. Len(stack) - 1 : ChildIn(pkgs, server, stack[k], stack[k + 1].pkg)
  /\ ret # << >> /\ stack # << >> => ChildIn(pkgs, server, Top, ret[1])

\* What became of a package is what its call, or its result, says; and what is visited
\* has an installation that has begun.
Past == {"sources", "executable", "unpacked", "command", "deps"}
EndInv ==
  /\ \A o \in 1 .. Len(pkgs) : pkgs[o].end = "error" => Failing
  /\ \A o \in 1 .. Len(pkgs) : pkgs[o].end = "begun" =>
       \E k \in 1 .. Len(stack) : stack[k].pkg = o /\ stack[k].pc \in Past
  /\ \A k \in 1 .. Len(stack) :
       /\ stack[k].pc \in Past => pkgs[stack[k].pkg].end = "begun"
       /\ stack[k].pc = "development" => k = 1 /\ pkgs[stack[k].pkg].end = "ok"
ResultInv ==
  /\ \A n \in visited : \E o \in 1 .. Len(pkgs) : Begun(o) /\ Package(o).name = n
  /\ ret # << >> => CASE ret[2] = -1 -> TRUE
                      [] ret[2] = 0 -> \/ pkgs[ret[1]].end = "ok"
                                       \/ /\ pkgs[ret[1]].end = "skipped" /\ ~force
                                          /\ Package(ret[1]).name \in visited
                      [] OTHER -> pkgs[ret[1]].end = "failed"
  /\ mpc = "done" /\ code = 0 => 1 \in 1 .. Len(pkgs) /\ pkgs[1].end = "ok"

\* A dependency has been seen to: it is installed, or being installed.
Seen == {"begun", "ok", "failed"}
AccountedIn(ps, sv, fc, s, dir) == \E q \in 1 .. Len(ps) :
  /\ ps[q].of.name = sv[s].name /\ (fc => ps[q].dir = dir) /\ ps[q].end \in Seen

\* A call has seen to the dependencies before the one that is next, and to all of
\* them for the executable before its command; a package that is installed to all.
FrameCovered(ps, sv, fc, f) ==
  /\ f.pc \in Loops => \A j \in 1 .. f.next - 1 :
       AccountedIn(ps, sv, fc, ListIn(ps, f)[j], DirIn(ps, f))
  /\ f.pc \in {"command", "deps"} /\ ps[f.pkg].of.install =>
       \A j \in DOMAIN ps[f.pkg].of.deps :
         AccountedIn(ps, sv, fc, ps[f.pkg].of.deps[j], ps[f.pkg].of.name)
PackageCovered(ps, sv, fc, o) == \A j \in DOMAIN ps[o].of.deps :
  /\ AccountedIn(ps, sv, fc, ps[o].of.deps[j], ps[o].dir)
  /\ ps[o].of.install => AccountedIn(ps, sv, fc, ps[o].of.deps[j], ps[o].of.name)
DevCovered(ps, sv, fc) == \A j \in DOMAIN ps[1].of.dev :
  AccountedIn(ps, sv, fc, ps[1].of.dev[j], Asked)
CoverInv == ~Failing =>
  /\ \A k \in 1 .. Len(stack) : FrameCovered(pkgs, server, force, stack[k])
  /\ \A o \in 1 .. Len(pkgs) : pkgs[o].end = "ok" => PackageCovered(pkgs, server, force, o)
  /\ developed /\ stack = << >> => DevCovered(pkgs, server, force)

CInv == CacheInv /\ SlugInv /\ RootInv /\ ChainInv /\ EndInv /\ ResultInv /\ CoverInv

-----------------------------------------------------------------------------
(* What every step leaves *)

LEMMA Lengths ==
  ASSUME Typed
  PROVE  /\ Len(stack) \in Nat /\ Len(pkgs) \in Nat
         /\ stack = << >> <=> Len(stack) = 0
         /\ stack # << >> => Len(stack) \in 1 .. Len(stack) /\ Top = stack[Len(stack)]
BY EmptySeq, LenProperties, TopType, TopIsLast DEF Typed

LEMMA Fixed == [Next]_vars => server' = server /\ force' = force
BY DEF Next, Step, Stays, vars, fixed, Start, RootLoaded, RootNull, Develop, Finish, Visited, NotVisited,
       Prepare, FetchSources, Unpack, Command, StepFails, LoadDep, DepLoaded, DepInstalled, DepFails,
       DepsDone

LEMMA Developing ==
  ASSUME Basis, [Next]_vars
  PROVE  developed' = developed \/ Develops
<1>1. CASE Develop
  BY <1>1, DevelopEffect DEF Develops
<1>2. CASE ~Develop
  BY <1>2
  DEF Next, Step, Stays, vars, fixed, treeVars, Start, RootLoaded, RootNull, Finish, Visited,
       NotVisited, Prepare, FetchSources, Unpack, Command, StepFails, LoadDep, DepLoaded, DepInstalled, DepFails,
       DepsDone
<1> QED BY <1>1, <1>2

\* A failure goes up to the program.
LEMMA FailureStays ==
  ASSUME Basis, [Next]_vars, Failing
  PROVE  Failing'
<1>0. Typed /\ ControlInv
  BY DEF Basis
<1>1. CASE mpc = "done" /\ code = -1
  <2>1. stack = << >> /\ ret = << >>
    BY <1>0, <1>1 DEF ControlInv
  <2>2. Rests
    BY <1>1, <2>1, Kinds DEF Enters, Builds, Moves, Advances, Goes, Leaves, Returns, Pops, Collects,
                             Develops, Finishes
  <2> QED BY <1>1, <2>2 DEF Rests, Failing
<1>2. CASE ret # << >> /\ ret[2] = -1
  <2>1. CASE Rests
    BY <1>2, <2>1 DEF Rests, Failing
  <2>2. CASE Leaves
    BY <1>2, <2>2 DEF Leaves, Returns, Pops, Failing
  <2>3. CASE Finishes
    BY <1>2, <2>3 DEF Finishes, Failing
  <2> QED BY <1>2, <2>1, <2>2, <2>3, Kinds DEF Enters, Builds, Moves, Advances, Collects, Develops
<1> QED BY <1>1, <1>2 DEF Failing

\* A package stays what it is, and where it is.
LEMMA Places ==
  ASSUME Basis, [Next]_vars
  PROVE  /\ Len(pkgs) \in Nat /\ Len(pkgs') \in Nat /\ Len(pkgs) <= Len(pkgs')
         /\ \A q \in 1 .. Len(pkgs) : /\ q \in 1 .. Len(pkgs')
                                      /\ pkgs'[q].of = pkgs[q].of /\ pkgs'[q].dir = pkgs[q].dir
<1>0. Len(pkgs) \in Nat
  BY Lengths DEF Basis
<1>1. CASE Rests
  BY <1>0, <1>1 DEF Rests
<1>2. CASE Enters
  BY <1>0, <1>2 DEF Enters, Builds
<1>3. CASE Moves
  BY <1>0, <1>3 DEF Moves, Frees, SamePkgs
<1>4. CASE Leaves
  BY <1>0, <1>4 DEF Leaves, Frees, SamePkgs
<1>5. CASE Collects \/ Develops
  BY <1>0, <1>5 DEF Collects, Develops
<1>6. CASE Finishes
  BY <1>0, <1>6 DEF Finishes, Frees, SamePkgs
<1> QED BY <1>1, <1>2, <1>3, <1>4, <1>5, <1>6, Kinds

LEMMA ListStays ==
  ASSUME Basis, [Next]_vars
  PROVE  /\ \A f : f.pkg \in 1 .. Len(pkgs) =>
              ListIn(pkgs', f) = ListIn(pkgs, f) /\ DirIn(pkgs', f) = DirIn(pkgs, f)
         /\ \A f, o : f.pkg \in 1 .. Len(pkgs) /\ o \in 1 .. Len(pkgs) =>
              (ChildIn(pkgs', server', f, o) <=> ChildIn(pkgs, server, f, o))
<1>1. \A q \in 1 .. Len(pkgs) : pkgs'[q].of = pkgs[q].of /\ pkgs'[q].dir = pkgs[q].dir
  BY Places
<1>2. server' = server
  BY Fixed
<1> QED BY <1>1, <1>2 DEF ListIn, DirIn, ChildIn

-----------------------------------------------------------------------------
(* Names *)

LEMMA LoadingNames ==
  ASSUME Typed, CacheInv, Loading, server' = server
  PROVE  CacheInv'
<1> USE DEF Goto, CacheInv
<1>0. slug \in Slugs /\ slug' = slug
  BY DEF Typed, LoadTyped, Loading, Begin, BeginFails, LockCache, CacheHit, CacheDelete, CacheMiss,
         Download, GetOk, GetFails, GetNull, Build, BuildFails, Error
<1>1. CASE jsons' = jsons /\ manifest' = manifest /\ (lpc' \in {"build", "loaded"} => lpc = "build")
  BY <1>0, <1>1
<1>2. CASE CacheHit
  <2>1. jsons' = jsons /\ manifest' = jsons[LookupKey(slug)] /\ LookupKey(slug) \in DOMAIN jsons
    BY <1>2 DEF CacheHit, Cached
  <2>2. LookupKey(slug)[1] = slug.repo
    BY DEF LookupKey
  <2>3. manifest'.name = slug.repo
    BY <2>1, <2>2
  <2>4. PICK t \in Slugs : slug.repo = server[t].name
    BY <2>1, <2>2
  <2>5. server[slug].name = server[t].name
    BY <1>0, <2>4 DEF NamesAgree
  <2> QED BY <1>0, <2>1, <2>3, <2>4, <2>5
<1>3. CASE CacheDelete
  BY <1>0, <1>3 DEF CacheDelete
<1>4. CASE GetOk
  BY <1>0, <1>4 DEF GetOk
<1>5. CASE Build
  <2> DEFINE key == SaveKey(slug, manifest)
  <2>1. key[1] = manifest.name
    BY DEF SaveKey
  <2>2. jsons' \in {jsons, [k \in DOMAIN jsons \cup {key} |-> IF k = key THEN manifest ELSE jsons[k]]}
    BY <1>5 DEF Build
  <2>3. lpc = "build" /\ manifest' = manifest
    BY <1>5 DEF Build
  <2> HIDE DEF key
  <2>4. \A k \in DOMAIN jsons' : jsons'[k].name = k[1] /\ \E t \in Slugs : k[1] = server[t].name
    BY <1>0, <2>1, <2>2, <2>3
  <2> QED BY <1>0, <2>3, <2>4
<1> QED BY <1>1, <1>2, <1>3, <1>4, <1>5
        DEF Loading, Begin, BeginFails, LockCache, CacheMiss, Download, GetFails, GetNull, BuildFails, Error

LEMMA StepCache == Basis /\ CacheInv /\ [Next]_vars => CacheInv'
<1> SUFFICES ASSUME Basis, CacheInv, [Next]_vars PROVE CacheInv'
  OBVIOUS
<1>1. server' = server /\ Typed
  BY Fixed DEF Basis
<1>2. CASE Loading
  BY <1>1, <1>2, LoadingNames
<1>3. CASE jsons' = jsons /\ lpc' \notin {"build", "loaded"}
  BY <1>1, <1>3 DEF CacheInv
<1>4. CASE UNCHANGED loadVars
  BY <1>1, <1>4 DEF loadVars, CacheInv
<1>5. Loading \/ (jsons' = jsons /\ lpc' \in {"begin", "idle"}) \/ UNCHANGED loadVars
  BY DEF Next, Step, Stays, vars, Start, RootLoaded, RootNull, Develop, Finish, Visited, NotVisited,
         Prepare, FetchSources, Unpack, Command, StepFails, LoadDep, DepLoaded, DepInstalled, DepFails,
         DepsDone, Load, Taken, Goto
<1> QED BY <1>2, <1>3, <1>4, <1>5

LEMMA StepSlug == Basis /\ SlugInv /\ [Next]_vars => SlugInv'
<1> SUFFICES ASSUME Basis, SlugInv, [Next]_vars PROVE SlugInv'
  OBVIOUS
<1>1. Typed /\ ControlInv
  BY DEF Basis
<1>2. CASE Loading /\ UNCHANGED <<fixed, force, treeVars>>
  <2>1. slug' = slug /\ lpc # "idle"
    BY <1>2 DEF Loading, Begin, BeginFails, LockCache, CacheHit, CacheDelete, CacheMiss,
                Download, GetOk, GetFails, GetNull, Build, BuildFails, Error, Goto
  <2> QED BY <1>2, <2>1 DEF treeVars, SlugInv, Top, List, Package
<1>3. CASE LoadDep
  <2>1. UNCHANGED <<stack, pkgs>> /\ Top.next <= Len(List) /\ slug' = List[Top.next]
    BY <1>3 DEF LoadDep, Load, treeVars
  <2> QED BY <2>1 DEF SlugInv, Top, List, Package
<1>4. CASE UNCHANGED vars
  BY <1>4 DEF vars, loadVars, treeVars, SlugInv, Top, List, Package
<1>5. CASE mpc' = "load" \/ lpc' = "idle"
  BY <1>5 DEF SlugInv
<1>6. CASE DepInstalled \/ DepFails \/ Develop \/ Finish
  <2>1. mpc # "load" /\ (ret # << >> => lpc = "idle")
    BY <1>1, <1>6 DEF ControlInv, DepInstalled, DepFails, Develop, Finish
  <2>2. lpc' = "idle"
    BY <1>6, <2>1 DEF DepInstalled, DepFails, Develop, Finish, loadVars, Taken, Goto
  <2> QED BY <1>5, <2>2
<1>7. \/ Loading /\ UNCHANGED <<fixed, force, treeVars>>
      \/ LoadDep \/ UNCHANGED vars \/ mpc' = "load" \/ lpc' = "idle"
      \/ DepInstalled \/ DepFails \/ Develop \/ Finish
  BY DEF Next, Step, Stays, Start, RootLoaded, RootNull, Visited, NotVisited,
         Prepare, FetchSources, Unpack, Command, StepFails, DepLoaded,
         DepsDone, InLoop, At, Taken, Goto, loadVars
<1> QED BY <1>2, <1>3, <1>4, <1>5, <1>6, <1>7

-----------------------------------------------------------------------------
(* Who called whom *)

LEMMA StepRoot == Basis /\ RootInv /\ [Next]_vars => RootInv'
<1> SUFFICES ASSUME Basis, RootInv, [Next]_vars PROVE RootInv'
  OBVIOUS
<1>0. /\ Typed /\ ControlInv /\ Len(stack) \in Nat /\ Len(pkgs) \in Nat
      /\ stack = << >> <=> Len(stack) = 0
  BY Lengths DEF Basis
<1>00. Typed' /\ Len(stack') \in Nat /\ (stack' = << >> <=> Len(stack') = 0)
  <2>1. Typed'
    BY Kinds
  <2> QED BY <2>1, EmptySeq, LenProperties DEF Typed
<1>1. CASE Rests
  <2>1. developed' = developed
    BY <1>1, Developing DEF Rests, Develops
  <2>2. developed => mpc' = mpc
    BY <1>1 DEF Rests, RootInv
  <2> QED BY <1>1, <2>1, <2>2 DEF Rests, RootInv
<1>2. CASE Enters
  <2>1. developed' = developed
    BY <1>2, Developing DEF Enters, Builds, Develops
  <2>2. /\ Len(pkgs') = Len(pkgs) + 1 /\ Len(stack') = Len(stack) + 1
        /\ \A q \in 1 .. Len(pkgs) : pkgs'[q] = pkgs[q]
        /\ \A k \in 1 .. Len(stack) : stack'[k] = stack[k]
        /\ stack'[Len(stack) + 1].pkg = Len(pkgs) + 1
        /\ stack' # << >>
    BY <1>2 DEF Enters, Builds, Pushes
  <2>3. CASE mpc = "load" /\ mpc' = "install" /\ pkgs'[Len(pkgs) + 1].dir = Asked
    <3>1. pkgs = << >> /\ stack = << >> /\ Len(pkgs) = 0
      BY <1>0, <2>3, EmptySeq DEF ControlInv
    <3>2. ~developed
      BY <2>3 DEF RootInv
    <3> QED BY <1>0, <2>1, <2>2, <2>3, <3>1, <3>2 DEF RootInv
  <2>4. CASE mpc' = mpc /\ stack # << >>
    <3>1. Len(stack) >= 1 /\ Len(pkgs) >= 1
      <4>1. 1 \in 1 .. Len(stack)
        BY <1>0, <2>4
      <4>2. stack[1].pkg \in 1 .. Len(pkgs)
        BY <4>1 DEF Basis, OrderInv
      <4> QED BY <1>0, <4>1, <4>2
    <3> QED BY <1>0, <2>1, <2>2, <2>4, <3>1 DEF RootInv
  <2> QED BY <1>2, <2>3, <2>4 DEF Enters
<1>3. CASE Moves
  <2>1. developed' = developed
    BY <1>3, Developing DEF Moves, Advances, Develops
  <2>2. PICK to \in Pcs : Advances(to) /\ Onward(to) /\ Frees(Top.freelist)
    BY <1>3 DEF Moves
  <2>3. /\ Len(pkgs') = Len(pkgs) /\ Len(stack') = Len(stack) /\ stack' # << >> /\ mpc' = mpc
        /\ \A q \in 1 .. Len(pkgs) : pkgs'[q].dir = pkgs[q].dir
        /\ \A k \in 1 .. Len(stack) - 1 : stack'[k] = stack[k]
        /\ stack'[Len(stack)].pkg = stack[Len(stack)].pkg
    BY <2>2, TopIsLast DEF Advances, Goes, Below, Frees, SamePkgs
  <2>4. stack[Len(stack)].pc # "development"
    BY <2>2, TopIsLast DEF Onward
  <2> QED BY <1>0, <2>1, <2>3, <2>4 DEF RootInv
<1>4. CASE Leaves
  <2>1. developed' = developed
    BY <1>4, Developing DEF Leaves, Returns, Pops, Develops
  <2>2. /\ Len(pkgs') = Len(pkgs) /\ Len(stack') = Len(stack) - 1 /\ mpc' = mpc
        /\ Len(stack) \in Nat \ {0}
        /\ \A q \in 1 .. Len(pkgs) : pkgs'[q].dir = pkgs[q].dir
        /\ \A k \in 1 .. Len(stack) - 1 : stack'[k] = stack[k]
        /\ ret'[1] = stack[Len(stack)].pkg /\ (stack' = << >> <=> Len(stack) = 1)
    BY <1>4, TopIsLast DEF Leaves, Returns, Pops, Below, Frees, SamePkgs
  <2> QED BY <1>0, <1>00, <2>1, <2>2 DEF RootInv
<1>5. CASE Collects
  <2>1. developed' = developed
    BY <1>5, Developing DEF Collects, Develops
  <2>2. /\ pkgs' = pkgs /\ Len(stack') = Len(stack) /\ mpc' = mpc /\ stack' # << >>
        /\ \A k \in 1 .. Len(stack) - 1 : stack'[k] = stack[k]
        /\ stack'[Len(stack)].pkg = stack[Len(stack)].pkg
        /\ stack'[Len(stack)].pc = stack[Len(stack)].pc
    BY <1>5, TopIsLast DEF Collects, Below
  <2> QED BY <1>0, <2>1, <2>2 DEF RootInv
<1>6. CASE Develops
  <2>1. /\ pkgs' = pkgs /\ Len(stack') = 1 /\ mpc' = "develop" /\ stack' # << >>
        /\ stack'[1].pkg = ret[1] /\ stack'[1].pc = "development" /\ ret[1] = 1
    BY <1>0, <1>6 DEF Develops, Pushes, RootInv
  <2> QED BY <2>1 DEF RootInv
<1>7. CASE Finishes
  <2>1. developed' = developed
    BY <1>7, Developing DEF Finishes, Develops
  <2>2. /\ Len(pkgs') = Len(pkgs) /\ Len(stack') = 0 /\ mpc' = "done" /\ ret' = << >>
        /\ \A q \in 1 .. Len(pkgs) : pkgs'[q].dir = pkgs[q].dir
    BY <1>00, <1>7 DEF Finishes, Frees, SamePkgs
  <2> QED BY <1>0, <2>1, <2>2 DEF RootInv
<1> QED BY <1>1, <1>2, <1>3, <1>4, <1>5, <1>6, <1>7, Kinds

LEMMA StepChain == Basis /\ CacheInv /\ SlugInv /\ RootInv /\ ChainInv /\ [Next]_vars => ChainInv'
<1> SUFFICES ASSUME Basis, CacheInv, SlugInv, RootInv, ChainInv, [Next]_vars PROVE ChainInv'
  OBVIOUS
<1>0. /\ Typed /\ ControlInv /\ OrderInv /\ Len(stack) \in Nat /\ Len(pkgs) \in Nat
      /\ stack = << >> <=> Len(stack) = 0
      /\ Top = stack[Len(stack)] /\ server' = server
  BY Lengths, Fixed, TopIsLast DEF Basis
\* The calls and packages that there were fit as before.
<1>1. /\ \A q \in 1 .. Len(pkgs) : pkgs'[q].of = pkgs[q].of /\ pkgs'[q].dir = pkgs[q].dir
      /\ \A f, o : f.pkg \in 1 .. Len(pkgs) /\ o \in 1 .. Len(pkgs) =>
           (ChildIn(pkgs', server', f, o) <=> ChildIn(pkgs, server, f, o))
  BY Places, ListStays
<1>2. \A k \in 1 .. Len(stack) : stack[k].pkg \in 1 .. Len(pkgs)
  BY <1>0 DEF OrderInv
<1>3. \A k \in 1 .. Len(stack) : pkgs'[stack[k].pkg].dir = stack[k].dir
  BY <1>1, <1>2 DEF ChainInv
<1>4. \A k \in 1 .. Len(stack) - 1 : ChildIn(pkgs', server', stack[k], stack[k + 1].pkg)
  <2> TAKE k \in 1 .. Len(stack) - 1
  <2>1. k \in 1 .. Len(stack) /\ k + 1 \in 1 .. Len(stack)
    BY <1>0
  <2> QED BY <1>1, <1>2, <2>1 DEF ChainInv
<1>5. CASE Rests
  <2>1. stack' = stack /\ ret' = ret
    BY <1>5 DEF Rests
  <2>2. ASSUME ret # << >>, stack # << >> PROVE ChildIn(pkgs', server', Top, ret[1])
    <3>1. Len(stack) \in 1 .. Len(stack) /\ ret[1] \in 1 .. Len(pkgs)
      BY <1>0, <2>2 DEF OrderInv
    <3> QED BY <1>0, <1>1, <1>2, <2>2, <3>1 DEF ChainInv
  <2> QED BY <1>0, <1>3, <1>4, <2>1, <2>2 DEF ChainInv, Top
<1>6. CASE Enters
  <2> DEFINE n == Len(stack)
             o == Len(pkgs) + 1
  <2>1. /\ Len(stack') = n + 1 /\ \A k \in 1 .. n : stack'[k] = stack[k]
        /\ stack'[n + 1].pkg = o /\ stack'[n + 1].dir = pkgs'[o].dir /\ ret' = << >>
        /\ pkgs'[o].of = manifest /\ lpc = "loaded" /\ pkgs' # << >>
    BY <1>6, EmptySeq DEF Enters, Builds, Pushes
  <2>2. ASSUME stack # << >> PROVE ChildIn(pkgs', server', stack[n], o)
    <3>1. mpc # "load" /\ pkgs'[o].dir = DirIn(pkgs, Top)
      BY <1>0, <1>6, <2>2 DEF Enters, ControlInv
    <3>2. Top.next <= Len(List) /\ slug = List[Top.next] /\ manifest.name = server[slug].name
      BY <2>1, <3>1 DEF SlugInv, CacheInv
    <3>3. List = ListIn(pkgs, Top)
      BY DEF List, ListIn, Package
    <3>4. Top.pkg \in 1 .. Len(pkgs)
      BY <1>0, <2>2, TopPkg
    <3>5. ListIn(pkgs', Top) = ListIn(pkgs, Top) /\ DirIn(pkgs', Top) = DirIn(pkgs, Top)
      BY <3>4, ListStays
    <3> QED BY <1>0, <2>1, <3>1, <3>2, <3>3, <3>5 DEF ChildIn
  <2>3. \A k \in 1 .. n : ChildIn(pkgs', server', stack'[k], stack'[k + 1].pkg)
    <3> TAKE k \in 1 .. n
    <3>1. CASE k \in 1 .. n - 1
      <4>1. k + 1 \in 1 .. n
        BY <1>0, <3>1
      <4> QED BY <1>4, <2>1, <3>1, <4>1
    <3>2. CASE k = n
      <4>1. stack # << >>
        BY <1>0
      <4> QED BY <2>1, <2>2, <3>2, <4>1
    <3> QED BY <1>0, <3>1, <3>2
  <2> HIDE DEF n, o
  <2>4. n \in Nat
    BY <1>0 DEF n
  <2>5. \A k \in 1 .. Len(stack') : stack'[k].dir = pkgs'[stack'[k].pkg].dir
    <3>1. \A k \in 1 .. n : stack'[k].dir = pkgs'[stack'[k].pkg].dir
      BY <1>3, <2>1 DEF n
    <3> QED BY <2>1, <2>4, <3>1
  <2> QED BY <2>1, <2>3, <2>4, <2>5 DEF ChainInv
<1>7. CASE Moves
  <2>1. /\ Len(stack') = Len(stack) /\ Len(stack) \in Nat \ {0} /\ ret' = << >>
        /\ \A k \in 1 .. Len(stack) - 1 : stack'[k] = stack[k]
        /\ stack'[Len(stack)].pkg = stack[Len(stack)].pkg
        /\ stack'[Len(stack)].dir = stack[Len(stack)].dir
    BY <1>0, <1>7 DEF Moves, Advances, Goes, Below
  <2>2. \A k \in 1 .. Len(stack) : stack'[k].pkg = stack[k].pkg /\ stack'[k].dir = stack[k].dir
    BY <2>1
  <2>3. \A k \in 1 .. Len(stack) - 1 : ChildIn(pkgs', server', stack'[k], stack'[k + 1].pkg)
    <3> TAKE k \in 1 .. Len(stack) - 1
    <3>1. k + 1 \in 1 .. Len(stack)
      BY <2>1
    <3> QED BY <1>4, <2>1, <2>2, <3>1
  <2> QED BY <1>3, <2>1, <2>2, <2>3 DEF ChainInv
<1>8. CASE Leaves
  <2>1. /\ Len(stack') = Len(stack) - 1 /\ Len(stack) \in Nat \ {0} /\ ret'[1] = stack[Len(stack)].pkg
        /\ \A k \in 1 .. Len(stack) - 1 : stack'[k] = stack[k]
        /\ (stack' = << >> <=> Len(stack) = 1)
    BY <1>0, <1>8 DEF Leaves, Returns, Pops, Below
  <2>2. \A k \in 1 .. Len(stack') : stack'[k].dir = pkgs'[stack'[k].pkg].dir
    BY <1>3, <2>1
  <2>3. \A k \in 1 .. Len(stack') - 1 : ChildIn(pkgs', server', stack'[k], stack'[k + 1].pkg)
    <3> TAKE k \in 1 .. Len(stack') - 1
    <3>1. k + 1 \in 1 .. Len(stack) - 1 /\ k \in 1 .. Len(stack) - 1
      BY <2>1
    <3> QED BY <1>4, <2>1, <3>1
  <2>4. stack' # << >> => ChildIn(pkgs', server', stack'[Len(stack')], ret'[1])
    <3> SUFFICES ASSUME stack' # << >> PROVE ChildIn(pkgs', server', stack'[Len(stack')], ret'[1])
      OBVIOUS
    <3>1. Len(stack) - 1 \in 1 .. Len(stack) - 1 /\ Len(stack) - 1 + 1 = Len(stack)
      BY <2>1
    <3> QED BY <1>4, <2>1, <3>1
  <2> QED BY <2>2, <2>3, <2>4 DEF ChainInv, Top
<1>9. CASE Collects
  <2>1. /\ Len(stack') = Len(stack) /\ Len(stack) \in Nat \ {0} /\ ret' = << >>
        /\ \A k \in 1 .. Len(stack) - 1 : stack'[k] = stack[k]
        /\ stack'[Len(stack)].pkg = stack[Len(stack)].pkg
        /\ stack'[Len(stack)].dir = stack[Len(stack)].dir
    BY <1>0, <1>9 DEF Collects, Below
  <2>2. \A k \in 1 .. Len(stack) : stack'[k].pkg = stack[k].pkg /\ stack'[k].dir = stack[k].dir
    BY <2>1
  <2>3. \A k \in 1 .. Len(stack) - 1 : ChildIn(pkgs', server', stack'[k], stack'[k + 1].pkg)
    <3> TAKE k \in 1 .. Len(stack) - 1
    <3>1. k + 1 \in 1 .. Len(stack)
      BY <2>1
    <3> QED BY <1>4, <2>1, <2>2, <3>1
  <2> QED BY <1>3, <2>1, <2>2, <2>3 DEF ChainInv
<1>10. CASE Finishes
  <2>1. Len(stack') = 0 /\ stack' = << >> /\ ret' = << >>
    BY <1>0, <1>10 DEF Finishes
  <2> QED BY <2>1 DEF ChainInv
<1>11. CASE Develops
  <2>1. /\ Len(stack') = 1 /\ ret' = << >> /\ pkgs' = pkgs
        /\ stack'[1].pkg = ret[1] /\ stack'[1].dir = Asked /\ ret[1] = 1
    BY <1>0, <1>11 DEF Develops, Pushes, RootInv
  <2>2. 1 \in 1 .. Len(pkgs)
    BY <1>0, <1>11, <2>1 DEF OrderInv, Develops
  <2>3. pkgs[1].dir = Asked
    BY <1>11, <2>2 DEF RootInv
  <2> QED BY <2>1, <2>3 DEF ChainInv
<1> QED BY <1>5, <1>6, <1>7, <1>8, <1>9, <1>10, <1>11, Kinds

-----------------------------------------------------------------------------
(* What became of the packages *)

LEMMA SetsOthers ==
  ASSUME NEW end, SetsEnd(end)
  PROVE  /\ \A q \in 1 .. Len(pkgs) : q # Top.pkg => pkgs'[q].end = pkgs[q].end
         /\ \A q \in 1 .. Len(pkgs) : q = Top.pkg /\ Top.pc # "development" => pkgs'[q].end = end
         /\ Top.pc = "development" => \A q \in 1 .. Len(pkgs) : pkgs'[q].end = pkgs[q].end
BY DEF SetsEnd

\* What a move and a return do to ends.
LEMMA MoveEnds ==
  ASSUME Basis, Moves
  PROVE  \E to \in Pcs :
           /\ Onward(to) /\ stack # << >> /\ ret = << >> /\ ret' = << >> /\ mpc' = mpc
           /\ Len(stack) \in Nat \ {0} /\ Len(stack') = Len(stack) /\ Len(pkgs') = Len(pkgs)
           /\ \A k \in 1 .. Len(stack) - 1 : stack'[k] = stack[k]
           /\ stack'[Len(stack)].pkg = stack[Len(stack)].pkg /\ stack'[Len(stack)].pc = to
           /\ \A q \in 1 .. Len(pkgs) : q # stack[Len(stack)].pkg => pkgs'[q].end = pkgs[q].end
           /\ pkgs'[Top.pkg].end = IF Top.pc = "prepare" THEN "begun" ELSE pkgs[Top.pkg].end
           /\ visited' = IF Top.pc = "prepare" THEN visited \cup {Package(Top.pkg).name} ELSE visited
<1>1. PICK to \in Pcs :
        /\ Advances(to) /\ Onward(to) /\ Frees(Top.freelist)
        /\ \/ /\ Top.pc # "prepare" /\ visited' = visited
              /\ \A q \in 1 .. Len(pkgs) : pkgs'[q].end = pkgs[q].end
           \/ /\ Top.pc = "prepare" /\ SetsEnd("begun")
              /\ visited' = visited \cup {Package(Top.pkg).name}
  BY DEF Moves
<1>2. /\ stack # << >> /\ Len(stack) \in Nat \ {0} /\ Len(stack') = Len(stack) /\ Len(pkgs') = Len(pkgs)
      /\ \A k \in 1 .. Len(stack) - 1 : stack'[k] = stack[k]
      /\ stack'[Len(stack)].pkg = stack[Len(stack)].pkg /\ stack'[Len(stack)].pc = to
      /\ ret = << >> /\ ret' = << >> /\ mpc' = mpc
  BY <1>1, TopIsLast DEF Advances, Goes, Below, Frees, SamePkgs
<1>3. Top.pkg \in 1 .. Len(pkgs)
  BY <1>2, TopPkg DEF Basis
<1> QED BY <1>1, <1>2, <1>3, SetsOthers, TopIsLast

LEMMA LeaveEnds ==
  ASSUME Basis, Leaves
  PROVE  \E v \in Results :
           /\ Outcome(v) /\ ret' # << >> /\ ret'[1] = Top.pkg /\ ret'[2] = v /\ stack # << >> /\ mpc' = mpc
           /\ visited' = visited /\ force' = force
           /\ Len(stack) \in Nat \ {0} /\ Len(stack') = Len(stack) - 1 /\ Len(pkgs') = Len(pkgs)
           /\ \A k \in 1 .. Len(stack) - 1 : stack'[k] = stack[k]
           /\ \A q \in 1 .. Len(pkgs) : q # stack[Len(stack)].pkg => pkgs'[q].end = pkgs[q].end
           /\ (stack' = << >> <=> Len(stack) = 1)
<1>1. PICK v \in Results : Returns(v) /\ Frees(Top.freelist) /\ Outcome(v)
  BY DEF Leaves
<1>2. \A q \in 1 .. Len(pkgs) : q # Top.pkg => pkgs'[q].end = pkgs[q].end
  BY <1>1, SetsOthers DEF Outcome
<1> QED BY <1>1, <1>2, TopIsLast DEF Returns, Pops, Below, Frees, SamePkgs

LEMMA StepEnd == Basis /\ VisitInv /\ EndInv /\ ResultInv /\ [Next]_vars => EndInv'
<1> SUFFICES ASSUME Basis, VisitInv, EndInv, ResultInv, [Next]_vars PROVE EndInv'
  OBVIOUS
<1>0. /\ Typed /\ ControlInv /\ OrderInv /\ Len(stack) \in Nat /\ Len(pkgs) \in Nat
      /\ stack = << >> <=> Len(stack) = 0
      /\ Top = stack[Len(stack)]
  BY Lengths, TopIsLast DEF Basis
<1>1. Failing => Failing'
  BY FailureStays
<1>2. CASE Rests
  BY <1>1, <1>2 DEF Rests, EndInv
<1>3. CASE Enters
  <2>1. /\ Len(stack') = Len(stack) + 1 /\ \A k \in 1 .. Len(stack) : stack'[k] = stack[k]
        /\ stack'[Len(stack) + 1].pc = "visit" /\ Len(pkgs') = Len(pkgs) + 1
        /\ \A q \in 1 .. Len(pkgs) : pkgs'[q] = pkgs[q]
        /\ pkgs'[Len(pkgs) + 1].end = "none"
    BY <1>3 DEF Enters, Builds, Pushes
  <2>2. \A o \in 1 .. Len(pkgs') : pkgs'[o].end # "none" => o \in 1 .. Len(pkgs)
    BY <1>0, <2>1
  <2>3. \A k \in 1 .. Len(stack') : stack'[k].pc # "visit" => k \in 1 .. Len(stack)
    BY <1>0, <2>1
  <2>4. \A k \in 1 .. Len(stack) : k \in 1 .. Len(stack') /\ stack[k].pkg \in 1 .. Len(pkgs)
    BY <1>0, <2>1 DEF OrderInv
  <2>5. \A o \in 1 .. Len(pkgs') : pkgs'[o].end = "error" => Failing'
    BY <1>1, <2>1, <2>2 DEF EndInv
  <2>6. \A o \in 1 .. Len(pkgs') : pkgs'[o].end = "begun" =>
          \E k \in 1 .. Len(stack') : stack'[k].pkg = o /\ stack'[k].pc \in Past
    BY <2>1, <2>2, <2>4 DEF EndInv
  <2>7. \A k \in 1 .. Len(stack') :
          /\ stack'[k].pc \in Past => pkgs'[stack'[k].pkg].end = "begun"
          /\ stack'[k].pc = "development" => k = 1 /\ pkgs'[stack'[k].pkg].end = "ok"
    BY <2>1, <2>3, <2>4 DEF EndInv, Past
  <2> QED BY <2>5, <2>6, <2>7 DEF EndInv
<1>4. CASE Moves
  <2> DEFINE n == Len(stack)
  <2>1. PICK to \in Pcs :
          /\ Onward(to) /\ stack # << >>
          /\ n \in Nat \ {0} /\ Len(stack') = n /\ Len(pkgs') = Len(pkgs)
          /\ \A k \in 1 .. n - 1 : stack'[k] = stack[k]
          /\ stack'[n].pkg = stack[n].pkg /\ stack'[n].pc = to
          /\ \A q \in 1 .. Len(pkgs) : q # stack[n].pkg => pkgs'[q].end = pkgs[q].end
          /\ pkgs'[Top.pkg].end = IF Top.pc = "prepare" THEN "begun" ELSE pkgs[Top.pkg].end
    BY <1>4, MoveEnds
  <2>2. n \in 1 .. n /\ Top.pkg \in 1 .. Len(pkgs)
    BY <1>0, <2>1, TopPkg
  <2>3. \A k \in 1 .. n - 1 : k \in 1 .. n /\ stack[k].pkg \in 1 .. Len(pkgs) /\ stack[k].pkg # Top.pkg
    BY <2>1, BelowTop
  <2>4. stack[n].pc \in Past => to \in Past
    BY <1>0, <2>1 DEF Onward, Past
  <2>5. to # "development" /\ (to \in Past => Top.pc = "prepare" \/ Top.pc \in Past)
    BY <2>1 DEF Onward, Past
  <2>6. to = "sources" <=> Top.pc = "prepare"
    BY <2>1 DEF Onward
  <2> HIDE DEF n
  <2>7. \A o \in 1 .. Len(pkgs') : pkgs'[o].end = "error" => Failing'
    BY <1>0, <1>1, <2>1, <2>2 DEF EndInv, n
  <2>8. ASSUME NEW o \in 1 .. Len(pkgs'), pkgs'[o].end = "begun"
        PROVE  \E k \in 1 .. Len(stack') : stack'[k].pkg = o /\ stack'[k].pc \in Past
    <3>1. CASE pkgs[o].end = "begun"
      <4>1. PICK k \in 1 .. n : stack[k].pkg = o /\ stack[k].pc \in Past
        BY <2>1, <2>8, <3>1 DEF EndInv, n
      <4>2. CASE k = n
        BY <2>1, <2>2, <2>4, <4>1, <4>2
      <4>3. CASE k \in 1 .. n - 1
        BY <2>1, <4>1, <4>3
      <4> QED BY <2>1, <4>2, <4>3
    <3>2. CASE pkgs[o].end # "begun"
      <4>1. o = Top.pkg /\ Top.pc = "prepare"
        BY <1>0, <2>1, <2>8, <3>2 DEF n
      <4>2. stack'[n].pkg = o /\ stack'[n].pc = "sources"
        BY <1>0, <2>1, <2>6, <4>1 DEF n
      <4> QED BY <2>1, <2>2, <4>2 DEF Past
    <3> QED BY <3>1, <3>2
  <2>9. ASSUME NEW k \in 1 .. Len(stack')
        PROVE  /\ stack'[k].pc \in Past => pkgs'[stack'[k].pkg].end = "begun"
               /\ stack'[k].pc = "development" => k = 1 /\ pkgs'[stack'[k].pkg].end = "ok"
    <3>1. CASE k \in 1 .. n - 1
      <4>1. stack'[k] = stack[k] /\ pkgs'[stack[k].pkg].end = pkgs[stack[k].pkg].end /\ k \in 1 .. Len(stack)
        BY <1>0, <2>1, <2>3, <3>1 DEF n
      <4> QED BY <4>1 DEF EndInv
    <3>2. CASE k = n
      <4>1. stack[n].pc \in Past => pkgs[stack[n].pkg].end = "begun"
        BY <2>2 DEF EndInv, n
      <4>2. Top = stack[n]
        BY <1>0 DEF n
      <4> QED BY <2>1, <2>5, <3>2, <4>1, <4>2
    <3> QED BY <2>1, <2>9, <3>1, <3>2
  <2> QED BY <2>7, <2>8, <2>9 DEF EndInv
<1>5. CASE Leaves
  <2> DEFINE n == Len(stack)
  <2>1. PICK v \in Results :
          /\ Outcome(v) /\ ret' # << >> /\ ret'[2] = v /\ stack # << >>
          /\ n \in Nat \ {0} /\ Len(stack') = n - 1 /\ Len(pkgs') = Len(pkgs)
          /\ \A k \in 1 .. n - 1 : stack'[k] = stack[k]
          /\ \A q \in 1 .. Len(pkgs) : q # stack[n].pkg => pkgs'[q].end = pkgs[q].end
    BY <1>5, LeaveEnds
  <2>2. n \in 1 .. n /\ Top.pkg \in 1 .. Len(pkgs)
    BY <1>0, <2>1, TopPkg
  <2>3. \A k \in 1 .. n - 1 : k \in 1 .. n /\ stack[k].pkg \in 1 .. Len(pkgs) /\ stack[k].pkg # Top.pkg
    BY <2>1, BelowTop
  <2>4. pkgs'[Top.pkg].end # "begun" /\ (pkgs'[Top.pkg].end = "error" => Failing')
    <3>1. CASE Top.pc = "development"
      <4>1. pkgs'[Top.pkg].end = pkgs[Top.pkg].end
        BY <2>1, <2>2, <3>1, SetsOthers DEF Outcome
      <4>2. pkgs[Top.pkg].end = "ok"
        BY <1>0, <2>2, <3>1 DEF EndInv
      <4> QED BY <4>1, <4>2
    <3>2. CASE Top.pc # "development"
      <4>1. v = -1 => Failing'
        BY <2>1 DEF Failing
      <4>2. \/ v = -1 /\ pkgs'[Top.pkg].end = "error"
            \/ pkgs'[Top.pkg].end \in {"skipped", "ok", "failed"}
        BY <2>1, <2>2, <3>2, SetsOthers DEF Outcome
      <4> QED BY <4>1, <4>2
    <3> QED BY <3>1, <3>2
  <2> HIDE DEF n
  <2>5. Top = stack[n]
    BY <1>0 DEF n
  <2>6. \A o \in 1 .. Len(pkgs') : pkgs'[o].end = "error" => Failing'
    BY <1>1, <2>1, <2>4, <2>5 DEF EndInv
  <2>7. ASSUME NEW o \in 1 .. Len(pkgs'), pkgs'[o].end = "begun"
        PROVE  \E k \in 1 .. Len(stack') : stack'[k].pkg = o /\ stack'[k].pc \in Past
    <3>1. o # Top.pkg /\ pkgs[o].end = "begun" /\ o \in 1 .. Len(pkgs)
      BY <2>1, <2>4, <2>5, <2>7
    <3>2. PICK k \in 1 .. n : stack[k].pkg = o /\ stack[k].pc \in Past
      BY <3>1 DEF EndInv, n
    <3>3. k \in 1 .. n - 1
      BY <2>1, <2>5, <3>1, <3>2
    <3> QED BY <2>1, <3>2, <3>3
  <2>8. ASSUME NEW k \in 1 .. Len(stack')
        PROVE  /\ stack'[k].pc \in Past => pkgs'[stack'[k].pkg].end = "begun"
               /\ stack'[k].pc = "development" => k = 1 /\ pkgs'[stack'[k].pkg].end = "ok"
    <3>1. k \in 1 .. n - 1
      BY <2>1, <2>8
    <3>2. stack'[k] = stack[k] /\ pkgs'[stack[k].pkg].end = pkgs[stack[k].pkg].end /\ k \in 1 .. Len(stack)
      BY <2>1, <2>3, <2>5, <3>1 DEF n
    <3> QED BY <3>2 DEF EndInv
  <2> QED BY <2>6, <2>7, <2>8 DEF EndInv
<1>6. CASE Collects
  <2>1. /\ pkgs' = pkgs /\ Len(stack') = Len(stack) /\ Len(stack) \in Nat \ {0}
        /\ \A k \in 1 .. Len(stack) - 1 : stack'[k] = stack[k]
        /\ stack'[Len(stack)].pkg = stack[Len(stack)].pkg /\ stack'[Len(stack)].pc = stack[Len(stack)].pc
    BY <1>0, <1>6 DEF Collects, Below
  <2>2. \A k \in 1 .. Len(stack) : stack'[k].pkg = stack[k].pkg /\ stack'[k].pc = stack[k].pc
    BY <2>1
  <2> QED BY <1>1, <2>1, <2>2 DEF EndInv
<1>7. CASE Develops
  <2>1. /\ pkgs' = pkgs /\ Len(stack) = 0 /\ Len(stack') = 1 /\ stack = << >> /\ ret # << >> /\ ret[2] = 0
        /\ stack'[1].pkg = ret[1] /\ stack'[1].pc = "development"
    BY <1>0, <1>7 DEF Develops, Pushes
  <2>2. pkgs[ret[1]].end = "ok"
    <3>1. Begun(ret[1])
      BY <2>1 DEF VisitInv
    <3>2. pkgs[ret[1]].end \in {"ok", "skipped"}
      BY <2>1 DEF ResultInv
    <3> QED BY <3>1, <3>2 DEF Begun
  <2> QED BY <1>1, <2>1, <2>2 DEF EndInv, Past
<1>8. CASE Finishes
  <2>1. /\ Len(pkgs') = Len(pkgs) /\ \A q \in 1 .. Len(pkgs) : pkgs'[q].end = pkgs[q].end
        /\ Len(stack) = 0 /\ Len(stack') = 0
    BY <1>0, <1>8 DEF Finishes, Frees, SamePkgs
  <2> QED BY <1>1, <2>1 DEF EndInv
<1> QED BY <1>2, <1>3, <1>4, <1>5, <1>6, <1>7, <1>8, Kinds

\* A package whose installation has begun stays one.
LEMMA BegunStays ==
  ASSUME Basis, VisitInv, [Next]_vars
  PROVE  \A q \in 1 .. Len(pkgs) : Begun(q) => Begun(q)'
<1> SUFFICES ASSUME NEW q \in 1 .. Len(pkgs), Begun(q) PROVE Begun(q)'
  OBVIOUS
<1>0. Typed /\ Top = stack[Len(stack)]
  BY TopIsLast DEF Basis
<1>1. CASE pkgs'[q].end = pkgs[q].end
  BY <1>1 DEF Begun
<1>2. CASE Moves
  <2>1. q = Top.pkg /\ Top.pc = "prepare" => pkgs'[q].end = "begun"
    BY <1>2, MoveEnds
  <2>2. ~(q = Top.pkg /\ Top.pc = "prepare") => pkgs'[q].end = pkgs[q].end
    BY <1>0, <1>2, MoveEnds
  <2> QED BY <1>1, <2>1, <2>2 DEF Begun
<1>3. CASE Leaves
  <2>1. PICK v \in Results :
          /\ Outcome(v) /\ stack # << >>
          /\ \A p \in 1 .. Len(pkgs) : p # stack[Len(stack)].pkg => pkgs'[p].end = pkgs[p].end
    BY <1>3, LeaveEnds
  <2>2. Top.pc = "visit" => pkgs[Top.pkg].end = "none"
    <3>1. Len(stack) \in 1 .. Len(stack)
      BY <1>0, <2>1, TopType
    <3> QED BY <1>0, <3>1 DEF VisitInv
  <2>3. CASE q # Top.pkg \/ Top.pc = "development"
    BY <1>0, <1>1, <2>1, <2>3, SetsOthers DEF Outcome
  <2>4. CASE q = Top.pkg /\ Top.pc # "development"
    <3>1. Top.pc # "visit"
      BY <2>2, <2>4 DEF Begun
    <3>2. pkgs'[q].end \in {"error", "ok", "failed"}
      BY <2>1, <2>4, <3>1, SetsOthers DEF Outcome
    <3> QED BY <3>2 DEF Begun
  <2> QED BY <2>3, <2>4
<1>4. CASE Rests \/ Enters \/ Collects \/ Develops \/ Finishes
  BY <1>1, <1>4 DEF Rests, Enters, Builds, Collects, Develops, Finishes
<1> QED BY <1>2, <1>3, <1>4, Kinds

LEMMA StepResult == Basis /\ VisitInv /\ RootInv /\ EndInv /\ ResultInv /\ [Next]_vars => ResultInv'
<1> SUFFICES ASSUME Basis, VisitInv, RootInv, EndInv, ResultInv, [Next]_vars PROVE ResultInv'
  OBVIOUS
<1>0. /\ Typed /\ ControlInv /\ OrderInv /\ Top = stack[Len(stack)] /\ force' = force
      /\ Len(pkgs) \in Nat
  BY TopIsLast, Fixed, Lengths DEF Basis
\* What is visited.
<1>1. ASSUME visited' = visited
      PROVE  \A n \in visited' : \E o \in 1 .. Len(pkgs') : Begun(o)' /\ Package(o)'.name = n
  <2> SUFFICES ASSUME NEW n \in visited PROVE \E o \in 1 .. Len(pkgs') : Begun(o)' /\ Package(o)'.name = n
    BY <1>1
  <2>1. PICK o \in 1 .. Len(pkgs) : Begun(o) /\ Package(o).name = n
    BY DEF ResultInv
  <2>2. o \in 1 .. Len(pkgs') /\ Begun(o)' /\ Package(o)'.name = n
    BY <2>1, BegunStays, Places DEF Package
  <2> QED BY <2>2
<1>2. CASE Rests
  <2>1. mpc' = "done" => mpc = "done"
    BY <1>2 DEF Rests
  <2> QED BY <1>0, <1>2, <2>1 DEF Rests, ResultInv, Begun, Package
<1>3. CASE Enters \/ Collects \/ Develops
  <2>1. visited' = visited /\ ret' = << >>
    BY <1>3 DEF Enters, Builds, Collects, Develops
  <2>2. mpc' # "done"
    <3>1. CASE stack # << >>
      BY <1>3, <3>1, Running DEF Enters, Collects, Develops
    <3>2. CASE stack = << >>
      BY <1>3, <3>2 DEF Enters, Collects, Develops
    <3> QED BY <3>1, <3>2
  <2> QED BY <1>1, <2>1, <2>2 DEF ResultInv
<1>4. CASE Moves
  <2>1. /\ stack # << >> /\ ret' = << >> /\ mpc' = mpc /\ Len(pkgs') = Len(pkgs)
        /\ pkgs'[Top.pkg].end = IF Top.pc = "prepare" THEN "begun" ELSE pkgs[Top.pkg].end
        /\ visited' = IF Top.pc = "prepare" THEN visited \cup {Package(Top.pkg).name} ELSE visited
    BY <1>4, MoveEnds
  <2>2. mpc' # "done"
    BY <2>1, Running
  <2>3. Top.pkg \in 1 .. Len(pkgs)
    BY <1>0, <2>1, TopPkg
  <2>4. \A n \in visited' : \E o \in 1 .. Len(pkgs') : Begun(o)' /\ Package(o)'.name = n
    <3>1. CASE Top.pc # "prepare"
      BY <1>1, <2>1, <3>1
    <3>2. CASE Top.pc = "prepare"
      <4> TAKE n \in visited'
      <4>1. CASE n \in visited
        <5>1. PICK o \in 1 .. Len(pkgs) : Begun(o) /\ Package(o).name = n
          BY <4>1 DEF ResultInv
        <5>2. o \in 1 .. Len(pkgs') /\ Begun(o)' /\ Package(o)'.name = n
          BY <5>1, BegunStays, Places DEF Package
        <5> QED BY <5>2
      <4>2. CASE n = Package(Top.pkg).name
        <5> DEFINE o == Top.pkg
        <5>1. o \in 1 .. Len(pkgs') /\ pkgs'[o].end = "begun" /\ pkgs'[o].of.name = n
          BY <2>1, <2>3, <3>2, <4>2, Places DEF Package
        <5> HIDE DEF o
        <5> QED BY <5>1 DEF Begun, Package
      <4> QED BY <2>1, <3>2, <4>1, <4>2
    <3> QED BY <3>1, <3>2
  <2> QED BY <2>1, <2>2, <2>4 DEF ResultInv
<1>5. CASE Leaves
  <2>1. PICK v \in Results :
          /\ Outcome(v) /\ ret' # << >> /\ ret'[1] = Top.pkg /\ ret'[2] = v /\ stack # << >> /\ mpc' = mpc
          /\ visited' = visited /\ force' = force
    BY <1>5, LeaveEnds
  <2>2. mpc' # "done"
    BY <2>1, Running
  <2>3. Top.pkg \in 1 .. Len(pkgs) /\ Len(stack) \in 1 .. Len(stack)
    BY <1>0, <2>1, TopPkg, TopType
  <2>4. v = 0 => \/ pkgs'[Top.pkg].end = "ok"
                 \/ /\ pkgs'[Top.pkg].end = "skipped" /\ ~force' /\ Package(Top.pkg).name \in visited'
                    /\ pkgs'[Top.pkg].of.name \in visited'
    <3> SUFFICES ASSUME v = 0 PROVE \/ pkgs'[Top.pkg].end = "ok"
                                    \/ /\ pkgs'[Top.pkg].end = "skipped" /\ ~force' /\ Package(Top.pkg).name \in visited'
                                       /\ pkgs'[Top.pkg].of.name \in visited'
      OBVIOUS
    <3>1. CASE Top.pc = "development"
      <4>1. pkgs'[Top.pkg].end = pkgs[Top.pkg].end
        BY <2>1, <2>3, <3>1, SetsOthers DEF Outcome
      <4>2. pkgs[Top.pkg].end = "ok"
        BY <1>0, <2>3, <3>1 DEF EndInv
      <4> QED BY <4>1, <4>2
    <3>2. CASE Top.pc = "visit"
      <4>1. pkgs'[Top.pkg].end = "skipped"
        BY <2>1, <2>3, <3>2, SetsOthers DEF Outcome
      <4>2. ~force /\ Package(Top.pkg).name \in visited
        BY <1>5, <3>2 DEF Leaves
      <4> QED BY <2>1, <2>3, <4>1, <4>2, Places DEF Package
    <3>3. CASE Top.pc = "deps"
      BY <2>1, <2>3, <3>3, SetsOthers DEF Outcome
    <3> QED BY <2>1, <3>1, <3>2, <3>3 DEF Outcome
  <2>5. v \notin {0, -1} => pkgs'[Top.pkg].end = "failed"
    BY <2>1, <2>3, SetsOthers DEF Outcome
  <2>6. ret' # << >> => CASE ret'[2] = -1 -> TRUE
                          [] ret'[2] = 0 -> \/ pkgs'[ret'[1]].end = "ok"
                                            \/ /\ pkgs'[ret'[1]].end = "skipped" /\ ~force'
                                               /\ pkgs'[ret'[1]].of.name \in visited'
                          [] OTHER -> pkgs'[ret'[1]].end = "failed"
    BY <2>1, <2>4, <2>5
  <2> QED BY <1>1, <2>1, <2>2, <2>6 DEF ResultInv, Package
<1>6. CASE Finishes
  <2>1. /\ Len(pkgs') = Len(pkgs) /\ \A q \in 1 .. Len(pkgs) : pkgs'[q].end = pkgs[q].end
        /\ ret # << >> /\ stack = << >> /\ ret' = << >> /\ code' = ret[2] /\ visited' = visited
    BY <1>6 DEF Finishes, Frees, SamePkgs
  <2>2. ret[1] = 1 /\ 1 \in 1 .. Len(pkgs) /\ Begun(1)
    BY <1>0, <2>1 DEF RootInv, OrderInv, VisitInv
  <2>3. code' = 0 => pkgs[1].end = "ok"
    <3>1. ret[2] = 0 => pkgs[1].end \in {"ok", "skipped"}
      BY <2>1, <2>2 DEF ResultInv
    <3> QED BY <2>1, <2>2, <3>1 DEF Begun
  <2> QED BY <1>1, <2>1, <2>2, <2>3 DEF ResultInv
<1> QED BY <1>2, <1>3, <1>4, <1>5, <1>6, Kinds

-----------------------------------------------------------------------------
(* What has been seen to *)

\* As long as nothing fails, what has been seen to stays so.
LEMMA AccountedStays ==
  ASSUME Basis, VisitInv, [Next]_vars, ~Failing'
  PROVE  \A s, dir : AccountedIn(pkgs, server, force, s, dir) => AccountedIn(pkgs', server', force', s, dir)
<1>0. Typed /\ OrderInv /\ Top = stack[Len(stack)]
  BY TopIsLast DEF Basis
<1>1. ASSUME NEW q \in 1 .. Len(pkgs), pkgs[q].end \in Seen PROVE pkgs'[q].end \in Seen
  <2>1. CASE pkgs'[q].end = pkgs[q].end
    BY <1>1, <2>1
  <2>2. CASE Moves
    <3>1. q = Top.pkg /\ Top.pc = "prepare" => pkgs'[q].end = "begun"
      BY <2>2, MoveEnds
    <3>2. ~(q = Top.pkg /\ Top.pc = "prepare") => pkgs'[q].end = pkgs[q].end
      BY <1>0, <2>2, MoveEnds
    <3> QED BY <2>1, <3>1, <3>2 DEF Seen
  <2>3. CASE Leaves
    <3>1. PICK v \in Results :
            /\ Outcome(v) /\ stack # << >> /\ ret' # << >> /\ ret'[2] = v
            /\ \A p \in 1 .. Len(pkgs) : p # stack[Len(stack)].pkg => pkgs'[p].end = pkgs[p].end
      BY <2>3, LeaveEnds
    <3>2. Top.pc = "visit" => pkgs[Top.pkg].end = "none"
      <4>1. Len(stack) \in 1 .. Len(stack)
        BY <1>0, <3>1, TopType
      <4> QED BY <1>0, <4>1 DEF VisitInv
    <3>3. v # -1
      BY <3>1 DEF Failing
    <3>4. CASE q # Top.pkg \/ Top.pc = "development"
      BY <1>0, <2>1, <3>1, <3>4, SetsOthers DEF Outcome
    <3>5. CASE q = Top.pkg /\ Top.pc # "development"
      <4>1. Top.pc # "visit"
        BY <1>1, <3>2, <3>5 DEF Seen
      <4>2. pkgs'[q].end \in {"ok", "failed"}
        BY <3>1, <3>3, <3>5, <4>1, SetsOthers DEF Outcome
      <4> QED BY <4>2 DEF Seen
    <3> QED BY <3>4, <3>5
  <2>4. CASE Rests \/ Enters \/ Collects \/ Develops \/ Finishes
    BY <2>1, <2>4 DEF Rests, Enters, Builds, Collects, Develops, Finishes
  <2> QED BY <2>2, <2>3, <2>4, Kinds
<1>2. server' = server /\ force' = force
  BY Fixed
<1> SUFFICES ASSUME NEW s, NEW dir, AccountedIn(pkgs, server, force, s, dir)
             PROVE  AccountedIn(pkgs', server', force', s, dir)
  OBVIOUS
<1>3. PICK q \in 1 .. Len(pkgs) :
        pkgs[q].of.name = server[s].name /\ (force => pkgs[q].dir = dir) /\ pkgs[q].end \in Seen
  BY DEF AccountedIn
<1>4. q \in 1 .. Len(pkgs') /\ pkgs'[q].of = pkgs[q].of /\ pkgs'[q].dir = pkgs[q].dir
  BY Places
<1>5. pkgs'[q].end \in Seen
  BY <1>1, <1>3
<1> QED BY <1>2, <1>3, <1>4, <1>5 DEF AccountedIn

LEMMA CoveredStays ==
  ASSUME Basis, VisitInv, [Next]_vars, ~Failing'
  PROVE  /\ \A f : f.pkg \in 1 .. Len(pkgs) /\ FrameCovered(pkgs, server, force, f)
                     => FrameCovered(pkgs', server', force', f)
         /\ \A o \in 1 .. Len(pkgs) : PackageCovered(pkgs, server, force, o)
                     => PackageCovered(pkgs', server', force', o)
         /\ 1 \in 1 .. Len(pkgs) /\ DevCovered(pkgs, server, force) => DevCovered(pkgs', server', force')
<1>1. \A s, dir : AccountedIn(pkgs, server, force, s, dir) => AccountedIn(pkgs', server', force', s, dir)
  BY AccountedStays
<1>2. \A q \in 1 .. Len(pkgs) : pkgs'[q].of = pkgs[q].of /\ pkgs'[q].dir = pkgs[q].dir
  BY Places
<1>3. \A f : f.pkg \in 1 .. Len(pkgs) => ListIn(pkgs', f) = ListIn(pkgs, f) /\ DirIn(pkgs', f) = DirIn(pkgs, f)
  BY ListStays
<1>4. ASSUME NEW f, f.pkg \in 1 .. Len(pkgs), FrameCovered(pkgs, server, force, f)
      PROVE  FrameCovered(pkgs', server', force', f)
  BY <1>1, <1>2, <1>3, <1>4 DEF FrameCovered
<1>5. ASSUME NEW o \in 1 .. Len(pkgs), PackageCovered(pkgs, server, force, o)
      PROVE  PackageCovered(pkgs', server', force', o)
  BY <1>1, <1>2, <1>5 DEF PackageCovered
<1>6. ASSUME 1 \in 1 .. Len(pkgs), DevCovered(pkgs, server, force)
      PROVE  DevCovered(pkgs', server', force')
  BY <1>1, <1>2, <1>6 DEF DevCovered
<1> QED BY <1>4, <1>5, <1>6

\* What comes back without -1 has been seen to, were it as another call's package.
LEMMA ReturnedIsSeen ==
  ASSUME Basis, EndInv, ResultInv, ~Failing, NEW f, NEW j, f.next = j,
         ret # << >>, ret[2] # -1, ChildIn(pkgs, server, f, ret[1])
  PROVE  AccountedIn(pkgs, server, force, ListIn(pkgs, f)[j], DirIn(pkgs, f))
<1>1. ret[1] \in 1 .. Len(pkgs)
  BY DEF Basis, OrderInv
<1>2. pkgs[ret[1]].of.name = server[ListIn(pkgs, f)[j]].name /\ pkgs[ret[1]].dir = DirIn(pkgs, f)
  BY DEF ChildIn
<1>3. CASE pkgs[ret[1]].end \in {"ok", "failed"}
  BY <1>1, <1>2, <1>3 DEF AccountedIn, Seen
<1>4. CASE ~force /\ Package(ret[1]).name \in visited
  <2>1. PICK o \in 1 .. Len(pkgs) : Begun(o) /\ Package(o).name = Package(ret[1]).name
    BY <1>4 DEF ResultInv
  <2>2. pkgs[o].end \in Seen
    <3>1. pkgs[o].end \in Ends /\ pkgs[o].end # "error"
      BY PkgType DEF Basis, EndInv
    <3> QED BY <2>1, <3>1 DEF Begun, Ends, Seen
  <2> QED BY <1>2, <1>4, <2>1, <2>2 DEF AccountedIn, Package
<1> QED BY <1>3, <1>4 DEF ResultInv

LEMMA StepCover ==
  Basis /\ VisitInv /\ RootInv /\ ChainInv /\ EndInv /\ ResultInv /\ CoverInv /\ [Next]_vars => CoverInv'
<1> SUFFICES ASSUME Basis, VisitInv, RootInv, ChainInv, EndInv, ResultInv, CoverInv, [Next]_vars, ~Failing'
             PROVE  /\ \A k \in 1 .. Len(stack') : FrameCovered(pkgs', server', force', stack'[k])
                    /\ \A o \in 1 .. Len(pkgs') : pkgs'[o].end = "ok" => PackageCovered(pkgs', server', force', o)
                    /\ developed' /\ stack' = << >> => DevCovered(pkgs', server', force')
  BY DEF CoverInv
<1>0. /\ Typed /\ ControlInv /\ OrderInv /\ Len(stack) \in Nat /\ Len(pkgs) \in Nat
      /\ stack = << >> <=> Len(stack) = 0
      /\ Top = stack[Len(stack)] /\ server' = server /\ force' = force
  BY Lengths, Fixed, TopIsLast DEF Basis
<1>1. ~Failing
  BY FailureStays
<1>2. /\ \A k \in 1 .. Len(stack) : FrameCovered(pkgs, server, force, stack[k])
      /\ \A o \in 1 .. Len(pkgs) : pkgs[o].end = "ok" => PackageCovered(pkgs, server, force, o)
      /\ developed /\ stack = << >> => DevCovered(pkgs, server, force)
  BY <1>1 DEF CoverInv
<1>3. \A k \in 1 .. Len(stack) : stack[k].pkg \in 1 .. Len(pkgs)
  BY <1>0 DEF OrderInv
\* The calls and the packages that there were.
<1>4. /\ \A k \in 1 .. Len(stack) : FrameCovered(pkgs', server', force', stack[k])
      /\ \A o \in 1 .. Len(pkgs) : pkgs[o].end = "ok" => PackageCovered(pkgs', server', force', o)
  BY <1>2, <1>3, CoveredStays
<1>5. CASE Rests
  <2>1. developed' = developed
    BY <1>5, Developing DEF Rests, Develops
  <2> QED BY <1>0, <1>2, <1>5, <2>1 DEF Rests
<1>6. CASE Enters
  <2>1. /\ Len(stack') = Len(stack) + 1 /\ \A k \in 1 .. Len(stack) : stack'[k] = stack[k]
        /\ stack'[Len(stack) + 1].pc = "visit" /\ Len(pkgs') = Len(pkgs) + 1
        /\ \A q \in 1 .. Len(pkgs) : pkgs'[q] = pkgs[q]
        /\ pkgs'[Len(pkgs) + 1].end = "none" /\ stack' # << >>
    BY <1>6 DEF Enters, Builds, Pushes
  <2>2. FrameCovered(pkgs', server', force', stack'[Len(stack) + 1])
    BY <2>1 DEF FrameCovered, Loops
  <2>3. \A k \in 1 .. Len(stack') : k \in 1 .. Len(stack) \/ k = Len(stack) + 1
    BY <1>0, <2>1
  <2>4. \A o \in 1 .. Len(pkgs') : pkgs'[o].end = "ok" => o \in 1 .. Len(pkgs) /\ pkgs[o].end = "ok"
    BY <1>0, <2>1
  <2>5. \A k \in 1 .. Len(stack') : FrameCovered(pkgs', server', force', stack'[k])
    BY <1>4, <2>1, <2>2, <2>3
  <2> QED BY <1>4, <2>1, <2>4, <2>5
<1>7. CASE Moves
  <2> DEFINE n == Len(stack)
  <2>1. PICK to \in Pcs :
          /\ Onward(to) /\ stack # << >> /\ ret = << >>
          /\ n \in Nat \ {0} /\ Len(stack') = n /\ Len(pkgs') = Len(pkgs)
          /\ \A k \in 1 .. n - 1 : stack'[k] = stack[k]
          /\ stack'[n].pkg = stack[n].pkg /\ stack'[n].pc = to
          /\ \A q \in 1 .. Len(pkgs) : q # stack[n].pkg => pkgs'[q].end = pkgs[q].end
          /\ pkgs'[Top.pkg].end = IF Top.pc = "prepare" THEN "begun" ELSE pkgs[Top.pkg].end
    BY <1>7, MoveEnds
  <2>2. n \in 1 .. n /\ Top.pkg \in 1 .. Len(pkgs) /\ stack'[n].next = 1
    BY <1>0, <1>7, <2>1, TopPkg DEF Moves, Advances, Goes
  <2>3. FrameCovered(pkgs', server', force', stack'[n])
    <3>1. ASSUME to \in {"command", "deps"}, pkgs'[Top.pkg].of.install
          PROVE  \A j \in DOMAIN pkgs'[Top.pkg].of.deps :
                   AccountedIn(pkgs', server', force', pkgs'[Top.pkg].of.deps[j], pkgs'[Top.pkg].of.name)
      <4>1. pkgs'[Top.pkg].of = pkgs[Top.pkg].of /\ FrameCovered(pkgs', server', force', Top)
        BY <1>0, <1>4, <2>2, Places
      <4>2. CASE Top.pc = "command"
        BY <3>1, <4>1, <4>2 DEF FrameCovered
      <4>3. CASE Top.pc = "unpacked" /\ Top.next > Len(List)
        <5>1. List = pkgs[Top.pkg].of.deps /\ List \in Seq(Slugs)
          BY <1>0, <2>2, <4>3, PkgType DEF List, Package
        <5>2. /\ ListIn(pkgs', Top) = pkgs[Top.pkg].of.deps /\ DirIn(pkgs', Top) = pkgs[Top.pkg].of.name
          BY <4>1, <4>3 DEF ListIn, DirIn
        <5>3. Top.next \in Nat \ {0}
          BY <1>0, <2>1, TopType
        <5>4. \A j \in DOMAIN pkgs[Top.pkg].of.deps : j \in 1 .. Top.next - 1
          <6>1. DOMAIN pkgs[Top.pkg].of.deps = 1 .. Len(List) /\ Len(List) \in Nat
            BY <5>1, LenProperties
          <6> DEFINE m == Top.next
                     l == Len(List)
          <6>2. m \in Nat /\ l \in Nat /\ m > l /\ DOMAIN pkgs[Top.pkg].of.deps = 1 .. l
            BY <4>3, <5>3, <6>1
          <6> HIDE DEF m, l
          <6>3. \A j \in DOMAIN pkgs[Top.pkg].of.deps : j \in 1 .. m - 1
            BY <6>2
          <6> QED BY <6>3 DEF m
        <5>5. \A j \in 1 .. Top.next - 1 :
                AccountedIn(pkgs', server', force', ListIn(pkgs', Top)[j], DirIn(pkgs', Top))
          BY <4>1, <4>3 DEF FrameCovered, Loops
        <5> QED BY <4>1, <5>2, <5>4, <5>5
      <4>4. CASE Top.pc = "sources"
        BY <2>1, <3>1, <4>1, <4>4 DEF Onward, Package
      <4> QED BY <2>1, <3>1, <4>2, <4>3, <4>4 DEF Onward
    <3>2. \A j \in 1 .. stack'[n].next - 1 : FALSE
      BY <2>2
    <3>3. stack'[n].pkg = Top.pkg /\ stack'[n].pc = to
      BY <1>0, <2>1
    <3> HIDE DEF n
    <3> QED BY <3>1, <3>2, <3>3 DEF FrameCovered
  <2> HIDE DEF n
  <2>4. \A k \in 1 .. Len(stack') : FrameCovered(pkgs', server', force', stack'[k])
    <3> TAKE k \in 1 .. Len(stack')
    <3>1. k \in 1 .. n - 1 \/ k = n
      BY <2>1
    <3>2. CASE k \in 1 .. n - 1
      <4>1. k \in 1 .. Len(stack) /\ stack'[k] = stack[k]
        BY <2>1, <3>2 DEF n
      <4> QED BY <1>4, <4>1
    <3> QED BY <2>3, <3>1, <3>2
  <2>5. \A o \in 1 .. Len(pkgs') : pkgs'[o].end = "ok" => o \in 1 .. Len(pkgs) /\ pkgs[o].end = "ok"
    BY <1>0, <2>1 DEF n
  <2>6. stack' # << >>
    BY <1>7 DEF Moves, Advances
  <2> QED BY <1>4, <2>4, <2>5, <2>6
<1>8. CASE Leaves
  <2> DEFINE n == Len(stack)
  <2>1. PICK v \in Results :
          /\ Outcome(v) /\ ret' # << >> /\ ret'[2] = v /\ stack # << >>
          /\ n \in Nat \ {0} /\ Len(stack') = n - 1 /\ Len(pkgs') = Len(pkgs)
          /\ \A k \in 1 .. n - 1 : stack'[k] = stack[k]
          /\ \A q \in 1 .. Len(pkgs) : q # stack[n].pkg => pkgs'[q].end = pkgs[q].end
          /\ (stack' = << >> <=> n = 1)
    BY <1>8, LeaveEnds
  <2>2. v # -1
    BY <2>1 DEF Failing
  <2>3. n \in 1 .. n /\ Top.pkg \in 1 .. Len(pkgs) /\ Top = stack[n]
    BY <1>0, <2>1, TopPkg
  <2>4. FrameCovered(pkgs', server', force', Top)
    BY <1>4, <2>3
  <2>5. pkgs'[Top.pkg].of = pkgs[Top.pkg].of /\ pkgs'[Top.pkg].dir = Top.dir
    BY <2>3, Places DEF ChainInv
  \* The call that returns 0 has seen to all of its list.
  <2>6. ASSUME Top.pc \in {"deps", "development"}, Top.next > Len(List)
        PROVE  \A j \in DOMAIN List : AccountedIn(pkgs', server', force', List[j], Top.dir)
    <3>1. List = ListIn(pkgs', Top) /\ DirIn(pkgs', Top) = Top.dir /\ Top.pc \in Loops
      BY <2>5, <2>6 DEF List, ListIn, DirIn, Package, Loops
    <3>2. List \in Seq(Slugs) /\ Top.next \in Nat
      BY <1>0, <2>1, <2>3, PkgType, TopType DEF List
    <3>3. DOMAIN List = 1 .. Len(List) /\ Len(List) \in Nat
      BY <3>2, LenProperties
    <3>4. \A j \in DOMAIN List : j \in 1 .. Top.next - 1
      <4> DEFINE m == Top.next
                 l == Len(List)
      <4>1. m \in Nat /\ l \in Nat /\ m > l /\ DOMAIN List = 1 .. l
        BY <2>6, <3>2, <3>3
      <4> HIDE DEF m, l
      <4>2. \A j \in DOMAIN List : j \in 1 .. m - 1
        BY <4>1
      <4> QED BY <4>2 DEF m
    <3>5. \A j \in 1 .. Top.next - 1 :
            AccountedIn(pkgs', server', force', ListIn(pkgs', Top)[j], DirIn(pkgs', Top))
      BY <2>4, <3>1 DEF FrameCovered
    <3> QED BY <3>1, <3>4, <3>5
  <2>7. \A k \in 1 .. Len(stack') : FrameCovered(pkgs', server', force', stack'[k])
    <3> TAKE k \in 1 .. Len(stack')
    <3>1. k \in 1 .. n - 1 /\ k \in 1 .. n
      BY <2>1
    <3> QED BY <1>4, <2>1, <3>1
  <2>8. ASSUME NEW o \in 1 .. Len(pkgs'), pkgs'[o].end = "ok" PROVE PackageCovered(pkgs', server', force', o)
    <3>1. CASE pkgs[o].end = "ok"
      BY <1>4, <2>1, <3>1
    <3>2. CASE pkgs[o].end # "ok"
      <4>1. o = Top.pkg /\ o \in 1 .. Len(pkgs)
        BY <2>1, <2>3, <2>8, <3>2
      <4>2. Top.pc = "deps" /\ Top.next > Len(List)
        BY <2>1, <2>2, <2>8, <3>2, <4>1, SetsOthers DEF Outcome
      <4>3. List = pkgs'[o].of.deps
        BY <2>5, <4>1, <4>2 DEF List, Package
      <4>4. \A j \in DOMAIN pkgs'[o].of.deps :
              AccountedIn(pkgs', server', force', pkgs'[o].of.deps[j], pkgs'[o].dir)
        BY <2>5, <2>6, <4>1, <4>2, <4>3
      <4>5. pkgs'[o].of.install => \A j \in DOMAIN pkgs'[o].of.deps :
              AccountedIn(pkgs', server', force', pkgs'[o].of.deps[j], pkgs'[o].of.name)
        BY <2>4, <4>1, <4>2 DEF FrameCovered
      <4> QED BY <4>4, <4>5 DEF PackageCovered
    <3> QED BY <3>1, <3>2
  <2>9. ASSUME developed', stack' = << >> PROVE DevCovered(pkgs', server', force')
    <3>1. developed
      BY <1>8, <2>9, Developing DEF Leaves, Returns, Pops, Develops
    <3>2. n = 1 /\ Top.pc = "development" /\ Top.pkg = 1
      BY <2>1, <2>3, <2>9, <3>1 DEF RootInv, n
    <3>3. Top.next > Len(List) /\ List = pkgs'[1].of.dev /\ Top.dir = Asked
      BY <2>1, <2>2, <2>3, <2>5, <3>2 DEF Outcome, List, Package, RootInv, ChainInv
    <3> QED BY <2>6, <3>2, <3>3 DEF DevCovered
  <2> QED BY <2>7, <2>8, <2>9
<1>9. CASE Collects
  <2> DEFINE n == Len(stack)
  <2>1. /\ pkgs' = pkgs /\ Len(stack') = n /\ n \in Nat \ {0} /\ stack # << >> /\ stack' # << >>
        /\ \A k \in 1 .. n - 1 : stack'[k] = stack[k]
        /\ stack'[n].pkg = Top.pkg /\ stack'[n].pc = Top.pc /\ stack'[n].dir = Top.dir
        /\ stack'[n].next = Top.next + 1 /\ ret # << >> /\ ret[2] # -1 /\ Top.pc \in Loops
    BY <1>9 DEF Collects, Below
  <2>2. n \in 1 .. n /\ Top.next \in Nat \ {0}
    BY <1>0, <2>1, TopType
  <2>3. AccountedIn(pkgs, server, force, ListIn(pkgs, Top)[Top.next], DirIn(pkgs, Top))
    <3>1. ChildIn(pkgs, server, Top, ret[1])
      BY <2>1 DEF ChainInv
    <3> QED BY <1>1, <2>1, <3>1, ReturnedIsSeen
  <2>4. FrameCovered(pkgs, server, force, Top)
    BY <1>0, <1>2, <2>2
  <2>5. FrameCovered(pkgs, server, force, stack'[n])
    <3>1. ListIn(pkgs, stack'[n]) = ListIn(pkgs, Top) /\ DirIn(pkgs, stack'[n]) = DirIn(pkgs, Top)
      BY <2>1 DEF ListIn, DirIn
    <3>2. \A j \in 1 .. stack'[n].next - 1 : j \in 1 .. Top.next - 1 \/ j = Top.next
      BY <2>1, <2>2
    <3>3. \A j \in 1 .. stack'[n].next - 1 :
            AccountedIn(pkgs, server, force, ListIn(pkgs, stack'[n])[j], DirIn(pkgs, stack'[n]))
      BY <2>1, <2>3, <2>4, <3>1, <3>2 DEF FrameCovered
    <3> HIDE DEF n
    <3> QED BY <2>1, <2>4, <3>3 DEF FrameCovered
  <2>6. \A k \in 1 .. Len(stack') : FrameCovered(pkgs', server', force', stack'[k])
    <3> TAKE k \in 1 .. Len(stack')
    <3>1. (k \in 1 .. n - 1 /\ k \in 1 .. n) \/ k = n
      BY <2>1
    <3> QED BY <1>0, <1>2, <2>1, <2>5, <3>1
  <2> QED BY <1>0, <1>2, <2>1, <2>6
<1>10. CASE Develops
  <2>1. /\ pkgs' = pkgs /\ Len(stack') = 1 /\ stack'[1].pc = "development" /\ stack'[1].next = 1
        /\ stack' # << >>
    BY <1>0, <1>10 DEF Develops, Pushes
  <2>2. FrameCovered(pkgs, server, force, stack'[1])
    BY <2>1 DEF FrameCovered
  <2> QED BY <1>0, <1>2, <2>1, <2>2
<1>11. CASE Finishes
  <2>1. /\ Len(pkgs') = Len(pkgs) /\ \A q \in 1 .. Len(pkgs) : pkgs'[q].end = pkgs[q].end
        /\ Len(stack') = 0 /\ stack = << >> /\ ret # << >>
    BY <1>0, <1>11 DEF Finishes, Frees, SamePkgs
  <2>2. developed' = developed
    BY <1>11, Developing DEF Finishes, Develops
  <2>3. 1 \in 1 .. Len(pkgs)
    BY <1>0, <2>1 DEF RootInv, OrderInv
  <2> QED BY <1>2, <1>4, <2>1, <2>2, <2>3, CoveredStays
<1> QED BY <1>5, <1>6, <1>7, <1>8, <1>9, <1>10, <1>11, Kinds

-----------------------------------------------------------------------------
(* The theorem *)

LEMMA InitCover ==
  ASSUME \A sv \in Servers : NamesAgree(sv), Init
  PROVE  CInv
<1>1. /\ server \in Servers /\ mpc = "start" /\ code = 0 /\ stack = << >> /\ ret = << >>
      /\ visited = {} /\ pkgs = << >> /\ developed = FALSE /\ jsons = << >> /\ lpc = "idle"
  BY DEF Init, LoadInit
<1>2. Len(stack) = 0 /\ Len(pkgs) = 0 /\ DOMAIN jsons = {}
  BY <1>1, EmptySeq
<1> QED BY <1>1, <1>2 DEF CInv, CacheInv, SlugInv, RootInv, ChainInv, EndInv, ResultInv, CoverInv

\* What has been seen to has been found, once no installation is going on.
LEMMA AccountedIsFound ==
  ASSUME Basis, EndInv, stack = << >>, NEW s, NEW dir, AccountedIn(pkgs, server, force, s, dir)
  PROVE  Found(s, IF force THEN {dir} ELSE Names \cup {Asked})
<1>1. PICK q \in 1 .. Len(pkgs) :
        pkgs[q].of.name = server[s].name /\ (force => pkgs[q].dir = dir) /\ pkgs[q].end \in Seen
  BY DEF AccountedIn
<1>2. Typed /\ Len(stack) = 0 /\ DOMAIN pkgs = 1 .. Len(pkgs)
  BY EmptySeq, LenProperties DEF Basis, Typed
<1>3. pkgs[q].dir \in Names \cup {Asked}
  BY <1>2, PkgType DEF Objects
<1>4. pkgs[q].end # "begun"
  BY <1>2 DEF EndInv
<1> QED BY <1>1, <1>2, <1>3, <1>4 DEF Found, Seen, Package

\* When an installation succeeds, everything that it needed is there, however the
\* packages depend on each other: a dependency counts as done when it was installed,
\* skipped because another call has it, or failed without -1, and every one before the
\* one that is next has been seen to (lines 359-388).  Where a repository has the name of
\* some package, it must be that package's: the manifest cache is asked by repository
\* and filled by name.
THEOREM TreeAlwaysCovered ==
  ASSUME \A sv \in Servers : NamesAgree(sv)
  PROVE  Spec => []TreeCovered
<1>1. IInv /\ CInv => TreeCovered
  <2> SUFFICES ASSUME IInv, CInv, mpc = "done", code = 0
               PROVE  /\ pkgs[1].end = "ok"
                      /\ \A o \in DOMAIN pkgs : pkgs[o].end = "ok" =>
                           /\ AllFound(Package(o).deps, pkgs[o].dir)
                           /\ Package(o).install => AllFound(Package(o).deps, Package(o).name)
                      /\ developed => AllFound(Package(1).dev, Asked)
    BY DEF TreeCovered
  <2>1. /\ Basis /\ EndInv /\ ResultInv /\ CoverInv /\ stack = << >> /\ ret = << >>
        /\ DOMAIN pkgs = 1 .. Len(pkgs)
    BY LenProperties DEF IInv, CInv, Basis, Typed, ControlInv
  <2>2. ~Failing
    BY <2>1 DEF Failing
  <2>3. \A s, dir : AccountedIn(pkgs, server, force, s, dir)
                      => Found(s, IF force THEN {dir} ELSE Names \cup {Asked})
    BY <2>1, AccountedIsFound
  <2>4. pkgs[1].end = "ok"
    BY <2>1 DEF ResultInv
  <2>5. ASSUME NEW o \in DOMAIN pkgs, pkgs[o].end = "ok"
        PROVE  /\ AllFound(Package(o).deps, pkgs[o].dir)
               /\ Package(o).install => AllFound(Package(o).deps, Package(o).name)
    <3>1. PackageCovered(pkgs, server, force, o)
      BY <2>1, <2>2, <2>5 DEF CoverInv
    <3> QED BY <2>3, <3>1 DEF PackageCovered, AllFound, Package
  <2>6. developed => AllFound(Package(1).dev, Asked)
    BY <2>1, <2>2, <2>3 DEF CoverInv, DevCovered, AllFound, Package
  <2> QED BY <2>4, <2>5, <2>6
<1>2. Init => CInv
  BY InitCover
<1>3. IInv /\ CInv /\ [Next]_vars => CInv'
  BY StepCache, StepSlug, StepRoot, StepChain, StepEnd, StepResult, StepCover DEF IInv, CInv
<1> QED BY <1>1, <1>2, <1>3, Inductive, PTL DEF Spec
=============================================================================
