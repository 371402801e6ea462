----------------------------- MODULE InstallTree -----------------------------
(***************************************************************************)
(* A package and its dependencies are installed: a program that loads a    *)
(* package, calls clib_package_install(), and perhaps                      *)
(* clib_package_install_development(), and frees it, as the tests of hw-16 *)
(* do.  Each call of these that has not returned is a frame of the stack,  *)
(* with the install_packages() it has called.  What                        *)
(* SourceFetch models, the fetching of the package's own files, is one     *)
(* step here, with each of its results.                                    *)
(***************************************************************************)
EXTENDS ManifestLoad, FiniteSets

CONSTANTS
  Root,       \* the slug the program asks for
  Servers,    \* what the repositories may hold
  Failed,     \* a result that is neither 0 nor -1
  Asked       \* the directory the program asks for; the name of a package
              \* stands for deps/ where that package was unpacked

ASSUME TreeAssumption ==
  /\ IsFiniteSet(Slugs) /\ IsFiniteSet(Names)
  /\ \A s \in Slugs : s.version \in Versions
  /\ Root \in Slugs /\ Servers \subseteq [Slugs -> Manifests]
  /\ Failed \in Int \ {0, -1} /\ Asked \notin Names

VARIABLES
  force,      \* opts.force
  mpc,        \* where the program is
  code,       \* what its clib_package_install() returned
  stack,      \* calls of clib_package_install(), the innermost last
  ret,        \* the call that has just returned, <<package, its result>>, or << >>
  visited,    \* visited_packages
  pkgs,       \* packages built so far, [of: its manifest, mem, dir: where it is
              \*   installed, end: what became of its installation (history)]
  developed   \* the development dependencies were installed too (history)

treeVars == <<mpc, code, stack, ret, visited, pkgs, developed>>
vars == <<loadVars, fixed, force, treeVars>>

Results == {0, -1, Failed}
Top == stack[Len(stack)]
Package(o) == pkgs[o].of
\* The list that install_packages() is given.
List == IF Top.pc = "development" THEN Package(Top.pkg).dev ELSE Package(Top.pkg).deps

\* With opts.force nothing is ever skipped: a cycle of dependencies has no end.
Acyclic == \E rank \in [Slugs -> 0 .. Cardinality(Slugs)] :
  \A s \in Slugs : \A k \in DOMAIN server[s].deps : rank[server[s].deps[k]] < rank[s]

Init ==
  /\ server \in Servers /\ skip_cache \in BOOLEAN
  /\ force \in BOOLEAN /\ (force => Acyclic)
  /\ LoadInit(Root)
  /\ mpc = "start" /\ code = 0 /\ stack = << >> /\ ret = << >>
  /\ visited = {} /\ pkgs = << >> /\ developed = FALSE

-----------------------------------------------------------------------------
(* The program *)

Start ==
  /\ mpc = "start" /\ mpc' = "load"
  /\ Load(Root)
  /\ UNCHANGED <<fixed, force, developed, code, stack, ret, visited, pkgs>>

Frame(o, dir, pc) == [pkg |-> o, dir |-> dir, pc |-> pc, next |-> 1, freelist |-> << >>]
Built(dir) == Append(pkgs, [of |-> manifest, mem |-> "live", dir |-> dir, end |-> "none"])

RootLoaded ==
  /\ mpc = "load" /\ mpc' = "install"
  /\ Taken("loaded")
  /\ pkgs' = Built(Asked) /\ stack' = <<Frame(Len(pkgs'), Asked, "visit")>>
  /\ UNCHANGED <<fixed, force, developed, code, ret, visited>>

RootNull ==
  /\ mpc = "load" /\ mpc' = "failed"
  /\ Taken("null")
  /\ UNCHANGED <<fixed, force, developed, code, stack, ret, visited, pkgs>>

\* clib_package_free() of every package of a list.
FreeOf(mem) == IF mem = "live" THEN "freed" ELSE "freed_twice"
FreeAll(objs, ps) == [o \in DOMAIN ps |->
  IF \E k \in DOMAIN objs : objs[k] = o THEN [ps[o] EXCEPT !.mem = FreeOf(@)] ELSE ps[o]]

\* clib_package_install_development(), of a package that is installed.
Develop ==
  /\ mpc = "install" /\ stack = << >> /\ ret # << >> /\ ret[2] = 0
  /\ developed' = TRUE /\ mpc' = "develop"
  /\ stack' = <<Frame(ret[1], Asked, "development")>> /\ ret' = << >>
  /\ UNCHANGED <<loadVars, fixed, force, code, visited, pkgs>>

Finish ==
  /\ mpc \in {"install", "develop"} /\ mpc' = "done"
  /\ stack = << >> /\ ret # << >>
  /\ code' = ret[2] /\ pkgs' = FreeAll(<<ret[1]>>, pkgs) /\ ret' = << >>
  /\ UNCHANGED <<loadVars, fixed, force, developed, stack, visited>>

Over == mpc \in {"done", "failed"} \/ lpc = "crashed"
Stays == Over /\ UNCHANGED vars

-----------------------------------------------------------------------------
(* clib_package_install() *)

At(pc) == stack # << >> /\ ret = << >> /\ lpc = "idle" /\ Top.pc = pc
Become(f) == stack' = [stack EXCEPT ![Len(stack)] = f]
Go(to) == Become([Top EXCEPT !.pc = to, !.next = 1, !.freelist = << >>])
Pop(o, v) == stack' = SubSeq(stack, 1, Len(stack) - 1) /\ ret' = <<o, v>>

Mark(o, end) == pkgs' = [pkgs EXCEPT ![o].end = end]
Ended(v) == IF v = 0 THEN "ok" ELSE IF v = -1 THEN "error" ELSE "failed"
Return(v) == Pop(Top.pkg, v) /\ Mark(Top.pkg, Ended(v))

Visited ==
  /\ At("visit") /\ ~force /\ Package(Top.pkg).name \in visited
  /\ Pop(Top.pkg, 0) /\ Mark(Top.pkg, "skipped")
  /\ UNCHANGED <<loadVars, fixed, force, developed, mpc, code, visited>>

\* (faulty form of NotVisited: nobody asks)
NotVisitedUnasked ==
  /\ At("visit")
  /\ Go("prepare")
  /\ UNCHANGED <<loadVars, fixed, force, developed, mpc, code, ret, visited, pkgs>>

NotVisited ==
  /\ At("visit") /\ (force \/ Package(Top.pkg).name \notin visited)
  /\ Go("prepare")
  /\ UNCHANGED <<loadVars, fixed, force, developed, mpc, code, ret, visited, pkgs>>

\* (faulty form of Prepare: the package does not count as visited)
PrepareUnvisited ==
  /\ At("prepare") /\ Go("sources")
  /\ Mark(Top.pkg, "begun")
  /\ UNCHANGED <<loadVars, fixed, force, developed, mpc, code, ret, visited>>

\* The package's directory and manifest are written, and it counts as visited.
Prepare ==
  /\ At("prepare") /\ Go("sources")
  /\ visited' = visited \cup {Package(Top.pkg).name}
  /\ Mark(Top.pkg, "begun")
  /\ UNCHANGED <<loadVars, fixed, force, developed, mpc, code, ret>>

\* SourceFetch, and configure.
FetchSources ==
  /\ At("sources")
  /\ Go(IF Package(Top.pkg).install THEN "executable" ELSE "deps")
  /\ UNCHANGED <<loadVars, fixed, force, developed, mpc, code, ret, visited, pkgs>>

\* clib_package_install_executable() fetches and unpacks the package, and installs
\* its dependencies before it runs the install command.
Unpack ==
  /\ At("executable") /\ Go("unpacked")
  /\ UNCHANGED <<loadVars, fixed, force, developed, mpc, code, ret, visited, pkgs>>

Command ==
  /\ At("command") /\ Go("deps")
  /\ UNCHANGED <<loadVars, fixed, force, developed, mpc, code, ret, visited, pkgs>>

\* A step that fails with -1, of the installer, or with what a command,
\* pthread_create() or http_get_file_shared() returns.
StepFails ==
  /\ \/ At("prepare") /\ Return(-1)
     \/ \E v \in Results \ {0} : (At("sources") \/ At("executable") \/ At("command")) /\ Return(v)
  /\ UNCHANGED <<loadVars, fixed, force, developed, mpc, code, visited>>

-----------------------------------------------------------------------------
(* install_packages(), for the executable ("unpacked"), the package ("deps") *)
(* and its development                                                       *)

ReturnFreeing(v) ==
  /\ Pop(Top.pkg, v)
  /\ pkgs' = FreeAll(Top.freelist, IF Top.pc = "development" THEN pkgs
                                   ELSE [pkgs EXCEPT ![Top.pkg].end = Ended(v)])

InLoop == At("unpacked") \/ At("deps") \/ At("development")

LoadDep ==
  /\ InLoop /\ Top.next <= Len(List)
  /\ Load(List[Top.next])
  /\ UNCHANGED <<fixed, force, treeVars>>

DepLoaded ==
  /\ stack # << >> /\ Taken("loaded")
  /\ LET dir == IF Top.pc = "unpacked" THEN Package(Top.pkg).name ELSE Top.dir
     IN  pkgs' = Built(dir) /\ stack' = Append(stack, Frame(Len(pkgs'), dir, "visit"))
  /\ UNCHANGED <<fixed, force, developed, mpc, code, ret, visited>>

\* (faulty form of DepInstalled, that of hw-16/2: the package is freed at once)
DepInstalledFreed ==
  /\ stack # << >> /\ ret # << >> /\ ret[2] # -1
  /\ Become([Top EXCEPT !.next = @ + 1, !.freelist = Append(@, ret[1])])
  /\ pkgs' = FreeAll(<<ret[1]>>, pkgs)
  /\ ret' = << >>
  /\ UNCHANGED <<loadVars, fixed, force, developed, mpc, code, visited>>

\* Any result but -1 counts as success.
DepInstalled ==
  /\ stack # << >> /\ ret # << >> /\ ret[2] # -1
  /\ Become([Top EXCEPT !.next = @ + 1, !.freelist = Append(@, ret[1])])
  /\ ret' = << >>
  /\ UNCHANGED <<loadVars, fixed, force, developed, mpc, code, visited, pkgs>>

\* (faulty form of DepFails: the loop goes on with the next dependency)
DepFailsPassed ==
  /\ stack # << >>
  /\ \/ Taken("null")
     \/ ret # << >> /\ ret[2] = -1 /\ UNCHANGED loadVars
  /\ Become([Top EXCEPT !.next = @ + 1]) /\ ret' = << >>
  /\ UNCHANGED <<fixed, force, developed, mpc, code, visited, pkgs>>

\* The first dependency that cannot be loaded or installed is the last one: what
\* the freelist holds is freed, and -1 goes up through every call.
DepFails ==
  /\ stack # << >>
  /\ \/ Taken("null")
     \/ ret # << >> /\ ret[2] = -1 /\ UNCHANGED loadVars
  /\ ReturnFreeing(-1)
  /\ UNCHANGED <<fixed, force, developed, mpc, code, visited>>

DepsDone ==
  /\ InLoop /\ Top.next > Len(List)
  /\ IF Top.pc = "unpacked"
       THEN Go("command") /\ pkgs' = FreeAll(Top.freelist, pkgs) /\ UNCHANGED ret
       ELSE ReturnFreeing(0)
  /\ UNCHANGED <<loadVars, fixed, force, developed, mpc, code, visited>>

Step ==
  \/ Loading /\ UNCHANGED <<fixed, force, treeVars>>
  \/ Start \/ RootLoaded \/ RootNull \/ Develop \/ Finish
  \/ Visited \/ NotVisited \/ Prepare \/ FetchSources \/ Unpack \/ Command \/ StepFails
  \/ LoadDep \/ DepLoaded \/ DepInstalled \/ DepFails \/ DepsDone

Next == Step \/ Stays

\* The program runs.
Spec == Init /\ [][Next]_vars /\ WF_vars(Step)

-----------------------------------------------------------------------------
(* Properties *)

Frames == [pkg: DOMAIN pkgs,
           dir: Names \cup {Asked},
           pc: {"visit", "prepare", "sources", "executable", "unpacked", "command", "deps",
                "development"},
           next: Nat, freelist: Seq(DOMAIN pkgs)]

TypeOK ==
  /\ server \in [Slugs -> Manifests] /\ {skip_cache, mutex, force} \subseteq BOOLEAN
  /\ DOMAIN jsons \subseteq Keys /\ \A k \in DOMAIN jsons : jsons[k] \in Manifests
  /\ lpc \in {"idle", "begin", "lock", "cache", "download", "get", "build", "error",
              "loaded", "null", "crashed"}
  /\ slug \in Slugs /\ file \in DOMAIN ManifestNames /\ retries \in -1 .. Retries
  /\ res \in {"none", "live", "freed", "freed_twice"} /\ manifest \in Manifests
  /\ mpc \in {"start", "load", "install", "develop", "done", "failed"} /\ code \in Results
  /\ pkgs \in Seq([of: Manifests, mem: {"live", "freed", "freed_twice"}, dir: Names \cup {Asked},
                  end: {"none", "skipped", "begun", "ok", "error", "failed"}])
  /\ stack \in Seq(Frames) /\ (ret = << >> \/ ret \in (DOMAIN pkgs) \X Results)
  /\ visited \subseteq Names

\* When clib_package_install() returns 0, the package is installed, and so is
\* every dependency of every package that is, but those that failed with another
\* code than -1: neither a package that was skipped as visited nor a failure deep
\* in the tree is lost.  With opts.force each is in the directory its package was
\* to be in, and where the package was unpacked, when that has an executable;
\* without, it may be in the directory of whichever package was visited first.
Found(s, dirs) == \E o \in DOMAIN pkgs :
  Package(o).name = server[s].name /\ pkgs[o].dir \in dirs /\ pkgs[o].end \in {"ok", "failed"}
AllFound(list, dir) == \A k \in DOMAIN list :
  Found(list[k], IF force THEN {dir} ELSE Names \cup {Asked})
TreeCovered ==
  mpc = "done" /\ code = 0 =>
    /\ pkgs[1].end = "ok"
    /\ \A o \in DOMAIN pkgs : pkgs[o].end = "ok" =>
         /\ AllFound(Package(o).deps, pkgs[o].dir)
         /\ Package(o).install => AllFound(Package(o).deps, Package(o).name)
    /\ developed => AllFound(Package(1).dev, Asked)

\* Without opts.force no package is installed twice, however many others depend
\* on it, itself included.
Begun(o) == pkgs[o].end \notin {"none", "skipped"}
InstalledOnce == ~force => \A o, q \in DOMAIN pkgs :
  Begun(o) /\ Begun(q) /\ Package(o).name = Package(q).name => o = q

\* The recursion is as deep as there are packages, and one call more.
DepthBounded == ~force => Len(stack) <= Cardinality(Names) + 1

\* A package and a response are freed once at most; every package is freed when
\* the installation succeeded.
FreedOnce ==
  /\ res # "freed_twice"
  /\ \A o \in DOMAIN pkgs : pkgs[o].mem # "freed_twice"
  /\ mpc = "done" /\ code = 0 => \A o \in DOMAIN pkgs : pkgs[o].mem = "freed"

\* A package that some frame, freelist or return value still names is not freed.
InUse ==
  {stack[k].pkg : k \in DOMAIN stack}
  \cup (UNION {{stack[k].freelist[j] : j \in DOMAIN stack[k].freelist} : k \in DOMAIN stack})
  \cup (IF ret = << >> THEN {} ELSE {ret[1]})
NoUseAfterFree == \A o \in InUse : pkgs[o].mem = "live"

\* Every installation returns: a load gives up, the lock is always given back,
\* and a cycle of dependencies ends.
InstallReturns == <>Over
=============================================================================
