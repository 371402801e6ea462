---------------------------- MODULE MCInstallTree ----------------------------
(***************************************************************************)
(* What the repositories hold, for TLC: a program whose two libraries      *)
(* share a third, one of them with an install command; libraries that      *)
(* depend on each other and on the program; and one library in two         *)
(* versions, one of them for the development of the program.  The          *)
(* repository of "lib" has another name than its package.                  *)
(***************************************************************************)
EXTENDS InstallTree

App == [repo |-> "app", version |-> "master"]
Lib == [repo |-> "lib.c", version |-> "master"]
Util == [repo |-> "util", version |-> "1"]
Util2 == [repo |-> "util", version |-> "master"]
AllSlugs == {App, Lib, Util, Util2}
AllNames == {"app", "lib", "util"}
AllVersions == {"1", "master"}

M(name, version, deps, install) ==
  [name |-> name, version |-> version, deps |-> deps, dev |-> << >>, install |-> install]

Content(app, lib, util, util2) == [s \in AllSlugs |->
  CASE s = App -> app [] s = Lib -> lib [] s = Util -> util [] s = Util2 -> util2]

Diamond == Content(M("app", "none", <<Lib, Util>>, FALSE), M("lib", "1", <<Util>>, TRUE),
                   M("util", "1", << >>, FALSE), M("util", "1", << >>, FALSE))
Cycle == Content(M("app", "none", <<Lib>>, FALSE), M("lib", "none", <<Util, Lib>>, FALSE),
                 M("util", "1", <<App>>, FALSE), M("util", "1", << >>, FALSE))
TwoVersions == Content([M("app", "1", <<Util2>>, TRUE) EXCEPT !.dev = <<Util, Lib>>],
                       M("lib", "1", << >>, FALSE), M("util", "1", << >>, FALSE),
                       M("util", "1", <<Lib>>, FALSE))
AllServers == {Diamond, Cycle, TwoVersions}
=============================================================================
