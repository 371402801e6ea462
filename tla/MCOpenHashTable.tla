--------------------------- MODULE MCOpenHashTable ---------------------------
(***************************************************************************)
(* Small tables for TLC.  Four words fill the first table; three of them   *)
(* collide at its last slot, so that probes, shifts and holes wrap around  *)
(* the end, and the collisions change when rebuild() doubles the table.    *)
(***************************************************************************)
EXTENDS OpenHashTable

MCHash == [w \in Words |-> CASE w = "ant" -> 3 [] w = "bee" -> 7
                             [] w = "cat" -> 4 [] OTHER -> 11]

\* Words of at most 1024 characters are stored whole.
ShortStored == [w \in Words |-> w]
=============================================================================
