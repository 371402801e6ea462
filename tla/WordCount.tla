------------------------------ MODULE WordCount ------------------------------
(***************************************************************************)
(* What the table of hw-08 promises to its callers: a finite map from      *)
(* words to integers.  add() inserts a word or counts it once more, rmv()  *)
(* forgets it, lookup() reads it.  Nothing is said of slots or probing.    *)
(***************************************************************************)
EXTENDS Integers

CONSTANTS Words,   \* the keys callers use
          Vals,    \* the initial values callers pass to add()
          Absent   \* the count of a word that is not in the map: not an integer

VARIABLES count,   \* [Words -> Int \cup {Absent}]
          ret      \* what the latest call that returns something answered

vars == <<count, ret>>

Nothing == [op |-> "none", found |-> FALSE, v |-> Absent]

Init == /\ count = [w \in Words |-> Absent]
        /\ ret = Nothing

Add(w, v) == /\ count' = [count EXCEPT ![w] = IF @ = Absent THEN v ELSE @ + 1]
             /\ UNCHANGED ret

Lookup(w) == /\ ret' = [op |-> "lookup", found |-> count[w] # Absent, v |-> count[w]]
             /\ UNCHANGED count

Remove(w) == /\ ret' = [op |-> "rmv", found |-> count[w] # Absent, v |-> Absent]
             /\ count' = [count EXCEPT ![w] = Absent]

Next == \E w \in Words : \/ \E v \in Vals : Add(w, v)
                         \/ Lookup(w)
                         \/ Remove(w)

Spec == Init /\ [][Next]_vars
=============================================================================
