------------------------- MODULE OpenHashTableProofs -------------------------
(***************************************************************************)
(* Proofs about OpenHashTable, for every set of words, every hash function *)
(* and every table size.  The inductive invariant is IInv: the type        *)
(* invariant, the words of occupied slots, the path a running probe has    *)
(* covered, and the two properties of the layout.                          *)
(***************************************************************************)
EXTENDS OpenHashTable, TLAPS

\* Every word is shorter than strndup()'s limit.
ShortWords == \A w \in Words : Stored[w] = w

-----------------------------------------------------------------------------
(* Arithmetic of slots *)

LEMMA ModRange ==
  ASSUME NEW a \in Nat, NEW n \in Nat \ {0}
  PROVE  a % n \in 0 .. n - 1
BY SMT

LEMMA ModSucc ==
  ASSUME NEW n \in Nat \ {0}, NEW s \in 0 .. n - 1
  PROVE  (s + 1) % n = IF s = n - 1 THEN 0 ELSE s + 1
<1>1. CASE s = n - 1
  BY <1>1, SMT
<1>2. CASE s # n - 1
  BY <1>2, SMT
<1> QED BY <1>1, <1>2

LEMMA HomeInSlots ==
  ASSUME table_size \in Nat \ {0}, NEW w \in Words
  PROVE  Home(w) \in Slots
BY ModRange, TableAssumption DEF Home, Slots

LEMMA SuccIs ==
  ASSUME table_size \in Nat \ {0}, NEW s \in Slots
  PROVE  /\ Succ(s) = IF s = table_size - 1 THEN 0 ELSE s + 1
         /\ Succ(s) \in Slots
BY ModSucc DEF Succ, Slots

-----------------------------------------------------------------------------
(* The layout seen from one call *)

\* find_key() is right: a free slot at the end of a probe means that the word
\* stands nowhere, because no word stands behind a gap.
LEMMA FreeSlotMeansAbsent ==
  ASSUME IInv, pc = "probe", ~occ[i]
  PROVE  \A s \in Slots : occ[s] => table_k[s] # key
<1> SUFFICES ASSUME NEW s \in Slots, occ[s], table_k[s] = key PROVE FALSE
  OBVIOUS
<1>1. key \in Words /\ i \in Slots /\ table_size \in Nat \ {0}
  BY DEF IInv, TypeOK
<1>2. Home(key) \in Slots
  BY <1>1, HomeInSlots
<1>3. ~(Dist(Home(key), s) < Dist(Home(key), i))
  BY DEF IInv, ProbePath
<1>4. ~(Dist(Home(key), i) < Dist(Home(key), s))
  BY <1>1 DEF IInv, NoGapBeforeKey, IsHole
<1>5. s = i
  BY <1>1, <1>2, <1>3, <1>4 DEF Dist, Slots
<1> QED BY <1>5

\* find_key()'s step: the slot it leaves joins the path.
LEMMA PathGrows ==
  ASSUME table_size \in Nat \ {0},
         NEW h \in Slots, NEW a \in Slots, NEW t \in Slots,
         Dist(h, t) < Dist(h, Succ(a))
  PROVE  Dist(h, t) < Dist(h, a) \/ t = a
BY SuccIs DEF Dist, Slots

\* rmv()'s scan: one slot further from the hole, unless it is back at it.
LEMMA ScanGrows ==
  ASSUME table_size \in Nat \ {0}, NEW a \in Slots, NEW b \in Slots, Succ(b) # a
  PROVE  Dist(a, Succ(b)) = Dist(a, b) + 1
BY SuccIs DEF Dist, Slots

\* An entry that rmv() leaves alone does not have the hole on its path ...
LEMMA StaysPutOffPath ==
  ASSUME table_size \in Nat \ {0}, i \in Slots,
         NEW h \in Slots, NEW s \in Slots, StaysPut(s, h)
  PROVE  ~(Dist(h, i) < Dist(h, s))
BY DEF StaysPut, Dist, Slots

\* ... and one that it moves gets nearer to its home.
LEMMA MoveOnPath ==
  ASSUME table_size \in Nat \ {0}, i \in Slots,
         NEW h \in Slots, NEW s \in Slots, s # i, ~StaysPut(s, h)
  PROVE  Dist(h, i) < Dist(h, s)
BY DEF StaysPut, Dist, Slots

-----------------------------------------------------------------------------
(* Types *)

Typed == TypeOK /\ WordsWhereOccupied

LEMMA InitTyped == Init => Typed
BY TableAssumption
   DEF Init, Typed, TypeOK, WordsWhereOccupied, Slots, EmptyOf, Rebuilding,
       Answers, NoAnswer

LEMMA StepTyped == Typed /\ [Next]_vars => Typed'
<1> SUFFICES ASSUME Typed, [Next]_vars PROVE Typed'
  OBVIOUS
<1> USE TableAssumption DEF Typed, TypeOK, WordsWhereOccupied, Slots, OldSlots, Rebuilding
<1>1. ASSUME NEW w \in Words, CallLookup(w) PROVE Typed'
  BY <1>1, HomeInSlots DEF CallLookup, StartProbe, table, old
<1>2. ASSUME NEW w \in Words, CallRmv(w) PROVE Typed'
  BY <1>2, HomeInSlots DEF CallRmv, StartProbe, table, old
<1>3. ASSUME NEW w \in Words, NEW v \in Vals, CallAdd(w, v) PROVE Typed'
  BY <1>3, HomeInSlots DEF CallAdd, StartProbe, table, old
<1>4. CASE RebuildStart
  <2>1. OldSlots' = Slots
    BY <1>4 DEF RebuildStart
  <2> QED BY <1>4, <2>1 DEF RebuildStart, EmptyOf
<1>5. CASE ProbeNext
  BY <1>5, SuccIs DEF ProbeNext, table, old
<1>6. CASE LookupReturn
  BY <1>6 DEF LookupReturn, Return, table, old, Answers
<1>7. CASE AddExisting
  <2>1. table_v' \in [Slots -> Int]
    BY <1>7 DEF AddExisting
  <2>2. /\ UNCHANGED <<occ, table_k, table_size, oldocc, oldtable_k, oldtable_v, op, key, val, i, j, result>>
        /\ pc' = IF Rebuilding THEN "rebuild" ELSE "idle"
        /\ r' = IF Rebuilding THEN r + 1 ELSE r
    BY <1>7 DEF AddExisting, AddReturns, Return
  <2>3. Slots' = Slots /\ OldSlots' = OldSlots /\ Rebuilding' = Rebuilding
    BY <2>2
  <2>4. TypeOK'
    <3>1. Rebuilding => r' \in Nat
      BY <2>2
    <3>2. pc' \notin {"probe", "shift"} /\ (pc' = "rebuild" => op' = "rebuild")
      BY <2>2
    <3> QED BY <2>1, <2>2, <2>3, <3>1, <3>2
  <2> QED BY <2>1, <2>2, <2>3, <2>4
<1>8. CASE AddNew
  <2>1. /\ occ' \in [Slots -> BOOLEAN]
        /\ table_k' \in [Slots -> Words \cup {NoWord}]
        /\ table_v' \in [Slots -> Int]
        /\ \A s \in Slots : occ'[s] => table_k'[s] \in Words
    BY <1>8 DEF AddNew
  <2>2. /\ UNCHANGED <<table_size, oldocc, oldtable_k, oldtable_v, op, key, val, i, j, result>>
        /\ pc' = IF Rebuilding THEN "rebuild" ELSE "idle"
        /\ r' = IF Rebuilding THEN r + 1 ELSE r
    BY <1>8 DEF AddNew, AddReturns, Return
  <2>3. Slots' = Slots /\ OldSlots' = OldSlots /\ Rebuilding' = Rebuilding
    BY <2>2
  <2>4. TypeOK'
    <3>1. Rebuilding => r' \in Nat
      BY <2>2
    <3>2. pc' \notin {"probe", "shift"} /\ (pc' = "rebuild" => op' = "rebuild")
      BY <2>2
    <3> QED BY <2>1, <2>2, <2>3, <3>1, <3>2
  <2> QED BY <2>1, <2>2, <2>3, <2>4
<1>9. CASE RmvAbsent
  BY <1>9 DEF RmvAbsent, Return, table, old, Answers
<1>10. CASE RmvStart
  BY <1>10 DEF RmvStart, old, Answers
<1>11. CASE ShiftDone
  BY <1>11, SuccIs DEF ShiftDone, Return, table, old
<1>12. CASE ShiftSkip
  BY <1>12, SuccIs DEF ShiftSkip, table, old
<1>13. CASE ShiftMove
  BY <1>13, SuccIs DEF ShiftMove, old
<1>14. CASE RebuildAdd
  BY <1>14, HomeInSlots DEF RebuildAdd, StartProbe, table, old
<1>15. CASE RebuildSkip
  BY <1>15 DEF RebuildSkip, table
<1>16. CASE RebuildDone
  BY <1>16 DEF RebuildDone, table
<1>17. CASE UNCHANGED vars
  BY <1>17 DEF vars, table, old
<1> QED
  BY <1>1, <1>2, <1>3, <1>4, <1>5, <1>6, <1>7, <1>8, <1>9, <1>10, <1>11,
     <1>12, <1>13, <1>14, <1>15, <1>16, <1>17 DEF Next, Call, Run

\* No call ever indexes the table outside its bounds or probes with NULL,
\* whatever the words and however long: the type invariant needs no bound.
THEOREM TypeCorrect == Spec => []TypeOK
<1>1. Typed => TypeOK
  BY DEF Typed
<1> QED BY <1>1, InitTyped, StepTyped, PTL DEF Spec

-----------------------------------------------------------------------------
(* The layout of the table *)

Layout == /\ ProbePath
          /\ pc = "shift" => ~occ[i]
          /\ NoGapBeforeKey
          /\ NoDuplicateKey

LEMMA InitIInv == Init => IInv
<1> SUFFICES ASSUME Init PROVE IInv
  OBVIOUS
<1>1. Typed
  BY InitTyped
<1>2. Layout
  BY DEF Init, Layout, ProbePath, NoGapBeforeKey, NoDuplicateKey, EmptyOf, Slots
<1> QED BY <1>1, <1>2 DEF IInv, Typed, Layout

\* A probe starts at the home slot: nothing lies behind it.
LEMMA StartKeepsLayout ==
  ASSUME IInv, pc \in {"idle", "rebuild"}, NEW o, NEW w \in Words, NEW v, StartProbe(o, w, v)
  PROVE  Layout'
<1>1. /\ Home(w) \in Slots
      /\ \A t \in Slots : ~(Dist(Home(w), t) < Dist(Home(w), Home(w)))
  BY HomeInSlots DEF IInv, TypeOK, Dist, Slots
<1>2. UNCHANGED <<table_size, occ, table_k>> /\ pc' = "probe" /\ key' = w /\ i' = Home(w)
  BY DEF StartProbe, table
<1>3. ProbePath'
  BY <1>1, <1>2 DEF ProbePath, Dist, Home, Slots
<1>4. NoGapBeforeKey' /\ NoDuplicateKey'
  BY <1>2 DEF IInv, NoGapBeforeKey, NoDuplicateKey, Dist, Home, Slots, IsHole
<1> QED BY <1>2, <1>3, <1>4 DEF Layout

\* A step that leaves the slots alone and ends its loop keeps the layout,
\* unless the loop was a shift.
LEMMA ReturnKeepsLayout ==
  ASSUME IInv, pc # "shift", pc' \in {"idle", "rebuild"},
         UNCHANGED <<table_size, occ, table_k>>
  PROVE  Layout'
BY DEF IInv, Layout, ProbePath, NoGapBeforeKey, NoDuplicateKey, Dist, Home, Slots, IsHole

LEMMA ProbeNextKeepsLayout == IInv /\ ProbeNext => Layout'
<1> SUFFICES ASSUME IInv, ProbeNext PROVE Layout'
  OBVIOUS
<1>1. /\ table_size \in Nat \ {0} /\ i \in Slots /\ key \in Words
      /\ UNCHANGED <<table_size, occ, table_k, pc, key>>
      /\ pc = "probe" /\ i' = Succ(i) /\ occ[i] /\ table_k[i] # key
  BY DEF IInv, TypeOK, ProbeNext, ProbeEnds, table
<1>2. Home(key) \in Slots
  BY <1>1, HomeInSlots
<1>3. \A t \in Slots : Dist(Home(key), t) < Dist(Home(key), Succ(i)) =>
        Dist(Home(key), t) < Dist(Home(key), i) \/ t = i
  BY <1>1, <1>2, PathGrows
<1>4. ProbePath'
  BY <1>1, <1>3 DEF IInv, ProbePath, Dist, Home, Slots
<1>5. NoGapBeforeKey' /\ NoDuplicateKey'
  BY <1>1 DEF IInv, NoGapBeforeKey, NoDuplicateKey, Dist, Home, Slots, IsHole
<1> QED BY <1>1, <1>4, <1>5 DEF Layout

\* add() fills the free slot its probe ended at: the whole path is occupied,
\* and the word stood nowhere.
LEMMA AddNewKeepsLayout == IInv /\ ShortWords /\ AddNew => Layout'
<1> SUFFICES ASSUME IInv, ShortWords, AddNew PROVE Layout'
  OBVIOUS
<1>1. /\ table_size \in Nat \ {0} /\ i \in Slots /\ key \in Words
      /\ occ \in [Slots -> BOOLEAN] /\ table_k \in [Slots -> Words \cup {NoWord}]
      /\ table_size' = table_size
      /\ pc = "probe" /\ ~occ[i] /\ pc' \in {"idle", "rebuild"}
      /\ occ' = [occ EXCEPT ![i] = TRUE]
      /\ table_k' = [table_k EXCEPT ![i] = key]
  BY DEF IInv, TypeOK, AddNew, AddReturns, Return, ShortWords
<1>2. \A s \in Slots : occ[s] => table_k[s] # key
  BY <1>1, FreeSlotMeansAbsent
<1>3. NoDuplicateKey'
  BY <1>1, <1>2 DEF IInv, NoDuplicateKey, Slots
<1>4. NoGapBeforeKey'
  <2> SUFFICES ASSUME NEW s \in Slots, occ'[s], NEW t \in Slots,
                      Dist(Home(table_k'[s]), t) < Dist(Home(table_k'[s]), s)
               PROVE  occ'[t]
    BY <1>1 DEF NoGapBeforeKey, Dist, Home, Slots
  <2>1. CASE s = i
    BY <1>1, <2>1 DEF IInv, ProbePath
  <2>2. CASE s # i
    BY <1>1, <2>2 DEF IInv, NoGapBeforeKey, IsHole
  <2> QED BY <2>1, <2>2
<1> QED BY <1>1, <1>3, <1>4 DEF Layout, ProbePath

\* rmv() makes the hole: it may lie on the path of every entry but itself.
LEMMA RmvStartKeepsLayout == IInv /\ RmvStart => Layout'
<1> SUFFICES ASSUME IInv, RmvStart PROVE Layout'
  OBVIOUS
<1>1. /\ table_size \in Nat \ {0} /\ i \in Slots
      /\ occ \in [Slots -> BOOLEAN] /\ table_k \in [Slots -> Words \cup {NoWord}]
      /\ table_size' = table_size /\ i' = i /\ j' = i
      /\ pc = "probe" /\ pc' = "shift"
      /\ occ' = [occ EXCEPT ![i] = FALSE]
      /\ table_k' = [table_k EXCEPT ![i] = NoWord]
  BY DEF IInv, TypeOK, RmvStart
<1>2. NoDuplicateKey'
  BY <1>1 DEF IInv, NoDuplicateKey, Slots
<1>3. NoGapBeforeKey'
  <2> SUFFICES ASSUME NEW s \in Slots, occ'[s], NEW t \in Slots,
                      Dist(Home(table_k'[s]), t) < Dist(Home(table_k'[s]), s)
               PROVE  occ'[t] \/ (t = i /\ Dist(i, i) < Dist(i, s))
    BY <1>1 DEF NoGapBeforeKey, Dist, Home, Slots, IsHole
  <2>1. s # i /\ Dist(i, i) < Dist(i, s)
    BY <1>1 DEF Dist, Slots
  <2>2. occ[t]
    BY <1>1, <2>1 DEF IInv, NoGapBeforeKey, IsHole
  <2> QED BY <1>1, <2>1, <2>2
<1> QED BY <1>1, <1>2, <1>3 DEF Layout, ProbePath

\* What rmv()'s scan knows at the slot it looks at next.
LEMMA ShiftFacts ==
  ASSUME IInv, pc = "shift"
  PROVE  /\ table_size \in Nat \ {0} /\ i \in Slots /\ j \in Slots /\ Succ(j) \in Slots
         /\ occ \in [Slots -> BOOLEAN] /\ table_k \in [Slots -> Words \cup {NoWord}]
         /\ ~occ[i]
         /\ \A s \in Slots : occ[s] => Home(table_k[s]) \in Slots
         /\ \A s, t \in Slots :
              occ[s] /\ Dist(Home(table_k[s]), t) < Dist(Home(table_k[s]), s) =>
                occ[t] \/ (t = i /\ Dist(i, j) < Dist(i, s))
BY SuccIs, HomeInSlots DEF IInv, TypeOK, WordsWhereOccupied, NoGapBeforeKey, IsHole

\* An entry further from the hole than the scan's free slot has that slot on
\* its own path, if it has the hole there.
LEMMA FreeSlotOnPath ==
  ASSUME table_size \in Nat \ {0},
         NEW a \in Slots, NEW b \in Slots, NEW h \in Slots, NEW s \in Slots,
         Dist(h, a) < Dist(h, s), Dist(a, b) < Dist(a, s), Succ(b) # s
  PROVE  Succ(b) # a /\ Dist(h, Succ(b)) < Dist(h, s)
BY SuccIs DEF Dist, Slots

\* The shift ends at a free slot: no entry has the hole on its path any more.
LEMMA ShiftDoneKeepsLayout == IInv /\ ShiftDone => Layout'
<1> SUFFICES ASSUME IInv, ShiftDone PROVE Layout'
  OBVIOUS
<1>1. /\ UNCHANGED <<table_size, occ, table_k>> /\ pc = "shift"
      /\ pc' \in {"idle", "rebuild"} /\ ~occ[Succ(j)]
  BY DEF ShiftDone, Return, table
<1>2. ASSUME NEW s \in Slots, occ[s], NEW t \in Slots,
             Dist(Home(table_k[s]), t) < Dist(Home(table_k[s]), s)
      PROVE  occ[t]
  <2> DEFINE h == Home(table_k[s])
  <2> SUFFICES ASSUME t = i, Dist(i, j) < Dist(i, s) PROVE FALSE
    BY <1>1, <1>2, ShiftFacts
  <2>1. Succ(j) # s
    BY <1>1, <1>2
  <2>2. Succ(j) # i /\ Dist(h, Succ(j)) < Dist(h, s)
    BY <1>1, <1>2, <2>1, ShiftFacts, FreeSlotOnPath
  <2> QED BY <1>1, <1>2, <2>2, ShiftFacts
<1>3. NoGapBeforeKey'
  BY <1>1, <1>2 DEF NoGapBeforeKey, Dist, Home, Slots
<1> QED BY <1>1, <1>3 DEF IInv, Layout, ProbePath, NoDuplicateKey, Slots

\* The shift passes over an entry that has no hole on its path.
LEMMA ShiftSkipKeepsLayout == IInv /\ ShiftSkip => Layout'
<1> SUFFICES ASSUME IInv, ShiftSkip PROVE Layout'
  OBVIOUS
<1>1. /\ UNCHANGED <<table_size, occ, table_k, pc, i>> /\ pc = "shift"
      /\ occ[Succ(j)] /\ j' = Succ(j)
      /\ StaysPut(Succ(j), Home(table_k[Succ(j)]))
  BY DEF ShiftSkip, table
<1>2. Succ(j) # i /\ Dist(i, Succ(j)) = Dist(i, j) + 1
  BY <1>1, ShiftFacts, ScanGrows
<1>3. ASSUME NEW s \in Slots, occ[s], NEW t \in Slots,
             Dist(Home(table_k[s]), t) < Dist(Home(table_k[s]), s)
      PROVE  occ[t] \/ (t = i /\ Dist(i, Succ(j)) < Dist(i, s))
  <2> SUFFICES ASSUME t = i, Dist(i, j) < Dist(i, s)
               PROVE  Dist(i, Succ(j)) < Dist(i, s)
    BY <1>1, <1>3, ShiftFacts
  <2>1. s # Succ(j)
    BY <1>1, <1>3, ShiftFacts, StaysPutOffPath
  <2> DEFINE e == Succ(j)
  <2>2. /\ table_size \in Nat \ {0} /\ i \in Slots /\ j \in Slots /\ e \in Slots
        /\ e # s /\ Dist(i, e) = Dist(i, j) + 1 /\ Dist(i, j) < Dist(i, s)
    BY <1>1, <1>2, <2>1, ShiftFacts
  <2> HIDE DEF e
  <2>3. Dist(i, e) < Dist(i, s)
    BY <2>2 DEF Dist, Slots
  <2> QED BY <2>3 DEF e
<1>4. NoGapBeforeKey'
  BY <1>1, <1>3 DEF NoGapBeforeKey, Dist, Home, Slots, IsHole
<1> QED BY <1>1, <1>4 DEF IInv, Layout, ProbePath, NoDuplicateKey, Slots

\* The shift moves an entry into the hole, nearer to its home, and the hole
\* to where the entry was.
LEMMA ShiftMoveKeepsLayout == IInv /\ ShortWords /\ ShiftMove => Layout'
<1> SUFFICES ASSUME IInv, ShortWords, ShiftMove PROVE Layout'
  OBVIOUS
<1> DEFINE e == Succ(j)
           w == table_k[e]
<1>1. /\ table_size' = table_size /\ pc = "shift" /\ pc' = "shift"
      /\ i \in Slots /\ e \in Slots /\ occ[e] /\ w \in Words
      /\ ~StaysPut(e, Home(w)) /\ i' = e /\ j' = e
      /\ table_k' = [table_k EXCEPT ![i] = w, ![e] = NoWord]
      /\ occ' = [occ EXCEPT ![i] = TRUE, ![e] = FALSE]
  BY ShiftFacts DEF IInv, WordsWhereOccupied, ShiftMove, ShortWords
<1>2. e # i /\ Dist(Home(w), i) < Dist(Home(w), e)
  BY <1>1, ShiftFacts, MoveOnPath
<1>3. NoDuplicateKey'
  BY <1>1, <1>2, ShiftFacts DEF IInv, NoDuplicateKey, Slots
<1>4. ASSUME NEW s \in Slots, occ'[s], NEW t \in Slots,
             Dist(Home(table_k'[s]), t) < Dist(Home(table_k'[s]), s)
      PROVE  occ'[t] \/ (t = e /\ Dist(e, e) < Dist(e, s))
  <2>1. CASE s = i
    <3>1. Dist(Home(w), t) < Dist(Home(w), e) /\ t # i /\ t # e
      BY <1>1, <1>2, <1>4, <2>1, ShiftFacts DEF Dist, Slots
    <3> QED BY <1>1, <3>1, ShiftFacts
  <2>2. CASE s # i
    <3>1. s # e /\ occ[s] /\ table_k'[s] = table_k[s]
      BY <1>1, <1>4, <2>2, ShiftFacts
    <3>2. occ[t] \/ t = i
      BY <1>1, <1>4, <3>1, ShiftFacts
    <3>3. Dist(e, e) < Dist(e, s)
      BY <1>1, <3>1, ShiftFacts DEF Dist, Slots
    <3> QED BY <1>1, <1>2, <3>2, <3>3, ShiftFacts
  <2> QED BY <2>1, <2>2
<1>5. NoGapBeforeKey'
  <2>1. i' = e /\ j' = e /\ table_size' = table_size /\ pc' = "shift"
    BY <1>1
  <2> HIDE DEF e, w
  <2> QED BY <2>1, <1>4 DEF NoGapBeforeKey, Dist, Home, Slots, IsHole
<1> QED BY <1>1, <1>2, <1>3, <1>5, ShiftFacts DEF Layout, ProbePath

-----------------------------------------------------------------------------
(* The theorems *)

LEMMA StepIInv == IInv /\ ShortWords /\ [Next]_vars => IInv'
<1> SUFFICES ASSUME IInv, ShortWords, [Next]_vars PROVE IInv'
  OBVIOUS
<1> SUFFICES Layout'
  BY StepTyped DEF IInv, Typed, Layout
<1>1. ASSUME NEW w \in Words, CallLookup(w) PROVE Layout'
  BY <1>1, StartKeepsLayout DEF CallLookup
<1>2. ASSUME NEW w \in Words, CallRmv(w) PROVE Layout'
  BY <1>2, StartKeepsLayout DEF CallRmv
<1>3. ASSUME NEW w \in Words, NEW v \in Vals, CallAdd(w, v) PROVE Layout'
  BY <1>3, StartKeepsLayout DEF CallAdd
<1>4. CASE RebuildStart
  BY <1>4 DEF RebuildStart, IInv, TypeOK, Layout, ProbePath, NoGapBeforeKey,
              NoDuplicateKey, EmptyOf, Slots
<1>5. CASE ProbeNext
  BY <1>5, ProbeNextKeepsLayout
<1>6. CASE LookupReturn
  BY <1>6, ReturnKeepsLayout DEF LookupReturn, Return, table
<1>7. CASE AddExisting
  BY <1>7, ReturnKeepsLayout DEF AddExisting, AddReturns, Return
<1>8. CASE AddNew
  BY <1>8, AddNewKeepsLayout
<1>9. CASE RmvAbsent
  BY <1>9, ReturnKeepsLayout DEF RmvAbsent, Return, table
<1>10. CASE RmvStart
  BY <1>10, RmvStartKeepsLayout
<1>11. CASE ShiftDone
  BY <1>11, ShiftDoneKeepsLayout
<1>12. CASE ShiftSkip
  BY <1>12, ShiftSkipKeepsLayout
<1>13. CASE ShiftMove
  BY <1>13, ShiftMoveKeepsLayout
<1>14. CASE RebuildAdd
  <2>1. oldtable_k[r] \in Words
    BY <1>14 DEF RebuildAdd, IInv, TypeOK, WordsWhereOccupied, Rebuilding
  <2> QED BY <1>14, <2>1, StartKeepsLayout DEF RebuildAdd
<1>15. CASE RebuildSkip
  BY <1>15, ReturnKeepsLayout DEF RebuildSkip, table
<1>16. CASE RebuildDone
  BY <1>16, ReturnKeepsLayout DEF RebuildDone, table
<1>17. CASE UNCHANGED vars
  BY <1>17 DEF vars, table, IInv, Layout, ProbePath, NoGapBeforeKey,
               NoDuplicateKey, Dist, Home, Slots, IsHole
<1> QED
  BY <1>1, <1>2, <1>3, <1>4, <1>5, <1>6, <1>7, <1>8, <1>9, <1>10, <1>11,
     <1>12, <1>13, <1>14, <1>15, <1>16, <1>17 DEF Next, Call, Run

LEMMA AlwaysIInv ==
  ASSUME ShortWords
  PROVE  Spec => []IInv
<1>1. IInv /\ [Next]_vars => IInv'
  BY StepIInv
<1> QED BY <1>1, InitIInv, PTL DEF Spec

\* No word ever stands behind a gap: the shift of rmv() is right for every
\* hash function, every table size and every position of the wrap-around.
THEOREM ProbesReachTheirKey ==
  ASSUME ShortWords
  PROVE  Spec => []NoGapBeforeKey
<1>1. IInv => NoGapBeforeKey
  BY DEF IInv
<1> QED BY <1>1, AlwaysIInv, PTL

\* No word ever stands in two slots.
THEOREM KeysAreUnique ==
  ASSUME ShortWords
  PROVE  Spec => []NoDuplicateKey
<1>1. IInv => NoDuplicateKey
  BY DEF IInv
<1> QED BY <1>1, AlwaysIInv, PTL

\* A free slot at the end of a probe means that the table does not hold the
\* word: lookup() answers right and add() inserts only new words.
THEOREM FindKeyIsAlwaysCorrect ==
  ASSUME ShortWords
  PROVE  Spec => []FindKeyCorrect
<1>1. IInv => FindKeyCorrect
  BY FreeSlotMeansAbsent DEF FindKeyCorrect
<1> QED BY <1>1, AlwaysIInv, PTL

-----------------------------------------------------------------------------
(* The table implements the map of WordCount *)

\* What the calls that are under way know of their arguments.
CallInv ==
  /\ pc = "idle" => ~Rebuilding
  /\ pc = "shift" => op = "rmv"
  /\ pc = "probe" /\ op = "add" => val \in Vals

\* rebuild(): a word stands in the old table once at most, and from r on no word
\* of it stands in the new one, so that add() counts none of them twice.
OldInv == Rebuilding =>
  /\ \A s, t \in OldSlots : oldocc[s] /\ oldocc[t] /\ oldtable_k[s] = oldtable_k[t] => s = t
  /\ \A s \in Slots, t \in OldSlots : occ[s] /\ r <= t /\ oldocc[t] => table_k[s] # oldtable_k[t]
  /\ pc = "probe" => oldocc[r] /\ key = oldtable_k[r] /\ val = oldtable_v[r]

MapInv == IInv /\ CallInv /\ OldInv

LEMMA InitMap == Init => MapInv
BY InitIInv DEF Init, MapInv, CallInv, OldInv, Rebuilding

LEMMA StepCall == CallInv /\ [Next]_vars => CallInv'
<1> SUFFICES ASSUME CallInv, [Next]_vars PROVE CallInv'
  OBVIOUS
<1> USE DEF CallInv, Rebuilding
<1>1. ASSUME NEW w \in Words, CallLookup(w) PROVE CallInv'
  BY <1>1 DEF CallLookup, StartProbe
<1>2. ASSUME NEW w \in Words, CallRmv(w) PROVE CallInv'
  BY <1>2 DEF CallRmv, StartProbe
<1>3. ASSUME NEW w \in Words, NEW v \in Vals, CallAdd(w, v) PROVE CallInv'
  BY <1>3 DEF CallAdd, StartProbe
<1>4. CASE RebuildStart \/ RebuildSkip \/ RebuildDone
  BY <1>4 DEF RebuildStart, RebuildSkip, RebuildDone
<1>5. CASE ProbeNext \/ ShiftSkip \/ ShiftMove \/ RmvStart
  BY <1>5 DEF ProbeNext, ShiftSkip, ShiftMove, RmvStart
<1>6. CASE LookupReturn \/ RmvAbsent \/ ShiftDone
  BY <1>6 DEF LookupReturn, RmvAbsent, ShiftDone, Return
<1>7. CASE AddExisting \/ AddNew
  BY <1>7 DEF AddExisting, AddNew, AddReturns, Return
<1>8. CASE RebuildAdd
  BY <1>8 DEF RebuildAdd, StartProbe
<1>9. CASE UNCHANGED vars
  BY <1>9 DEF vars
<1> QED
  BY <1>1, <1>2, <1>3, <1>4, <1>5, <1>6, <1>7, <1>8, <1>9 DEF Next, Call, Run

LEMMA StepOld == MapInv /\ ShortWords /\ [Next]_vars => OldInv'
<1> SUFFICES ASSUME MapInv, ShortWords, [Next]_vars, Rebuilding' PROVE OldInv'
  BY DEF OldInv
<1>1. CASE RebuildStart
  <2>1. OldSlots' = Slots /\ pc' = "rebuild" /\ oldocc' = occ /\ oldtable_k' = table_k
        /\ \A s \in Slots' : ~occ'[s]
    BY <1>1 DEF RebuildStart, MapInv, IInv, TypeOK, Slots, OldSlots, EmptyOf
  <2> QED BY <2>1 DEF OldInv, MapInv, IInv, NoDuplicateKey
<1>2. ASSUME Rebuilding, pc' # "probe" \/ UNCHANGED <<pc, key, val, r>>,
             UNCHANGED <<table_size, occ, table_k, oldocc, oldtable_k, oldtable_v>>,
             r' = r \/ r' = r + 1
      PROVE  OldInv'
  BY <1>2 DEF OldInv, MapInv, IInv, TypeOK, Slots, OldSlots
<1>3. CASE ProbeNext
  BY <1>2, <1>3 DEF ProbeNext, Rebuilding, table, old
<1>4. CASE RebuildSkip
  BY <1>2, <1>4 DEF RebuildSkip, Rebuilding, table
<1>5. CASE UNCHANGED vars
  BY <1>2, <1>5 DEF vars, Rebuilding, table, old
<1>6. CASE RebuildAdd
  BY <1>6 DEF RebuildAdd, StartProbe, table, old, OldInv, MapInv, IInv, TypeOK, Rebuilding, Slots, OldSlots
<1>7. CASE AddExisting
  <2>1. Rebuilding /\ pc' = "rebuild" /\ r' = r + 1
        /\ UNCHANGED <<table_size, occ, table_k, oldocc, oldtable_k, oldtable_v>>
    BY <1>7 DEF AddExisting, AddReturns, Return, Rebuilding
  <2> QED BY <1>2, <2>1
<1>8. CASE AddNew
  <2>1. /\ Rebuilding /\ pc = "probe" /\ pc' = "rebuild" /\ r' = r + 1 /\ r \in Nat /\ i \in Slots
        /\ UNCHANGED <<table_size, oldocc, oldtable_k, oldtable_v>>
        /\ occ' = [occ EXCEPT ![i] = TRUE] /\ table_k' = [table_k EXCEPT ![i] = key]
        /\ occ \in [Slots -> BOOLEAN] /\ table_k \in [Slots -> Words \cup {NoWord}]
    BY <1>8 DEF AddNew, AddReturns, Return, Rebuilding, MapInv, IInv, TypeOK, ShortWords
  <2>2. r \in OldSlots /\ oldocc[r] /\ key = oldtable_k[r]
    BY <2>1 DEF MapInv, OldInv, IInv, TypeOK
  <2>3. ASSUME NEW s \in Slots, NEW t \in OldSlots, occ'[s], r + 1 <= t, oldocc[t]
        PROVE  table_k'[s] # oldtable_k[t]
    <3>1. t # r /\ r <= t
      BY <2>1, <2>3 DEF OldSlots
    <3>2. CASE s = i
      BY <2>1, <2>2, <2>3, <3>1, <3>2 DEF MapInv, OldInv
    <3>3. CASE s # i
      BY <2>1, <2>3, <3>1, <3>3 DEF MapInv, OldInv
    <3> QED BY <3>2, <3>3
  <2> QED BY <2>1, <2>3 DEF OldInv, MapInv, Slots, OldSlots
<1>9. CASE \/ LookupReturn \/ RmvAbsent \/ RmvStart \/ ShiftDone \/ ShiftSkip \/ ShiftMove
           \/ RebuildDone \/ (\E w \in Words : CallLookup(w) \/ CallRmv(w))
           \/ (\E w \in Words, v \in Vals : CallAdd(w, v))
  BY <1>9 DEF LookupReturn, RmvAbsent, RmvStart, ShiftDone, ShiftSkip, ShiftMove, RebuildDone,
              CallLookup, CallRmv, CallAdd, StartProbe, Rebuilding, MapInv, CallInv
<1> QED
  BY <1>1, <1>3, <1>4, <1>5, <1>6, <1>7, <1>8, <1>9 DEF Next, Call, Run

LEMMA AlwaysMap ==
  ASSUME ShortWords
  PROVE  Spec => []MapInv
<1>1. MapInv /\ [Next]_vars => MapInv'
  BY StepIInv, StepCall, StepOld DEF MapInv
<1> QED BY <1>1, InitMap, PTL DEF Spec

\* What is counted for a word, before and after a step.
LEMMA CountIs ==
  /\ \A w \in Words : Count[w] =
       IF Holding(w) # {} THEN table_v[CHOOSE s \in Holding(w) : TRUE]
       ELSE IF OldHolding(w) # {} THEN oldtable_v[CHOOSE s \in OldHolding(w) : TRUE]
       ELSE Absent
  /\ \A w \in Words : Count'[w] =
       IF Holding(w)' # {} THEN table_v'[CHOOSE s \in Holding(w)' : TRUE]
       ELSE IF OldHolding(w)' # {} THEN oldtable_v'[CHOOSE s \in OldHolding(w)' : TRUE]
       ELSE Absent
  /\ Count \in [Words -> {Count[w] : w \in Words}]
  /\ Count' \in [Words -> {Count'[w] : w \in Words}]
BY DEF Count

LEMMA OnlyOne ==
  ASSUME NEW s
  PROVE  {s} # {} /\ (CHOOSE t \in {s} : TRUE) = s
OBVIOUS

LEMMA CountBefore ==
  ASSUME NEW w \in Words, NEW s
  PROVE  /\ Holding(w) = {s} => Count[w] = table_v[s]
         /\ Holding(w) = {} /\ OldHolding(w) = {s} => Count[w] = oldtable_v[s]
         /\ Holding(w) = {} /\ OldHolding(w) = {} => Count[w] = Absent
BY CountIs, OnlyOne

LEMMA CountAfter ==
  ASSUME NEW w \in Words, NEW s
  PROVE  /\ Holding(w)' = {s} => Count'[w] = table_v'[s]
         /\ Holding(w)' = {} /\ OldHolding(w)' = {s} => Count'[w] = oldtable_v'[s]
         /\ Holding(w)' = {} /\ OldHolding(w)' = {} => Count'[w] = Absent
BY CountIs, OnlyOne

LEMMA CountOfOther ==
  ASSUME NEW w \in Words, Holding(w)' = Holding(w), OldHolding(w)' = OldHolding(w),
         \A s \in Holding(w) : table_v'[s] = table_v[s],
         \A s \in OldHolding(w) : oldtable_v'[s] = oldtable_v[s]
  PROVE  Count'[w] = Count[w]
<1> DEFINE s == CHOOSE x \in Holding(w) : TRUE
           o == CHOOSE x \in OldHolding(w) : TRUE
<1>1. CASE Holding(w) # {}
  <2>1. s \in Holding(w)
    BY <1>1
  <2>2. Count[w] = table_v[s] /\ Count'[w] = table_v'[s]
    BY <1>1, CountIs
  <2> HIDE DEF s
  <2> QED BY <2>1, <2>2
<1>2. CASE Holding(w) = {} /\ OldHolding(w) # {}
  <2>1. o \in OldHolding(w)
    BY <1>2
  <2>2. Count[w] = oldtable_v[o] /\ Count'[w] = oldtable_v'[o]
    BY <1>2, CountIs
  <2> HIDE DEF o
  <2> QED BY <2>1, <2>2
<1>3. CASE Holding(w) = {} /\ OldHolding(w) = {}
  BY <1>3, CountIs
<1> QED BY <1>1, <1>2, <1>3

LEMMA CountEqual ==
  ASSUME \A w \in Words : Count'[w] = Count[w]
  PROVE  Count' = Count
BY DEF Count

\* Where a word stands that a slot holds.
LEMMA HeldOnce ==
  ASSUME MapInv, NEW s \in Slots, occ[s]
  PROVE  /\ table_k[s] \in Words /\ Holding(table_k[s]) = {s}
         /\ Count[table_k[s]] = table_v[s] /\ table_v[s] \in Int
<1>1. table_k[s] \in Words /\ table_v[s] \in Int
  BY DEF MapInv, IInv, TypeOK, WordsWhereOccupied
<1>2. Holding(table_k[s]) = {s}
  BY DEF Holding, MapInv, IInv, NoDuplicateKey
<1>3. Count[table_k[s]] = table_v[s]
  BY <1>1, <1>2, CountBefore
<1> QED BY <1>1, <1>2, <1>3

\* A probe has found that the table does not hold its word.
LEMMA HeldNowhere ==
  ASSUME MapInv, pc = "probe", ~occ[i]
  PROVE  key \in Words /\ Holding(key) = {}
BY FreeSlotMeansAbsent DEF Holding, MapInv, IInv, TypeOK

LEMMA SameCount ==
  ASSUME UNCHANGED <<table, old>>, Rebuilding' = Rebuilding
  PROVE  Count' = Count
BY DEF Count, Holding, OldHolding, Slots, OldSlots, table, old

LEMMA LookupImplements == MapInv /\ LookupReturn => WC!Next
<1> SUFFICES ASSUME MapInv, LookupReturn PROVE WC!Lookup(key) /\ key \in Words
  BY DEF WC!Next
<1>1. key \in Words /\ i \in Slots /\ ~Rebuilding
  BY DEF MapInv, IInv, TypeOK, LookupReturn, Rebuilding
<1>2. Count' = Count
  BY SameCount DEF LookupReturn, Rebuilding
<1>3. CASE occ[i]
  <2>1. Count[key] = table_v[i] /\ Count[key] # Absent
    BY <1>1, <1>3, HeldOnce, TableAssumption DEF LookupReturn, ProbeEnds
  <2> QED BY <1>1, <1>2, <1>3, <2>1 DEF LookupReturn, WC!Lookup
<1>4. CASE ~occ[i]
  <2>1. Count[key] = Absent
    BY <1>1, <1>4, HeldNowhere, CountBefore DEF LookupReturn, OldHolding
  <2>2. occ[i] = FALSE
    BY <1>1, <1>4 DEF MapInv, IInv, TypeOK
  <2> QED BY <1>1, <1>2, <2>1, <2>2 DEF LookupReturn, WC!Lookup
<1> QED BY <1>3, <1>4

LEMMA AddExistingImplements == MapInv /\ AddExisting => WC!Next
<1> SUFFICES ASSUME MapInv, AddExisting PROVE \E v \in Vals : WC!Add(key, v) /\ key \in Words
  BY DEF WC!Next
<1>1. /\ i \in Slots /\ occ[i] /\ table_k[i] = key /\ pc = "probe"
      /\ table_v' = [table_v EXCEPT ![i] = @ + 1]
      /\ UNCHANGED <<table_size, occ, table_k, op, result>>
      /\ table_v \in [Slots -> Int]
  BY DEF AddExisting, AddReturns, ProbeEnds, MapInv, IInv, TypeOK
<1>2. ~Rebuilding /\ val \in Vals
  <2>1. ASSUME Rebuilding PROVE FALSE
    BY <1>1, <2>1 DEF MapInv, OldInv, IInv, TypeOK
  <2> QED BY <1>1, <2>1 DEF AddExisting, Rebuilding, MapInv, CallInv
<1>3. \A w \in Words : Holding(w)' = Holding(w) /\ OldHolding(w)' = {} /\ OldHolding(w) = {}
  BY <1>1, <1>2 DEF Holding, OldHolding, Slots, Rebuilding
<1>4. key \in Words /\ Holding(key) = {i} /\ Count[key] = table_v[i] /\ Count[key] # Absent
  BY <1>1, HeldOnce, TableAssumption
<1>5. Count'[key] = Count[key] + 1
  <2>1. Count'[key] = table_v'[i]
    BY <1>3, <1>4, CountAfter
  <2> QED BY <1>1, <1>4, <2>1
<1>6. ASSUME NEW w \in Words, w # key PROVE Count'[w] = Count[w]
  <2>1. \A s \in Holding(w) : table_v'[s] = table_v[s]
    BY <1>1, <1>6 DEF Holding
  <2> QED BY <1>3, <2>1, CountOfOther
<1>7. Count' = [Count EXCEPT ![key] = @ + 1]
  BY <1>4, <1>5, <1>6, CountIs
<1> QED BY <1>1, <1>2, <1>4, <1>7 DEF WC!Add

LEMMA AddNewImplements == MapInv /\ ShortWords /\ AddNew => [WC!Next]_(WC!vars)
<1> SUFFICES ASSUME MapInv, ShortWords, AddNew
             PROVE  UNCHANGED WC!vars \/ \E v \in Vals : WC!Add(key, v) /\ key \in Words
  BY DEF WC!Next
<1>1. /\ i \in Slots /\ pc = "probe" /\ op \in {"add", "rebuild"}
      /\ occ' = [occ EXCEPT ![i] = TRUE] /\ table_k' = [table_k EXCEPT ![i] = key]
      /\ table_v' = [table_v EXCEPT ![i] = val]
      /\ UNCHANGED <<table_size, oldocc, oldtable_k, oldtable_v, op, result>>
      /\ r' = IF Rebuilding THEN r + 1 ELSE r
      /\ occ \in [Slots -> BOOLEAN] /\ table_k \in [Slots -> Words \cup {NoWord}]
      /\ table_v \in [Slots -> Int]
  BY DEF AddNew, AddReturns, MapInv, IInv, TypeOK, ShortWords
<1>2. key \in Words /\ ~occ[i] /\ Holding(key) = {}
  BY <1>1, HeldNowhere DEF AddNew
<1>3. ASSUME NEW w \in Words, w = key PROVE Count'[w] = val
  <2>1. Holding(w)' = {i}
    BY <1>1, <1>2, <1>3 DEF Holding, Slots
  <2>2. Count'[w] = table_v'[i]
    BY <2>1, CountAfter
  <2> QED BY <1>1, <2>1, <2>2
<1>4. ASSUME NEW w \in Words, w # key, OldHolding(w)' = OldHolding(w) PROVE Count'[w] = Count[w]
  <2>1. Holding(w)' = Holding(w)
    BY <1>1, <1>2, <1>4 DEF Holding, Slots
  <2>2. \A s \in Holding(w) : table_v'[s] = table_v[s]
    BY <1>1, <1>2 DEF Holding
  <2> QED BY <1>1, <1>4, <2>1, <2>2, CountOfOther
<1>5. CASE Rebuilding
  <2>1. r \in OldSlots /\ r \in Nat /\ oldocc[r] /\ key = oldtable_k[r] /\ val = oldtable_v[r]
    BY <1>1, <1>5 DEF MapInv, OldInv, IInv, TypeOK
  <2>2. OldHolding(key) = {r}
    BY <1>5, <2>1 DEF OldHolding, MapInv, OldInv, OldSlots
  <2>3. Count[key] = val
    BY <1>2, <2>1, <2>2, CountBefore
  <2>4. ASSUME NEW w \in Words, w # key PROVE OldHolding(w)' = OldHolding(w)
    <3>1. OldSlots' = OldSlots /\ Rebuilding' /\ r' = r + 1 /\ \A s \in OldSlots : s \in Int
      BY <1>1, <1>5 DEF OldSlots, Rebuilding
    <3>2. \A s \in OldSlots : oldtable_k[s] = w => s # r /\ (r + 1 <= s <=> r <= s)
      BY <2>1, <2>4, <3>1
    <3> QED BY <1>1, <1>5, <3>1, <3>2 DEF OldHolding
  <2>5. \A w \in Words : Count'[w] = Count[w]
    BY <1>3, <1>4, <2>3, <2>4
  <2> QED BY <1>1, <1>5, <2>5, CountEqual DEF WC!vars
<1>6. CASE ~Rebuilding
  <2>1. val \in Vals
    BY <1>1, <1>6 DEF MapInv, CallInv, Rebuilding
  <2>2. \A w \in Words : OldHolding(w) = {} /\ OldHolding(w)' = {}
    BY <1>1, <1>6 DEF OldHolding, Rebuilding
  <2>3. Count[key] = Absent
    BY <1>2, <2>2, CountBefore
  <2>4. Count' = [Count EXCEPT ![key] = val]
    BY <1>2, <1>3, <1>4, <2>2, CountIs
  <2> QED BY <1>1, <1>2, <2>1, <2>3, <2>4 DEF WC!Add
<1> QED BY <1>5, <1>6

LEMMA RemoveAbsentImplements == MapInv /\ RmvAbsent => WC!Next
<1> SUFFICES ASSUME MapInv, RmvAbsent PROVE WC!Remove(key) /\ key \in Words
  BY DEF WC!Next
<1>1. Count' = Count /\ ~Rebuilding
  BY SameCount DEF RmvAbsent, Rebuilding
<1>2. key \in Words /\ Count[key] = Absent
  BY <1>1, HeldNowhere, CountBefore DEF RmvAbsent, OldHolding
<1>3. Count' = [Count EXCEPT ![key] = Absent]
  BY <1>1, <1>2, CountIs
<1> QED BY <1>2, <1>3 DEF RmvAbsent, WC!Remove

LEMMA RemoveImplements == MapInv /\ RmvStart => WC!Next
<1> SUFFICES ASSUME MapInv, RmvStart PROVE WC!Remove(key) /\ key \in Words
  BY DEF WC!Next
<1>1. /\ i \in Slots /\ occ[i] /\ table_k[i] = key /\ ~Rebuilding /\ ~Rebuilding'
      /\ occ' = [occ EXCEPT ![i] = FALSE] /\ table_k' = [table_k EXCEPT ![i] = NoWord]
      /\ UNCHANGED <<table_size, table_v>>
      /\ occ \in [Slots -> BOOLEAN] /\ table_k \in [Slots -> Words \cup {NoWord}]
  BY DEF RmvStart, ProbeEnds, Rebuilding, MapInv, IInv, TypeOK
<1>2. key \in Words /\ Holding(key) = {i} /\ Count[key] # Absent
  BY <1>1, HeldOnce, TableAssumption
<1>3. \A w \in Words : OldHolding(w) = {} /\ OldHolding(w)' = {}
  BY <1>1 DEF OldHolding
<1>4. ASSUME NEW w \in Words, w = key PROVE Count'[w] = Absent
  <2>1. \A s \in Slots : occ[s] /\ table_k[s] = w => s = i
    BY <1>2, <1>4 DEF Holding
  <2>2. Holding(w)' = {}
    BY <1>1, <2>1, TableAssumption DEF Holding, Slots
  <2> QED BY <1>3, <2>2, CountAfter
<1>5. ASSUME NEW w \in Words, w # key PROVE Count'[w] = Count[w]
  <2>1. Holding(w)' = Holding(w)
    BY <1>1, <1>5 DEF Holding, Slots
  <2> QED BY <1>1, <1>3, <2>1, CountOfOther
<1>6. Count' = [Count EXCEPT ![key] = Absent]
  BY <1>2, <1>4, <1>5, CountIs
<1> QED BY <1>2, <1>6 DEF RmvStart, WC!Remove

\* The shift of an entry is nothing that a caller sees.
LEMMA ShiftImplements == MapInv /\ ShortWords /\ ShiftMove => UNCHANGED WC!vars
<1> SUFFICES ASSUME MapInv, ShortWords, ShiftMove PROVE UNCHANGED WC!vars
  OBVIOUS
<1> DEFINE e == Succ(j)
           w == table_k[e]
<1>1. /\ pc = "shift" /\ i \in Slots /\ e \in Slots /\ ~occ[i] /\ occ[e] /\ i # e
      /\ table_k' = [table_k EXCEPT ![i] = w, ![e] = NoWord]
      /\ table_v' = [table_v EXCEPT ![i] = table_v[e]]
      /\ occ' = [occ EXCEPT ![i] = TRUE, ![e] = FALSE]
      /\ UNCHANGED <<table_size, op, result>>
      /\ occ \in [Slots -> BOOLEAN] /\ table_k \in [Slots -> Words \cup {NoWord}]
      /\ table_v \in [Slots -> Int]
  <2>1. IInv /\ pc = "shift"
    BY DEF MapInv, ShiftMove
  <2>2. w \in Words
    BY <2>1, HeldOnce, ShiftFacts DEF ShiftMove
  <2> QED BY <2>1, <2>2, ShiftFacts DEF ShiftMove, IInv, TypeOK, ShortWords
<1>2. ~Rebuilding /\ ~Rebuilding'
  BY <1>1 DEF MapInv, CallInv, Rebuilding
<1>3. \A x \in Words : OldHolding(x) = {} /\ OldHolding(x)' = {}
  BY <1>2 DEF OldHolding
<1>4. w \in Words /\ Holding(w) = {e} /\ Count[w] = table_v[e]
  BY <1>1, HeldOnce
<1> HIDE DEF w, e
<1>5. ASSUME NEW x \in Words, x = w PROVE Count'[x] = Count[x]
  <2>1. Holding(x)' = {i}
    <3>1. \A s \in Slots : occ[s] /\ table_k[s] = w => s = e
      BY <1>4 DEF Holding
    <3> QED BY <1>1, <1>4, <1>5, <3>1, TableAssumption DEF Holding, Slots
  <2>2. Count'[x] = table_v'[i]
    BY <2>1, CountAfter
  <2> QED BY <1>1, <1>4, <1>5, <2>2
<1>6. ASSUME NEW x \in Words, x # w PROVE Count'[x] = Count[x]
  <2>1. Holding(x)' = Holding(x)
    <3>1. table_k[e] = w
      BY DEF w
    <3> QED BY <1>1, <1>6, <3>1, TableAssumption DEF Holding, Slots
  <2>2. \A s \in Holding(x) : table_v'[s] = table_v[s]
    BY <1>1 DEF Holding
  <2> QED BY <1>3, <2>1, <2>2, CountOfOther
<1>7. Count' = Count
  BY <1>5, <1>6, CountEqual
<1> QED BY <1>1, <1>7 DEF WC!vars

\* ... nor is the beginning of a rebuild(): all words stand in the old table then.
LEMMA RebuildImplements == MapInv /\ RebuildStart => UNCHANGED WC!vars
<1> SUFFICES ASSUME MapInv, RebuildStart PROVE UNCHANGED WC!vars
  OBVIOUS
<1>1. /\ OldSlots' = Slots /\ r' = 0 /\ Rebuilding' /\ ~Rebuilding
      /\ oldocc' = occ /\ oldtable_k' = table_k /\ oldtable_v' = table_v
      /\ \A s \in Slots' : ~occ'[s]
      /\ \A s \in Slots : 0 <= s
  BY DEF RebuildStart, MapInv, CallInv, IInv, TypeOK, Slots, OldSlots, EmptyOf, Rebuilding
<1>2. ASSUME NEW w \in Words PROVE Count'[w] = Count[w]
  <2>1. OldHolding(w) = {} /\ Holding(w)' = {} /\ OldHolding(w)' = Holding(w)
    BY <1>1 DEF Holding, OldHolding
  <2>2. CASE Holding(w) = {}
    BY <2>1, <2>2, CountBefore, CountAfter
  <2>3. ASSUME NEW s \in Holding(w) PROVE Count'[w] = Count[w]
    <3>1. Holding(w) = {s} /\ Count[w] = table_v[s]
      BY HeldOnce DEF Holding
    <3>2. Count'[w] = oldtable_v'[s]
      BY <2>1, <3>1, CountAfter
    <3> QED BY <1>1, <3>1, <3>2
  <2> QED BY <2>2, <2>3
<1>3. Count' = Count
  BY <1>2, CountEqual
<1> QED BY <1>3 DEF WC!vars, RebuildStart

LEMMA RebuildSkipImplements == MapInv /\ RebuildSkip => UNCHANGED WC!vars
<1> SUFFICES ASSUME MapInv, RebuildSkip PROVE UNCHANGED WC!vars
  OBVIOUS
<1>1. /\ Rebuilding /\ Rebuilding' /\ r \in Nat /\ ~oldocc[r] /\ r' = r + 1
      /\ UNCHANGED <<table_size, occ, table_k, table_v, oldocc, oldtable_k, oldtable_v, result>>
  BY DEF RebuildSkip, MapInv, IInv, TypeOK, Rebuilding, table
<1>2. ASSUME NEW w \in Words PROVE Count'[w] = Count[w]
  <2>1. Holding(w)' = Holding(w)
    BY <1>1 DEF Holding, Slots
  <2>2. OldHolding(w)' = OldHolding(w)
    <3>1. OldSlots' = OldSlots /\ \A s \in OldSlots : s \in Int
      BY <1>1 DEF OldSlots
    <3>2. \A s \in OldSlots : oldocc[s] => (r + 1 <= s <=> r <= s)
      BY <1>1, <3>1
    <3> QED BY <1>1, <3>1, <3>2 DEF OldHolding
  <2> QED BY <1>1, <2>1, <2>2, CountOfOther
<1> QED BY <1>1, <1>2, CountEqual DEF WC!vars

\* When it ends, no word is left that stands in the old table only.
LEMMA RebuildDoneImplements == MapInv /\ RebuildDone => UNCHANGED WC!vars
<1> SUFFICES ASSUME MapInv, RebuildDone PROVE UNCHANGED WC!vars
  OBVIOUS
<1>1. /\ Rebuilding /\ ~Rebuilding' /\ r \in Nat /\ r \notin OldSlots /\ table_size \in Nat
      /\ UNCHANGED <<table_size, occ, table_k, table_v, result>>
  BY DEF RebuildDone, MapInv, IInv, TypeOK, Rebuilding, table
<1>2. ASSUME NEW w \in Words PROVE Count'[w] = Count[w]
  <2>1. Holding(w)' = Holding(w)
    BY <1>1 DEF Holding, Slots
  <2>2. OldHolding(w) = {} /\ OldHolding(w)' = {}
    <3>1. \A s \in OldSlots : ~(r <= s)
      BY <1>1 DEF OldSlots
    <3> QED BY <1>1, <3>1 DEF OldHolding
  <2> QED BY <1>1, <2>1, <2>2, CountOfOther
<1> QED BY <1>1, <1>2, CountEqual DEF WC!vars

LEMMA StepImplements == MapInv /\ ShortWords /\ [Next]_vars => [WC!Next]_(WC!vars)
<1> SUFFICES ASSUME MapInv, ShortWords, [Next]_vars PROVE [WC!Next]_(WC!vars)
  OBVIOUS
<1>1. ASSUME UNCHANGED <<table, old, result>>, Rebuilding' = Rebuilding PROVE UNCHANGED WC!vars
  BY <1>1, SameCount DEF WC!vars
<1>2. CASE \E w \in Words : CallLookup(w) \/ CallRmv(w) \/ \E v \in Vals : CallAdd(w, v)
  BY <1>1, <1>2 DEF CallLookup, CallRmv, CallAdd, StartProbe, Rebuilding, MapInv, CallInv
<1>3. CASE ProbeNext \/ ShiftSkip \/ ShiftDone
  BY <1>1, <1>3 DEF ProbeNext, ShiftSkip, ShiftDone, Rebuilding
<1>4. CASE RebuildAdd
  BY <1>1, <1>4 DEF RebuildAdd, StartProbe, Rebuilding, MapInv, IInv, TypeOK
<1>5. CASE UNCHANGED vars
  BY <1>1, <1>5 DEF vars, Rebuilding
<1> QED
  BY <1>2, <1>3, <1>4, <1>5, LookupImplements, AddExistingImplements, AddNewImplements,
     RemoveAbsentImplements, RemoveImplements, ShiftImplements, RebuildImplements,
     RebuildSkipImplements, RebuildDoneImplements DEF Next, Call, Run

\* The table is a map from words to counts: every call does what it promises at
\* one step, and neither probing, nor the shifts of rmv() (lines 141-166), nor
\* rebuild() change, lose or invent a count.
THEOREM TableImplementsMap ==
  ASSUME ShortWords
  PROVE  Spec => CountsWords
<1>1. Init => WC!Init
  <2> SUFFICES ASSUME Init PROVE WC!Init
    OBVIOUS
  <2>1. \A w \in Words : Holding(w) = {} /\ OldHolding(w) = {}
    BY DEF Init, Holding, OldHolding, Slots, EmptyOf, Rebuilding
  <2>2. \A w \in Words : Count[w] = Absent
    BY <2>1, CountBefore
  <2>3. Count = [w \in Words |-> Absent]
    BY <2>2, CountIs
  <2> QED BY <2>3 DEF Init, NoAnswer, WC!Init, WC!Nothing
<1>2. MapInv /\ [Next]_vars => [WC!Next]_(WC!vars)
  BY StepImplements
<1> QED BY <1>1, <1>2, AlwaysMap, PTL DEF Spec, CountsWords, WC!Spec
=============================================================================
