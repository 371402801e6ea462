---------------------------- MODULE OpenHashTable ----------------------------
(***************************************************************************)
(* The open-addressing hash table of hw-08/open-hash-table.c: linear       *)
(* probing (find_key), insertion or counting (add), deletion that shifts   *)
(* the following entries back (rmv), and the doubling of the table         *)
(* (rebuild).  The program is sequential: one call runs at a time, and one *)
(* iteration of each of its loops is one step, so that termination of the  *)
(* loops is something the model can fail.                                  *)
(***************************************************************************)
EXTENDS Integers

CONSTANTS
  Words,     \* the strings callers pass as keys
  NoWord,    \* NULL in table_k
  Absent,    \* the value of a word the table does not hold
  Vals,      \* the values callers pass to add()
  Hash,      \* hash(): any function from words to natural numbers
  Stored,    \* what strndup(k, 1024) keeps of a word: itself when it is short
  InitSize,  \* the first table_size (1024 in the code)
  MaxSize,   \* bound: rebuild() is not called when it would exceed this size
  MaxVal     \* bound: add() is not called on a word counted this many times

ASSUME TableAssumption ==
  /\ NoWord \notin Words
  /\ Vals \subseteq Int
  /\ Absent \notin Int
  /\ Hash \in [Words -> Nat]
  /\ Stored \in [Words -> Words]
  /\ InitSize \in Nat \ {0}
  /\ MaxSize \in Nat
  /\ MaxVal \in Int

VARIABLES
  table_size, occ, table_k, table_v,   \* the globals
  oldocc, oldtable_k, oldtable_v,      \* rebuild()'s locals
  r,                                   \* rebuild()'s loop counter
  pc,       \* "idle", or the loop that runs: "probe", "shift", "rebuild"
  op,       \* the call in progress
  key, val, \* its arguments
  i, j,     \* find_key()'s slot, then rmv()'s hole and scan index
  result    \* the answer of the latest lookup() or rmv()

table == <<table_size, occ, table_k, table_v>>
old == <<oldocc, oldtable_k, oldtable_v, r>>
vars == <<table, old, pc, op, key, val, i, j, result>>

Slots == 0 .. table_size - 1
OldSlots == 0 .. table_size \div 2 - 1
Rebuilding == op = "rebuild"

-----------------------------------------------------------------------------
(* Helpers *)

Home(w) == Hash[w] % table_size

SuccPastEnd(s) == s + 1                  \* faulty: no wrap-around
SuccByTwo(s) == (s + 2) % table_size     \* faulty: visits every other slot only
Succ(s) == (s + 1) % table_size

\* The negation of find_key()'s loop condition: an empty slot, or the key.
ProbeEnds == occ[i] => table_k[i] = key

\* rmv(): the entry at s, whose home is h, may not move to the hole at i,
\* since it would then stand before its home (a faulty form first).
StaysPutAtHole(s, h) == IF i <= s THEN i <= h /\ h <= s   \* faulty: off by one
                                  ELSE i < h \/ h <= s
StaysPut(s, h) == IF i <= s THEN i < h /\ h <= s
                            ELSE i < h \/ h <= s

\* calloc() of an empty table.
EmptyOf(n, x) == [s \in 0 .. n - 1 |-> x]

NoAnswer == [op |-> "none", found |-> FALSE, v |-> Absent]

\* Where a call returns to: rebuild() goes on with its loop.
Return == pc' = IF Rebuilding THEN "rebuild" ELSE "idle"

-----------------------------------------------------------------------------
Init ==
  /\ table_size = InitSize
  /\ occ = EmptyOf(InitSize, FALSE)
  /\ table_k = EmptyOf(InitSize, NoWord)
  /\ table_v = EmptyOf(InitSize, 0)
  /\ oldocc = << >> /\ oldtable_k = << >> /\ oldtable_v = << >> /\ r = 0
  /\ pc = "idle" /\ op = "none"
  /\ key = NoWord /\ val = 0
  /\ i = 0 /\ j = 0
  /\ result = NoAnswer

\* Every operation starts with find_key(k) at the home slot of k.
StartProbe(o, w, v) ==
  /\ pc' = "probe" /\ op' = o
  /\ key' = w /\ val' = v
  /\ i' = Home(w)
  /\ UNCHANGED <<table, j, result>>

Countable(w) == \A s \in Slots : occ[s] /\ table_k[s] = w => table_v[s] < MaxVal

CallLookup(w) == pc = "idle" /\ StartProbe("lookup", w, 0) /\ UNCHANGED old
CallRmv(w) == pc = "idle" /\ StartProbe("rmv", w, 0) /\ UNCHANGED old
CallAdd(w, v) ==
  /\ pc = "idle" /\ Countable(w)
  /\ StartProbe("add", w, v)
  /\ UNCHANGED old

\* find_key(): one iteration of its loop.
ProbeNext ==
  /\ pc = "probe" /\ ~ProbeEnds
  /\ i' = Succ(i)
  /\ UNCHANGED <<table, old, pc, op, key, val, j, result>>

LookupReturn ==
  /\ pc = "probe" /\ ProbeEnds /\ op = "lookup"
  /\ result' = [op |-> "lookup", found |-> occ[i],
                v |-> IF occ[i] THEN table_v[i] ELSE Absent]
  /\ Return
  /\ UNCHANGED <<table, old, op, key, val, i, j>>

\* add(), also when rebuild() calls it; there the loop goes on with r + 1.
AddReturns ==
  /\ Return
  /\ r' = IF Rebuilding THEN r + 1 ELSE r
  /\ UNCHANGED <<table_size, oldocc, oldtable_k, oldtable_v, op, key, val, i, j, result>>

AddExisting ==
  /\ pc = "probe" /\ ProbeEnds /\ op \in {"add", "rebuild"}
  /\ occ[i]
  /\ table_v' = [table_v EXCEPT ![i] = @ + 1]
  /\ UNCHANGED <<occ, table_k>>
  /\ AddReturns

AddNew ==
  /\ pc = "probe" /\ ProbeEnds /\ op \in {"add", "rebuild"}
  /\ ~occ[i]
  /\ occ' = [occ EXCEPT ![i] = TRUE]
  /\ table_k' = [table_k EXCEPT ![i] = Stored[key]]
  /\ table_v' = [table_v EXCEPT ![i] = val]
  /\ AddReturns

RmvAbsent ==
  /\ pc = "probe" /\ ProbeEnds /\ op = "rmv"
  /\ ~occ[i]
  /\ result' = [op |-> "rmv", found |-> FALSE, v |-> Absent]
  /\ Return
  /\ UNCHANGED <<table, old, op, key, val, i, j>>

\* rmv() empties the slot and starts the shift of the entries behind it.
RmvStart ==
  /\ pc = "probe" /\ ProbeEnds /\ op = "rmv"
  /\ occ[i]
  /\ occ' = [occ EXCEPT ![i] = FALSE]
  /\ table_k' = [table_k EXCEPT ![i] = NoWord]
  /\ j' = i
  /\ pc' = "shift"
  /\ result' = [op |-> "rmv", found |-> TRUE, v |-> Absent]
  /\ UNCHANGED <<table_size, table_v, old, op, key, val, i>>

\* rmv()'s loop: stop at an empty slot, ...
ShiftDone ==
  /\ pc = "shift" /\ ~occ[Succ(j)]
  /\ j' = Succ(j)
  /\ Return
  /\ UNCHANGED <<table, old, op, key, val, i, result>>

\* ... pass over an entry that must not move, ...
ShiftSkip ==
  /\ pc = "shift" /\ occ[Succ(j)]
  /\ StaysPut(Succ(j), Home(table_k[Succ(j)]))
  /\ j' = Succ(j)
  /\ UNCHANGED <<table, old, pc, op, key, val, i, result>>

\* (faulty form of ShiftMove: the value stays behind)
ShiftMoveKeyOnly ==
  LET s == Succ(j) IN
  /\ pc = "shift" /\ occ[s]
  /\ ~StaysPut(s, Home(table_k[s]))
  /\ table_k' = [table_k EXCEPT ![i] = Stored[table_k[s]], ![s] = NoWord]
  /\ occ' = [occ EXCEPT ![i] = TRUE, ![s] = FALSE]
  /\ i' = s /\ j' = s
  /\ UNCHANGED <<table_size, table_v, old, pc, op, key, val, result>>

\* ... or move the entry into the hole, which is then where the entry was.
ShiftMove ==
  LET s == Succ(j) IN
  /\ pc = "shift" /\ occ[s]
  /\ ~StaysPut(s, Home(table_k[s]))
  /\ table_k' = [table_k EXCEPT ![i] = Stored[table_k[s]], ![s] = NoWord]
  /\ table_v' = [table_v EXCEPT ![i] = table_v[s]]
  /\ occ' = [occ EXCEPT ![i] = TRUE, ![s] = FALSE]
  /\ i' = s /\ j' = s
  /\ UNCHANGED <<table_size, old, pc, op, key, val, result>>

\* rebuild(): swap in an empty table of twice the size, ...
RebuildStart ==
  /\ pc = "idle" /\ 2 * table_size <= MaxSize
  /\ table_size' = 2 * table_size
  /\ oldocc' = occ /\ oldtable_k' = table_k /\ oldtable_v' = table_v
  /\ occ' = EmptyOf(2 * table_size, FALSE)
  /\ table_k' = EmptyOf(2 * table_size, NoWord)
  /\ table_v' = EmptyOf(2 * table_size, 0)
  /\ r' = 0
  /\ pc' = "rebuild" /\ op' = "rebuild"
  /\ UNCHANGED <<key, val, i, j, result>>

\* ... add() every entry of the old one, ...
RebuildAdd ==
  /\ pc = "rebuild" /\ r \in OldSlots /\ oldocc[r]
  /\ StartProbe("rebuild", oldtable_k[r], oldtable_v[r])
  /\ UNCHANGED old

RebuildSkip ==
  /\ pc = "rebuild" /\ r \in OldSlots /\ ~oldocc[r]
  /\ r' = r + 1
  /\ UNCHANGED <<table, oldocc, oldtable_k, oldtable_v, pc, op, key, val, i, j, result>>

\* ... and free the old one.
RebuildDone ==
  /\ pc = "rebuild" /\ r \notin OldSlots
  /\ oldocc' = << >> /\ oldtable_k' = << >> /\ oldtable_v' = << >> /\ r' = 0
  /\ pc' = "idle" /\ op' = "none"
  /\ UNCHANGED <<table, key, val, i, j, result>>

Call ==
  \/ \E w \in Words : CallLookup(w)
  \/ \E w \in Words : CallRmv(w)
  \/ \E w \in Words, v \in Vals : CallAdd(w, v)
  \/ RebuildStart

Run ==
  \/ ProbeNext \/ LookupReturn
  \/ AddExisting \/ AddNew
  \/ RmvAbsent \/ RmvStart
  \/ ShiftDone \/ ShiftSkip \/ ShiftMove
  \/ RebuildAdd \/ RebuildSkip \/ RebuildDone

Next == Call \/ Run

\* The caller may never call again, but a call that runs goes on running.
Spec == Init /\ [][Next]_vars /\ WF_vars(Run)
-----------------------------------------------------------------------------
(* Properties *)

Answers == [op: {"none", "lookup", "rmv"}, found: BOOLEAN, v: Int \cup {Absent}]

\* Every variable keeps the type its C declaration gives it; in particular
\* no index ever leaves the table.
TypeOK ==
  /\ table_size \in Nat \ {0}
  /\ occ \in [Slots -> BOOLEAN]
  /\ table_k \in [Slots -> Words \cup {NoWord}]
  /\ table_v \in [Slots -> Int]
  /\ pc \in {"idle", "probe", "shift", "rebuild"}
  /\ op \in {"none", "lookup", "add", "rmv", "rebuild"}
  /\ key \in Words \cup {NoWord} /\ val \in Int
  /\ pc \in {"probe", "shift"} => key \in Words /\ i \in Slots
  /\ pc = "shift" => j \in Slots
  /\ pc = "rebuild" => op = "rebuild"
  /\ Rebuilding =>
       /\ oldocc \in [OldSlots -> BOOLEAN]
       /\ oldtable_k \in [OldSlots -> Words \cup {NoWord}]
       /\ oldtable_v \in [OldSlots -> Int]
       /\ r \in Nat /\ (pc = "probe" => r \in OldSlots)
  /\ result \in Answers

\* The number of steps of a probe that goes from slot a to slot b.
Dist(a, b) == IF a <= b THEN b - a ELSE b - a + table_size

\* The slot is free, but only until rmv() has finished shifting.
IsHole(t) == pc = "shift" /\ t = i

\* A probe from the home of a stored word reaches it: no slot on the way is
\* free, except rmv()'s hole, for the entries its scan has yet to examine.
\* This is what find_key() relies on, and what the case split of rmv()
\* (lines 148-157), wrap-around included, is there to keep.
NoGapBeforeKey ==
  \A s \in Slots : occ[s] =>
    \A t \in Slots :
      Dist(Home(table_k[s]), t) < Dist(Home(table_k[s]), s) =>
        occ[t] \/ (IsHole(t) /\ Dist(i, j) < Dist(i, s))

\* A word stands in one slot at most: otherwise its counts split, and rmv()
\* would leave a copy behind.
NoDuplicateKey ==
  \A s, t \in Slots : occ[s] /\ occ[t] /\ table_k[s] = table_k[t] => s = t

\* find_key() stops at a free slot only when the word stands nowhere.
FindKeyCorrect ==
  pc = "probe" /\ ~occ[i] => \A s \in Slots : occ[s] => table_k[s] # key

\* What makes the four inductive: occupied slots hold words, a probe has seen
\* nothing but other words on its way, and rmv()'s hole is free.
WordsWhereOccupied ==
  /\ \A s \in Slots : occ[s] => table_k[s] \in Words
  /\ Rebuilding => \A s \in OldSlots : oldocc[s] => oldtable_k[s] \in Words

ProbePath ==
  pc = "probe" => \A t \in Slots :
    Dist(Home(key), t) < Dist(Home(key), i) => occ[t] /\ table_k[t] # key

IInv == /\ TypeOK /\ WordsWhereOccupied /\ ProbePath
        /\ pc = "shift" => ~occ[i]
        /\ NoGapBeforeKey /\ NoDuplicateKey

Holding(w) == {s \in Slots : occ[s] /\ table_k[s] = w}
OldHolding(w) ==
  IF Rebuilding THEN {s \in OldSlots : r <= s /\ oldocc[s] /\ oldtable_k[s] = w} ELSE {}

\* The map a caller sees: during a rebuild() the entries that it has still to
\* add are those of the old table from r on.
Count == [w \in Words |->
  IF Holding(w) # {} THEN table_v[CHOOSE s \in Holding(w) : TRUE]
  ELSE IF OldHolding(w) # {} THEN oldtable_v[CHOOSE s \in OldHolding(w) : TRUE]
  ELSE Absent]

\* The table implements the map of WordCount: every call does what its
\* comment (lines 92-93, 107-108, 128) promises, at one step of the call, and
\* neither the shifts of rmv() nor rebuild() change, lose or invent a count.
WC == INSTANCE WordCount WITH count <- Count, ret <- result
CountsWords == WC!Spec

\* Every call returns.  find_key() has no other end than the word or a free
\* slot, and rmv()'s loop none but a free slot.
EveryCallReturns == (pc # "idle") ~> (pc = "idle")
=============================================================================
