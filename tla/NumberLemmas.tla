---------------------------- MODULE NumberLemmas -----------------------------
(***************************************************************************)
(* What the proofs need of numbers and sequences: the least of a set,      *)
(* induction up to a bound and recursion up to it, and pieces of a         *)
(* sequence.  Induction is stated of a set of numbers, so that a proof can *)
(* cite it with the set of those of which it has something to show.        *)
(***************************************************************************)
EXTENDS Integers, Sequences, TLAPS, SequenceTheorems, WellFoundedInduction

\* Every set of numbers that has any has a least one.
LEMMA LeastExists ==
  ASSUME NEW S \in SUBSET Nat, S # {}
  PROVE  \E x \in S : \A y \in S : x <= y
<1> DEFINE R == OpToRel(<, Nat)
<1>1. \E x \in S : \A y \in S : ~(<<y, x>> \in R)
  BY NatLessThanWellFounded, WFMin
<1>2. \A x, y \in Nat : <<y, x>> \in R <=> y < x
  BY DEF OpToRel
<1> HIDE DEF R
<1>3. PICK x \in S : \A y \in S : ~(<<y, x>> \in R)
  BY <1>1
<1>4. ASSUME NEW y \in S PROVE x <= y
  <2>1. ~(<<y, x>> \in R) /\ x \in Nat /\ y \in Nat
    BY <1>3
  <2>2. ~(y < x)
    BY <1>2, <2>1
  <2> QED BY <2>1, <2>2
<1> QED BY <1>4

\* What has 0, and with each number the next one, has all up to N.
LEMMA InductionTo ==
  ASSUME NEW N \in Nat, NEW S, 0 \in S, \A n \in 1 .. N : n - 1 \in S => n \in S
  PROVE  \A n \in 0 .. N : n \in S
<1> DEFINE T == {n \in 0 .. N : n \notin S}
<1>1. SUFFICES ASSUME T # {} PROVE FALSE
  OBVIOUS
<1>2. PICK x \in T : \A y \in T : x <= y
  <2>1. T \in SUBSET Nat
    OBVIOUS
  <2> QED BY <1>1, <2>1, LeastExists
<1>3. x \in 1 .. N /\ x \notin S
  BY <1>2
<1>4. x - 1 \in S
  BY <1>2, <1>3
<1> QED BY <1>3, <1>4

\* A recursion over 0 .. N in which each value is made of the one before it.
IsRecursion(g, N, X, a, Step) ==
  g \in [0 .. N -> X] /\ g[0] = a /\ \A n \in 1 .. N : g[n] = Step[<<n, g[n - 1]>>]

LEMMA RecursionTo ==
  ASSUME NEW N \in Nat, NEW X, NEW a \in X, NEW Step,
         \A n \in 1 .. N : \A x \in X : Step[<<n, x>>] \in X
  PROVE  \E g : IsRecursion(g, N, X, a, Step)
<1> DEFINE Is(g, m) == IsRecursion(g, m, X, a, Step)
           S == {m \in 0 .. N : \E g : Is(g, m)}
<1>1. 0 \in S
  <2>1. Is([n \in 0 .. 0 |-> a], 0)
    BY DEF IsRecursion
  <2>2. \E g : Is(g, 0)
    BY <2>1
  <2>3. 0 \in 0 .. N
    OBVIOUS
  <2> HIDE DEF Is
  <2> QED BY <2>2, <2>3
<1>2. ASSUME NEW m \in 1 .. N, m - 1 \in S PROVE m \in S
  <2>1. PICK g : Is(g, m - 1)
    BY <1>2
  <2> DEFINE h == [n \in 0 .. m |-> IF n = m THEN Step[<<m, g[m - 1]>>] ELSE g[n]]
  <2>2. \A n \in 0 .. m - 1 : h[n] = g[n] /\ g[n] \in X
    BY <2>1 DEF IsRecursion
  <2>3. h[m] = Step[<<m, g[m - 1]>>] /\ h[m] \in X
    <3>1. m \in 0 .. m /\ m - 1 \in 0 .. m - 1
      OBVIOUS
    <3>2. h[m] = Step[<<m, g[m - 1]>>]
      BY <3>1
    <3>3. g[m - 1] \in X
      BY <2>2, <3>1
    <3>4. Step[<<m, g[m - 1]>>] \in X
      BY <3>3
    <3> QED BY <3>2, <3>4
  <2>4. h \in [0 .. m -> X]
    <3>1. \A n \in 0 .. m : h[n] \in X
      <4>1. \A n \in 0 .. m : n = m \/ n \in 0 .. m - 1
        OBVIOUS
      <4> HIDE DEF h
      <4> QED BY <2>2, <2>3, <4>1
    <3> QED BY <3>1
  <2>5. \A n \in 1 .. m : h[n] = Step[<<n, h[n - 1]>>]
    <3>1. \A n \in 1 .. m - 1 : h[n] = Step[<<n, h[n - 1]>>]
      <4>1. ASSUME NEW n \in 1 .. m - 1 PROVE h[n] = Step[<<n, h[n - 1]>>]
        <5>1. n \in 0 .. m - 1 /\ n - 1 \in 0 .. m - 1
          OBVIOUS
        <5>2. h[n] = g[n] /\ h[n - 1] = g[n - 1] /\ g[n] = Step[<<n, g[n - 1]>>]
          BY <2>1, <2>2, <5>1 DEF IsRecursion
        <5> QED BY <5>2
      <4> QED BY <4>1
    <3>2. h[m - 1] = g[m - 1]
      BY <2>2
    <3> HIDE DEF h
    <3> QED BY <2>3, <3>1, <3>2
  <2>6. h[0] = a
    BY <2>1, <2>2 DEF IsRecursion
  <2> HIDE DEF h
  <2>7. Is(h, m)
    BY <2>4, <2>5, <2>6 DEF IsRecursion
  <2> HIDE DEF Is
  <2> QED BY <2>7
<1>3. \A m \in 0 .. N : m \in S
  <2> HIDE DEF S
  <2> QED BY <1>1, <1>2, InductionTo
<1> QED BY <1>3

\* A piece of a sequence.
LEMMA PieceIs ==
  ASSUME NEW S, NEW text \in Seq(S), NEW a \in Nat, NEW b \in Nat, a <= b, b <= Len(text)
  PROVE  /\ SubSeq(text, a + 1, b) \in Seq(S) /\ Len(SubSeq(text, a + 1, b)) = b - a
         /\ \A k \in 1 .. b - a : SubSeq(text, a + 1, b)[k] = text[a + k]
<1> DEFINE m == a + 1
<1>1. m \in Int /\ b \in Int /\ \A k \in m .. b : text[k] \in S
  BY LenProperties, ElementOfSeq
<1>2. /\ m <= b => b - m + 1 = b - a
      /\ ~(m <= b) => b - a = 0
      /\ b - m + 1 = b - a /\ \A k \in Int : m + k - 1 = a + k
  OBVIOUS
<1> HIDE DEF m
<1>3. /\ SubSeq(text, m, b) \in Seq(S)
      /\ Len(SubSeq(text, m, b)) = IF m <= b THEN b - m + 1 ELSE 0
      /\ \A k \in 1 .. b - m + 1 : SubSeq(text, m, b)[k] = text[m + k - 1]
  BY <1>1, SubSeqProperties
<1> QED BY <1>2, <1>3 DEF m

\* A piece of a piece.
LEMMA PieceOfPiece ==
  ASSUME NEW S, NEW text \in Seq(S), NEW a \in Nat, NEW b \in Nat, a <= b, b <= Len(text),
         NEW j \in Nat, NEW n \in Nat, j + n <= b - a
  PROVE  SubSeq(SubSeq(text, a + 1, b), j + 1, j + n) = SubSeq(text, a + j + 1, a + j + n)
<1> DEFINE t == SubSeq(text, a + 1, b)
           u == SubSeq(t, j + 1, j + n)
           v == SubSeq(text, (a + j) + 1, a + j + n)
<1>1. t \in Seq(S) /\ Len(t) = b - a /\ \A k \in 1 .. b - a : t[k] = text[a + k]
  BY PieceIs
<1>2. /\ j + n \in Nat /\ a + j \in Nat /\ a + j + n \in Nat /\ j <= j + n /\ a + j <= a + j + n
      /\ a + j + n <= b /\ a + j + n <= Len(text) /\ j + n - j = n /\ a + j + n - (a + j) = n
  <2>1. Len(text) \in Nat
    BY LenProperties
  <2> QED BY <2>1
<1> HIDE DEF t
<1>3. u \in Seq(S) /\ Len(u) = n /\ \A k \in 1 .. n : u[k] = t[j + k]
  <2>1. j + n <= Len(t)
    BY <1>1
  <2> QED BY <1>1, <1>2, <2>1, PieceIs
<1>4. v \in Seq(S) /\ Len(v) = n /\ \A k \in 1 .. n : v[k] = text[a + j + k]
  <2> DEFINE c == a + j
             e == a + j + n
  <2>1. c \in Nat /\ e \in Nat /\ c <= e /\ e <= Len(text) /\ e - c = n
    BY <1>2
  <2> HIDE DEF c, e
  <2>2. /\ SubSeq(text, c + 1, e) \in Seq(S) /\ Len(SubSeq(text, c + 1, e)) = e - c
        /\ \A k \in 1 .. e - c : SubSeq(text, c + 1, e)[k] = text[c + k]
    BY <2>1, PieceIs
  <2> QED BY <2>1, <2>2 DEF c, e
<1> HIDE DEF u, v
<1>5. \A k \in 1 .. n : u[k] = v[k]
  <2>1. \A k \in 1 .. n : j + k \in 1 .. b - a /\ a + (j + k) = a + j + k
    OBVIOUS
  <2> QED BY <1>1, <1>3, <1>4, <2>1
<1>6. u = v
  BY <1>3, <1>4, <1>5, SeqEqual
<1> QED BY <1>6 DEF t, u, v

=============================================================================
