------------------------------ MODULE MCFilters ------------------------------
(***************************************************************************)
(* Files for Filters: every byte, pairs of bytes, signatures at every      *)
(* place, and archives with headers that are whole, cut or next to one     *)
(* another.                                                                *)
(***************************************************************************)
EXTENDS Filters, SequencesExt

\* A header whose name length and name are given; LengthAt is 4 here.
HeaderText(length, name) == Sign \o length \o <<1, 1>> \o name

Entry == HeaderText(<<2, 0>>, <<65, 66>>)
Archives ==
  {Entry \o Entry,
   Entry \o Entry \o Sign,                              \* a sum beyond IntMax
   <<255>> \o Entry \o HeaderText(<<1, 0>>, <<67>>),
   <<80, 80>> \o Entry \o Sign,                           \* cut before its length
   Entry \o Sign \o <<1>>,                                \* and within it
   HeaderText(<<3, 0>>, <<65, 0, 66>>) \o <<75>>,
   HeaderText(<<1, 1>>, [k \in 1 .. 17 |-> 65]),
   Sign \o Sign \o Sign \o <<2, 0, 9, 9, 80, 75>>}

MCFiles ==
  {<<b>> : b \in Byte}
  \cup BoundedSeq({0, 192, 223, 239}, 3)
  \cup BoundedSeq({80, 75, 3, 4}, 6)
  \cup {<<49, 50, 51, 52, 53, 54, 55, 56, 57>>}
  \cup Archives

\* The published check value of the algorithm, 0xcbf43926 of "123456789".
ASSUME CheckValue ==
  Remainder(<<49, 50, 51, 52, 53, 54, 55, 56, 57>>) =
    {1, 2, 5, 8, 11, 12, 13, 18, 20, 21, 22, 23, 24, 25, 27, 30, 31}

=============================================================================
