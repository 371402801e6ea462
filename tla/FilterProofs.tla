---------------------------- MODULE FilterProofs -----------------------------
(***************************************************************************)
(* Proofs about the three programs of Filters, for every file, every       *)
(* number of failed and short reads and every size of their buffers.       *)
(***************************************************************************)
EXTENDS Filters, NumberLemmas

-----------------------------------------------------------------------------
(* The RAR-in-JPEG detector *)

Listing == Int \X Seq(Byte)
RarBytes == file \in Seq(Byte) /\ fnameSize \in [1 .. 2 -> Byte]

RarTyped ==
  /\ RarBytes
  /\ rpc \in {"idle", "read", "search", "exit", "undefined"}
  /\ offset \in 0 .. Len(file) /\ signShift \in Nat /\ startSearch \in Nat
  /\ listed \in Seq(Listing) /\ errors \in Nat

\* The chunk is what was read last, and its ends are remembered.
ChunkInv ==
  /\ \A c \in cuts : c \in Nat /\ c <= offset
  /\ offset = 0 \/ offset \in cuts
  /\ rpc = "idle" => offset = 0
  /\ rpc \in {"idle", "read"} => signShift = offset
  /\ rpc = "search" =>
       /\ signShift <= offset /\ data = SubSeq(file, signShift + 1, offset)
       /\ \A c \in cuts : c <= signShift \/ c = offset

\* Up to where the file was searched for headers.
Searched == IF rpc = "search" THEN signShift + startSearch ELSE offset

Whole(p) == \A c \in cuts : c <= p \/ p + 4 <= c

NamedRight(e) ==
  e[1] \notin misread /\ e[1] + LengthAt + 1 < Len(file) /\ file[e[1] + LengthAt + 2] = 0 =>
    e[2] = Printed(BytesAt(e[1] + LengthAt + 4, file[e[1] + LengthAt + 1]))

ListInv ==
  /\ \A k \in 1 .. Len(listed) :
       /\ listed[k][1] \in HeadersIn(file) /\ Whole(listed[k][1])
       /\ listed[k][1] < Searched /\ listed[k][1] + 4 <= offset
       /\ k > 1 => listed[k - 1][1] < listed[k][1]
       /\ NamedRight(listed[k])
  /\ rpc \in {"read", "search"} => \A p \in HeadersIn(file) :
       p + 4 <= offset /\ p < Searched /\ Whole(p) => \E k \in 1 .. Len(listed) : listed[k][1] = p

\* After an error the places are wrong by one, and nothing is promised.
RarInv ==
  /\ errors \in Nat
  /\ program = "is-rarjpeg" /\ errors = 0 => RarTyped /\ ChunkInv /\ ListInv
  /\ program # "is-rarjpeg" => RarIdle

LEMMA BytesAtIs ==
  ASSUME file \in Seq(Byte), NEW p \in Nat, NEW n \in Nat
  PROVE  /\ BytesAt(p, n) \in Seq(Byte)
         /\ p + n <= Len(file) => /\ Len(BytesAt(p, n)) = n
                                  /\ \A k \in 1 .. n : BytesAt(p, n)[k] = file[p + k]
<1> DEFINE e == IF p + n <= Len(file) THEN p + n ELSE Len(file)
<1>1. BytesAt(p, n) = SubSeq(file, p + 1, e)
  BY DEF BytesAt
<1>2. Len(file) \in Nat /\ e \in Nat /\ e <= Len(file) /\ (p + n <= Len(file) => e - p = n)
  BY LenProperties
<1> HIDE DEF e
<1>3. CASE p <= e
  BY <1>1, <1>2, <1>3, PieceIs
<1>4. CASE ~(p <= e)
  <2>1. SubSeq(file, p + 1, e) = <<>>
    <3>1. p + 1 \in Int /\ e \in Int /\ e < p + 1
      BY <1>2, <1>4
    <3> QED BY <3>1, SubSeqEmpty
  <2>2. ~(p + n <= Len(file))
    BY <1>2, <1>4 DEF e
  <2> QED BY <1>1, <2>1, <2>2, EmptySeq
<1> QED BY <1>3, <1>4

LEMMA PrintedIs ==
  ASSUME NEW name \in Seq(Byte)
  PROVE  Printed(name) \in Seq(Byte)
<1> DEFINE nuls == {k \in DOMAIN name : name[k] = 0}
           m == CHOOSE k \in nuls : \A l \in nuls : k <= l
<1>1. Len(name) \in Nat /\ nuls \in SUBSET (1 .. Len(name))
  BY LenProperties
<1>2. CASE nuls = {}
  BY <1>2 DEF Printed
<1>3. CASE nuls # {}
  <2>1. Printed(name) = SubSeq(name, 1, m - 1)
    BY <1>3 DEF Printed
  <2> HIDE DEF nuls
  <2>2. nuls \in SUBSET Nat
    BY <1>1
  <2>3. m \in nuls
    BY <1>3, <2>2, LeastExists
  <2> HIDE DEF m
  <2>4. m - 1 \in Nat /\ m - 1 <= Len(name) /\ 0 \in Nat /\ 0 + 1 = 1 /\ 0 <= m - 1
    BY <1>1, <2>3
  <2>5. SubSeq(name, 0 + 1, m - 1) \in Seq(Byte)
    BY <2>4, PieceIs
  <2> QED BY <2>1, <2>4, <2>5
<1> QED BY <1>2, <1>3

\* A signature of the chunk is one of the file.
LEMMA MatchesAre ==
  ASSUME RarTyped, ChunkInv, rpc = "search"
  PROVE  /\ Len(data) = offset - signShift
         /\ \A p \in Int : p - signShift \in Matches <=>
              p \in HeadersIn(file) /\ signShift + startSearch <= p /\ p + 4 <= offset
<1>1. /\ file \in Seq(Byte) /\ signShift \in Nat /\ offset \in Nat /\ offset <= Len(file)
      /\ Len(file) \in Nat /\ signShift <= offset /\ data = SubSeq(file, signShift + 1, offset)
      /\ startSearch \in Nat
  BY LenProperties DEF RarTyped, RarBytes, ChunkInv
<1>2. Len(data) = offset - signShift
  BY <1>1, PieceIs
<1>3. ASSUME NEW p \in Int
      PROVE  p - signShift \in Matches <=>
               p \in HeadersIn(file) /\ signShift + startSearch <= p /\ p + 4 <= offset
  <2> DEFINE j == p - signShift
  <2>1. CASE signShift + startSearch <= p /\ p + 4 <= offset
    <3>1. j \in Nat /\ j + 4 <= offset - signShift /\ signShift + j = p /\ 4 \in Nat
      BY <1>1, <2>1
    <3>2. SubSeq(data, j + 1, j + 4) = SubSeq(file, signShift + j + 1, signShift + j + 4)
      <4> HIDE DEF j
      <4> QED BY <1>1, <3>1, PieceOfPiece
    <3>3. j \in startSearch .. Len(data) - 4 /\ p \in 0 .. Len(file) - 4
      BY <1>1, <1>2, <2>1
    <3>4. SubSeq(data, j + 1, j + 4) = SubSeq(file, p + 1, p + 4)
      BY <3>1, <3>2
    <3> HIDE DEF j
    <3> QED BY <2>1, <3>3, <3>4 DEF Matches, HeadersIn, j
  <2>2. CASE ~(signShift + startSearch <= p /\ p + 4 <= offset)
    <3>1. j \notin startSearch .. Len(data) - 4
      BY <1>1, <1>2, <2>2
    <3> QED BY <2>2, <3>1 DEF Matches
  <2> QED BY <2>1, <2>2
<1> QED BY <1>2, <1>3

LEMMA RarImplied ==
  ASSUME RarInv
  PROVE  EntriesListed
<1> DEFINE places == [k \in DOMAIN listed |-> listed[k][1]]
<1>1. CASE program = "is-rarjpeg"
  <2> SUFFICES ASSUME errors = 0 PROVE EntriesListed
    BY DEF EntriesListed
  <2>1. RarTyped /\ ListInv
    BY <1>1 DEF RarInv
  <2>2. Len(listed) \in Nat /\ DOMAIN listed = 1 .. Len(listed)
        /\ \A k \in 1 .. Len(listed) : listed[k] \in Listing
    BY <2>1, LenProperties, ElementOfSeq DEF RarTyped
  <2>3. \A k \in 1 .. Len(listed) : places[k] = listed[k][1]
    BY <2>2
  <2>4. ASSUME NEW k \in DOMAIN places
        PROVE  /\ places[k] \in HeadersIn(file) /\ Whole(places[k])
               /\ k > 1 => places[k - 1] < places[k]
               /\ places[k] \notin misread /\ places[k] + LengthAt + 1 < Len(file)
                    /\ file[places[k] + LengthAt + 2] = 0 =>
                    listed[k][2] = Printed(BytesAt(places[k] + LengthAt + 4,
                                                   file[places[k] + LengthAt + 1]))
    <3>1. k \in 1 .. Len(listed) /\ (k > 1 => k - 1 \in 1 .. Len(listed))
      BY <2>2
    <3> HIDE DEF places
    <3> QED BY <2>1, <2>3, <3>1 DEF ListInv, NamedRight
  <2>5. rpc = "read" => \A p \in HeadersIn(file) :
          p + 4 <= offset /\ Whole(p) => \E k \in DOMAIN places : places[k] = p
    <3> SUFFICES ASSUME rpc = "read", NEW p \in HeadersIn(file), p + 4 <= offset, Whole(p)
                 PROVE  \E k \in DOMAIN places : places[k] = p
      OBVIOUS
    <3>1. p < Searched
      BY <2>1 DEF Searched, HeadersIn, RarTyped
    <3>2. PICK k \in 1 .. Len(listed) : listed[k][1] = p
      BY <2>1, <3>1 DEF ListInv
    <3> QED BY <2>2, <2>3, <3>2
  <2> HIDE DEF places
  <2> QED BY <2>4, <2>5 DEF EntriesListed, Whole, places
<1>2. CASE program # "is-rarjpeg"
  <2>1. listed = <<>> /\ rpc = "idle"
    BY <1>2 DEF RarInv, RarIdle
  <2> QED BY <2>1 DEF EntriesListed
<1> QED BY <1>1, <1>2

\* The steps by which nothing is read and nothing is listed.
LEMMA QuietRarStep ==
  ASSUME RarTyped, ChunkInv, ListInv, errors = 0, RarOpen \/ EndOfFile \/ Undefined
  PROVE  RarTyped' /\ ChunkInv' /\ ListInv'
<1>1. /\ UNCHANGED <<file, offset, errors, data, startSearch, signShift, fnameSize, listed, cuts, misread>>
      /\ \/ rpc = "idle" /\ rpc' \in {"read", "exit"}
         \/ rpc = "read" /\ rpc' = "exit"
         \/ rpc = "search" /\ rpc' = "undefined"
  BY DEF RarOpen, EndOfFile, Undefined, disk
<1>2. /\ rpc # "search" => Searched' = Searched
      /\ rpc = "idle" => offset = 0
      /\ \A k \in 1 .. Len(listed) : listed[k][1] < Searched'
  <2>1. rpc # "search" => Searched' = Searched
    BY <1>1 DEF Searched
  <2>2. ASSUME NEW k \in 1 .. Len(listed), rpc = "search" PROVE listed[k][1] < Searched'
    <3>1. listed[k][1] \in HeadersIn(file) /\ listed[k][1] + 4 <= offset
      BY DEF ListInv
    <3>2. Searched' = offset /\ offset \in Nat
      BY <1>1, <2>2 DEF Searched, RarTyped
    <3> QED BY <3>1, <3>2 DEF HeadersIn
  <2>3. \A k \in 1 .. Len(listed) : listed[k][1] < Searched
    BY DEF ListInv
  <2> QED BY <1>1, <2>1, <2>2, <2>3 DEF ChunkInv
<1>3. RarTyped' /\ ChunkInv'
  BY <1>1 DEF RarTyped, RarBytes, ChunkInv
<1>4. ListInv'
  <2>1. rpc' = "read" => \A p \in HeadersIn(file) : ~(p + 4 <= offset)
    BY <1>1, <1>2 DEF HeadersIn
  <2> QED BY <1>1, <1>2, <2>1 DEF ListInv, NamedRight, BytesAt, Whole
<1> QED BY <1>3, <1>4

LEMMA ReadChunkStep ==
  ASSUME RarTyped, ChunkInv, ListInv, ReadChunk
  PROVE  RarTyped' /\ ChunkInv' /\ ListInv'
<1>1. /\ rpc = "read" /\ rpc' = "search" /\ startSearch' = 0 /\ cuts' = cuts \cup {offset'}
      /\ UNCHANGED <<signShift, fnameSize, listed, misread, file, errors>> /\ Left > 0
  BY DEF ReadChunk, Read
<1>2. PICK n \in 0 .. (IF ChunkSize <= Left THEN ChunkSize ELSE Left) :
        data' = SubSeq(file, offset + 1, offset + n) /\ offset' = offset + n
  BY DEF ReadChunk, Read
<1>3. /\ offset \in Nat /\ offset' \in Nat /\ offset <= offset' /\ offset' <= Len(file)
      /\ Len(file) \in Nat /\ signShift = offset /\ signShift' = offset
      /\ Searched = offset /\ Searched' = offset
  <2>1. Len(file) \in Nat /\ offset \in Nat /\ offset <= Len(file) /\ ChunkSize \in Nat
    BY LenProperties, RarAssumption DEF RarTyped, RarBytes
  <2>2. n \in Nat /\ offset + n <= Len(file)
    BY <1>2, <2>1 DEF Left
  <2>3. signShift = offset /\ Searched = offset /\ signShift' = offset
    BY <1>1 DEF ChunkInv, Searched
  <2>4. Searched' = offset
    BY <1>1, <2>1, <2>3 DEF Searched
  <2> QED BY <1>2, <2>1, <2>2, <2>3, <2>4
<1>4. RarTyped'
  BY <1>1, <1>3 DEF RarTyped, RarBytes
<1>5. ChunkInv'
  <2>1. \A c \in cuts : c \in Nat /\ c <= offset
    BY DEF ChunkInv
  <2> QED BY <1>1, <1>2, <1>3, <2>1 DEF ChunkInv
<1>6. ListInv'
  <2>1. ASSUME NEW k \in 1 .. Len(listed)
        PROVE  /\ listed[k][1] \in HeadersIn(file) /\ Whole(listed[k][1])'
               /\ listed[k][1] < Searched' /\ listed[k][1] + 4 <= offset'
               /\ k > 1 => listed[k - 1][1] < listed[k][1]
               /\ NamedRight(listed[k])
    <3>1. /\ listed[k][1] \in HeadersIn(file) /\ Whole(listed[k][1])
          /\ listed[k][1] < Searched /\ listed[k][1] + 4 <= offset
          /\ k > 1 => listed[k - 1][1] < listed[k][1]
          /\ NamedRight(listed[k])
      BY DEF ListInv
    <3>2. listed[k][1] \in Nat
      BY <3>1 DEF HeadersIn
    <3> QED BY <1>1, <1>3, <3>1, <3>2 DEF Whole
  <2>2. ASSUME NEW p \in HeadersIn(file), p + 4 <= offset', p < Searched', Whole(p)'
        PROVE  \E k \in 1 .. Len(listed) : listed[k][1] = p
    <3>1. p \in Nat
      BY DEF HeadersIn
    <3>2. p + 4 <= offset
      <4>1. offset \in cuts
        BY <1>3, <2>2, <3>1 DEF ChunkInv
      <4> QED BY <1>1, <1>3, <2>2, <3>1, <4>1 DEF Whole
    <3>3. Whole(p) /\ p < Searched
      BY <1>1, <1>3, <2>2 DEF Whole
    <3> QED BY <1>1, <3>2, <3>3 DEF ListInv
  <2> QED BY <1>1, <2>1, <2>2 DEF ListInv, NamedRight, BytesAt
<1> QED BY <1>4, <1>5, <1>6

LEMMA NoMoreHeadersStep ==
  ASSUME RarTyped, ChunkInv, ListInv, NoMoreHeaders
  PROVE  RarTyped' /\ ChunkInv' /\ ListInv'
<1>1. /\ rpc = "search" /\ rpc' = "read" /\ Matches = {} /\ signShift' = signShift + Len(data)
      /\ UNCHANGED <<file, offset, errors, data, startSearch, fnameSize, listed, cuts, misread>>
  BY DEF NoMoreHeaders, disk
<1>2. /\ offset \in Nat /\ signShift \in Nat /\ signShift <= offset /\ signShift' = offset
      /\ Searched' = offset
  <2>1. Len(data) = offset - signShift /\ offset \in Nat /\ signShift \in Nat /\ signShift <= offset
    BY <1>1, MatchesAre DEF RarTyped, ChunkInv
  <2> QED BY <1>1, <2>1 DEF Searched
<1>3. RarTyped'
  BY <1>1, <1>2 DEF RarTyped, RarBytes
<1>4. ChunkInv'
  BY <1>1, <1>2 DEF ChunkInv
<1>5. ListInv'
  <2>1. ASSUME NEW k \in 1 .. Len(listed)
        PROVE  listed[k][1] < Searched'
    <3>1. listed[k][1] \in HeadersIn(file) /\ listed[k][1] + 4 <= offset
      BY DEF ListInv
    <3> QED BY <1>2, <3>1 DEF HeadersIn
  <2>2. ASSUME NEW p \in HeadersIn(file), p + 4 <= offset, Whole(p)
        PROVE  \E k \in 1 .. Len(listed) : listed[k][1] = p
    <3>1. p \in Int /\ p - signShift \notin Matches
      BY <1>1 DEF HeadersIn
    <3>2. ~(signShift + startSearch <= p)
      BY <1>1, <2>2, <3>1, MatchesAre
    <3>3. p < Searched
      BY <1>1, <3>1, <3>2 DEF Searched, RarTyped
    <3> QED BY <1>1, <2>2, <3>3 DEF ListInv
  <2> QED BY <1>1, <2>1, <2>2 DEF ListInv, NamedRight, BytesAt, Whole
<1> QED BY <1>3, <1>4, <1>5

LEMMA LengthReadIs ==
  ASSUME RarBytes, NEW p \in Nat, NEW m \in 0 .. Len(BytesAt(p, 2))
  PROVE  LET size == LengthRead(SubSeq(BytesAt(p, 2), 1, m))
         IN  /\ size \in [1 .. 2 -> Byte]
             /\ m = Len(BytesAt(p, 2)) /\ p + 1 < Len(file) =>
                  size[1] = file[p + 1] /\ size[2] = file[p + 2]
<1> DEFINE b == BytesAt(p, 2)
           c == SubSeq(b, 1, m)
<1>1. b \in Seq(Byte) /\ Len(file) \in Nat /\ Len(b) \in Nat
  BY BytesAtIs, LenProperties DEF RarBytes
<1>2. p + 2 <= Len(file) => Len(b) = 2 /\ \A k \in 1 .. 2 : b[k] = file[p + k]
  BY BytesAtIs DEF RarBytes
<1>3. m \in 0 .. Len(b)
  OBVIOUS
<1> HIDE DEF b
<1>4. c \in Seq(Byte) /\ Len(c) = m /\ (m = Len(b) => c = b)
  <2>1. 0 \in Nat /\ m \in Nat /\ 0 <= m /\ m <= Len(b) /\ 0 + 1 = 1 /\ m - 0 = m
    BY <1>1, <1>3
  <2>2. SubSeq(b, 0 + 1, m) \in Seq(Byte) /\ Len(SubSeq(b, 0 + 1, m)) = m - 0
    BY <1>1, <2>1, PieceIs
  <2>3. m = Len(b) => SubSeq(b, 1, m) = b
    BY <1>1, SubSeqFull
  <2> QED BY <2>1, <2>2, <2>3
<1> HIDE DEF c
<1>5. LengthRead(c) = [k \in 1 .. 2 |-> IF k <= Len(c) THEN c[k] ELSE fnameSize[k]]
  BY DEF LengthRead
<1>6. \A k \in 1 .. 2 : k <= Len(c) => c[k] \in Byte
  <2>1. Len(c) \in Nat /\ \A k \in 1 .. Len(c) : c[k] \in Byte
    BY <1>4, LenProperties, ElementOfSeq
  <2> QED BY <2>1
<1>7. LengthRead(c) \in [1 .. 2 -> Byte]
  BY <1>5, <1>6 DEF RarBytes
<1>8. m = Len(b) /\ p + 1 < Len(file) =>
        LengthRead(c)[1] = file[p + 1] /\ LengthRead(c)[2] = file[p + 2]
  <2>1. p + 1 < Len(file) => p + 2 <= Len(file)
    BY <1>1
  <2> QED BY <1>2, <1>4, <1>5, <2>1
<1> QED BY <1>7, <1>8 DEF b, c

LEMMA HeaderStep ==
  ASSUME RarTyped, ChunkInv, ListInv, Header
  PROVE  RarTyped' /\ ChunkInv' /\ ListInv'
<1> DEFINE m == CHOOSE i \in Matches : \A j \in Matches : i <= j
           p == m + signShift
           length == BytesAt(p + LengthAt, 2)
           size(a) == LengthRead(SubSeq(length, 1, a))
           n(a) == size(a)[1] + 16 * size(a)[2]
           name(a) == BytesAt(p + LengthAt + 4, n(a))
<1>0. PICK a \in 0 .. Len(length) : 
             /\ fnameSize' = size(a)
             /\ \E b \in 0 .. Len(name(a)) :
                  /\ listed' = Append(listed, <<p, Printed(SubSeq(name(a), 1, b))>>)
                  /\ misread' = IF a = Len(length) /\ b = Len(name(a))
                                  THEN misread ELSE misread \cup {p}
  BY DEF Header
<1>1. /\ rpc = "search" /\ Matches # {} /\ startSearch' = m + 1 /\ rpc' = "search"
      /\ UNCHANGED <<file, offset, errors, data, signShift, cuts>>
  BY DEF Header, disk
<1>2. /\ offset \in Nat /\ signShift \in Nat /\ startSearch \in Nat /\ LengthAt \in Nat
      /\ file \in Seq(Byte) /\ Len(file) \in Nat /\ offset <= Len(file) /\ signShift <= offset
      /\ listed \in Seq(Listing) /\ Len(listed) \in Nat
      /\ Searched = signShift + startSearch
  BY <1>1, LenProperties, RarAssumption DEF RarTyped, RarBytes, ChunkInv, Searched
<1>3. m \in Matches /\ \A j \in Matches : m <= j
  <2>1. Matches \in SUBSET Nat
    <3>1. Len(data) = offset - signShift
      BY <1>1, MatchesAre
    <3> QED BY <1>2, <3>1 DEF Matches
  <2> QED BY <1>1, <2>1, LeastExists
<1>4. m \in Nat
  <2>1. Len(data) = offset - signShift
    BY <1>1, MatchesAre
  <2> QED BY <1>2, <1>3, <2>1 DEF Matches
<1> HIDE DEF m
<1>5. /\ p \in Nat /\ p \in HeadersIn(file) /\ signShift + startSearch <= p /\ p + 4 <= offset
      /\ Searched' = p + 1
  <2>1. p \in Int /\ p - signShift = m
    BY <1>2, <1>4
  <2>2. p \in HeadersIn(file) /\ signShift + startSearch <= p /\ p + 4 <= offset
    BY <1>1, <1>3, <2>1, MatchesAre
  <2> QED BY <1>1, <1>2, <1>4, <2>2 DEF Searched
<1>6. \A q \in HeadersIn(file) : signShift + startSearch <= q /\ q + 4 <= offset => p <= q
  <2> SUFFICES ASSUME NEW q \in HeadersIn(file), signShift + startSearch <= q, q + 4 <= offset
               PROVE  p <= q
    OBVIOUS
  <2>1. q \in Int
    BY DEF HeadersIn
  <2>2. q - signShift \in Matches
    BY <1>1, <2>1, MatchesAre
  <2> QED BY <1>2, <1>3, <1>4, <2>1, <2>2
<1> HIDE DEF p
<1>7. /\ size(a) \in [1 .. 2 -> Byte] /\ n(a) \in Nat
      /\ a = Len(length) /\ p + LengthAt + 1 < Len(file) =>
           size(a)[1] = file[p + LengthAt + 1] /\ size(a)[2] = file[p + LengthAt + 2]
  <2> DEFINE l == p + LengthAt
  <2>1. l \in Nat
    BY <1>2, <1>5
  <2> HIDE DEF l
  <2>2. a \in 0 .. Len(BytesAt(l, 2)) /\ size(a) = LengthRead(SubSeq(BytesAt(l, 2), 1, a))
    BY <1>0 DEF l
  <2>3. /\ size(a) \in [1 .. 2 -> Byte]
        /\ a = Len(BytesAt(l, 2)) /\ l + 1 < Len(file) =>
             size(a)[1] = file[l + 1] /\ size(a)[2] = file[l + 2]
    <3> HIDE DEF size
    <3> QED BY <2>1, <2>2, LengthReadIs DEF RarTyped
  <2>4. n(a) \in Nat
    <3> DEFINE x == size(a)[1]
               y == size(a)[2]
    <3>1. x \in 0 .. 255 /\ y \in 0 .. 255
      <4> HIDE DEF size
      <4> QED BY <2>3 DEF Byte
    <3>2. n(a) = x + 16 * y
      OBVIOUS
    <3> HIDE DEF n, x, y
    <3> QED BY <3>1, <3>2
  <2> HIDE DEF size, n
  <2> QED BY <2>3, <2>4 DEF l
<1> HIDE DEF size
<1>8. PICK b \in 0 .. Len(name(a)) :
        /\ listed' = Append(listed, <<p, Printed(SubSeq(name(a), 1, b))>>)
        /\ misread' = IF a = Len(length) /\ b = Len(name(a)) THEN misread ELSE misread \cup {p}
  BY <1>0
<1> DEFINE e == <<p, Printed(SubSeq(name(a), 1, b))>>
<1>9. /\ name(a) \in Seq(Byte) /\ SubSeq(name(a), 1, b) \in Seq(Byte)
      /\ b = Len(name(a)) => SubSeq(name(a), 1, b) = name(a)
  <2> DEFINE l == p + LengthAt + 4
  <2>1. l \in Nat
    BY <1>2, <1>5
  <2> HIDE DEF l, n
  <2>2. name(a) \in Seq(Byte)
    <3>1. BytesAt(l, n(a)) \in Seq(Byte)
      BY <1>2, <1>7, <2>1, BytesAtIs
    <3> QED BY <3>1 DEF l
  <2> HIDE DEF name
  <2>3. Len(name(a)) \in Nat
    BY <2>2, LenProperties
  <2>4. 0 \in Nat /\ b \in Nat /\ 0 <= b /\ b <= Len(name(a)) /\ 0 + 1 = 1
    BY <1>8, <2>3
  <2>5. SubSeq(name(a), 0 + 1, b) \in Seq(Byte)
    BY <2>2, <2>4, PieceIs
  <2> QED BY <2>2, <2>4, <2>5, SubSeqFull
<1>10. e \in Listing /\ e[1] = p /\ e[2] = Printed(SubSeq(name(a), 1, b))
  <2> HIDE DEF name
  <2>1. Printed(SubSeq(name(a), 1, b)) \in Seq(Byte)
    BY <1>9, PrintedIs
  <2> QED BY <1>5, <2>1 DEF Listing
<1>11. \A x : x = e => NamedRight(x)'
  <2> SUFFICES ASSUME p \notin misread', p + LengthAt + 1 < Len(file), file[p + LengthAt + 2] = 0
               PROVE  e[2] = Printed(BytesAt(p + LengthAt + 4, file[p + LengthAt + 1]))
    BY <1>1, <1>10 DEF NamedRight, BytesAt
  <2>1. a = Len(length) /\ b = Len(name(a))
    <3> HIDE DEF length, name
    <3> QED BY <1>8
  <2> DEFINE x == size(a)[1]
             y == size(a)[2]
  <2>2. n(a) = x + 16 * y /\ x = file[p + LengthAt + 1] /\ y = 0 /\ x \in 0 .. 255
    <3> HIDE DEF length
    <3> QED BY <1>7, <2>1 DEF Byte
  <2>3. n(a) = file[p + LengthAt + 1]
    <3> HIDE DEF n, x, y
    <3> QED BY <2>2
  <2>4. e[2] = Printed(name(a))
    <3>1. SubSeq(name(a), 1, b) = name(a)
      <4> HIDE DEF name, length
      <4> QED BY <1>9, <2>1
    <3>2. e[2] = Printed(SubSeq(name(a), 1, b))
      OBVIOUS
    <3> HIDE DEF name, e
    <3> QED BY <3>1, <3>2
  <2> HIDE DEF n, e
  <2> QED BY <2>3, <2>4
<1>12. /\ listed' = Append(listed, e) /\ fnameSize' \in [1 .. 2 -> Byte]
       /\ \A q : q \in misread => q \in misread'
  <2> HIDE DEF length, name, n
  <2> QED BY <1>0, <1>7, <1>8
<1> HIDE DEF e, n, name, length
<1> DEFINE N == Len(listed)
<1>13. /\ listed' \in Seq(Listing) /\ Len(listed') = N + 1 /\ listed'[N + 1] = e
       /\ \A k \in 1 .. N : listed'[k] = listed[k]
  BY <1>2, <1>10, <1>12, AppendProperties
<1>14. RarTyped'
  BY <1>1, <1>4, <1>13, <1>12 DEF RarTyped, RarBytes
<1>15. ChunkInv'
  BY <1>1 DEF ChunkInv
<1>16. ListInv'
  <2>1. \A k \in 1 .. N : listed[k][1] \in Nat /\ listed[k][1] < p
    <3>1. ASSUME NEW k \in 1 .. N PROVE listed[k][1] \in Nat /\ listed[k][1] < Searched
      <4>1. listed[k][1] \in HeadersIn(file)
        BY DEF ListInv
      <4>2. listed[k][1] < Searched
        BY DEF ListInv
      <4> QED BY <4>1, <4>2 DEF HeadersIn
    <3>2. ASSUME NEW k \in 1 .. N PROVE listed[k][1] < p
      <4>1. listed[k][1] \in Nat /\ listed[k][1] < Searched
        BY <3>1
      <4> QED BY <1>2, <1>5, <4>1
    <3> QED BY <1>5, <3>1, <3>2
  <2>2. ASSUME NEW k \in 1 .. N + 1
        PROVE  /\ listed'[k][1] \in HeadersIn(file) /\ Whole(listed'[k][1])
               /\ listed'[k][1] < Searched' /\ listed'[k][1] + 4 <= offset
               /\ k > 1 => listed'[k - 1][1] < listed'[k][1]
               /\ \A x : x = listed'[k] => NamedRight(x)'
    <3>1. CASE k \in 1 .. N
      <4>0. /\ listed[k][1] \in HeadersIn(file) /\ Whole(listed[k][1]) /\ listed[k][1] + 4 <= offset
            /\ k > 1 => listed[k - 1][1] < listed[k][1]
            /\ NamedRight(listed[k])
        BY <3>1 DEF ListInv
      <4>4. \A x : x = listed[k] => NamedRight(x)'
        BY <1>1, <1>12, <4>0 DEF NamedRight, BytesAt
      <4>1. k > 1 => listed'[k - 1] = listed[k - 1]
        BY <1>13, <3>1
      <4>2. listed[k][1] < Searched'
        <5>1. listed[k][1] \in Nat /\ listed[k][1] < p
          BY <2>1, <3>1
        <5> QED BY <1>5, <5>1
      <4>3. listed'[k] = listed[k]
        BY <1>13, <3>1
      <4> QED BY <4>0, <4>1, <4>2, <4>3, <4>4
    <3>2. CASE k = N + 1
      <4>1. listed'[k] = e
        BY <1>13, <3>2
      <4>2. k > 1 => listed'[k - 1][1] < p
        <5> SUFFICES ASSUME k > 1 PROVE listed'[k - 1][1] < p
          OBVIOUS
        <5>1. k - 1 \in 1 .. N
          BY <1>2, <3>2
        <5>2. listed[k - 1][1] < p /\ listed'[k - 1] = listed[k - 1]
          BY <1>13, <2>1, <5>1
        <5> QED BY <5>2
      <4>3. Whole(p)
        <5>1. \A c \in cuts : c \in Nat /\ (c <= signShift \/ c = offset)
          BY <1>1 DEF ChunkInv
        <5> QED BY <1>2, <1>5, <5>1 DEF Whole
      <4>4. \A x : x = listed'[k] => NamedRight(x)'
        BY <1>11, <4>1
      <4> QED BY <1>5, <1>10, <4>1, <4>2, <4>3, <4>4
    <3> QED BY <1>2, <3>1, <3>2
  <2>3. ASSUME NEW q \in HeadersIn(file), q + 4 <= offset, q < Searched', Whole(q)
        PROVE  \E k \in 1 .. N + 1 : listed'[k][1] = q
    <3>1. q \in Nat
      BY DEF HeadersIn
    <3>2. CASE q < Searched
      <4>1. PICK k \in 1 .. N : listed[k][1] = q
        BY <1>1, <2>3, <3>2 DEF ListInv
      <4> QED BY <1>2, <1>13, <4>1
    <3>3. CASE ~(q < Searched)
      <4>1. p <= q
        BY <1>2, <1>6, <2>3, <3>1, <3>3
      <4>2. q = p
        BY <1>5, <2>3, <3>1, <4>1
      <4> QED BY <1>2, <1>10, <1>13, <4>2
    <3> QED BY <3>2, <3>3
  <2> HIDE DEF N
  <2>4. \A k \in 1 .. Len(listed') : NamedRight(listed[k])'
    BY <1>13, <2>2 DEF NamedRight, BytesAt
  <2> QED BY <1>1, <1>13, <2>2, <2>3, <2>4 DEF ListInv, Whole
<1> QED BY <1>14, <1>15, <1>16

-----------------------------------------------------------------------------
(* The code page converter: characters *)

LEMMA SwapIs ==
  ASSUME NEW x \in Nat, x <= 65535
  PROVE  Swap(x) % 256 = x \div 256 /\ Swap(x) \div 256 = x % 256
<1> DEFINE h == x \div 256
           l == x % 256
<1>1. h \in 0 .. 255 /\ l \in 0 .. 255 /\ x = 256 * h + l
  OBVIOUS
<1> HIDE DEF h, l
<1>2. (x * 256) % 65536 = 256 * l
  BY <1>1
<1>3. Swap(x) = h + 256 * l
  BY <1>2 DEF Swap, h
<1>4. Swap(x) % 256 = h /\ Swap(x) \div 256 = l
  BY <1>1, <1>3
<1> QED BY <1>4 DEF h, l

\* The letters that the tables have right: from byte b, the value x.
LEMMA KoiLetters ==
  ASSUME NEW b \in (192 .. 255) \ {198}, NEW x, x = Koi8rLetters[b - 191]
  PROVE  x \in Nat /\ x <= 65535 /\ <<x \div 256, x % 256>> = Utf8(Unicode("koi8-r", b))
<1>1. x \in Nat
  <2>1. Koi8rLetters \in Seq(Nat) /\ Len(Koi8rLetters) = 64
    BY DEF Koi8rLetters
  <2> DEFINE table == Koi8rLetters
  <2>2. \A k \in 1 .. 64 : table[k] \in Nat
    <3>1. table \in Seq(Nat) /\ Len(table) = 64
      BY <2>1
    <3> HIDE DEF table
    <3>2. \A k \in 1 .. Len(table) : table[k] \in Nat
      <4>1. table \in Seq(Nat)
        BY <3>1
      <4> QED BY ONLY <4>1, ElementOfSeq
    <3>3. Len(table) = 64
      BY <3>1
    <3> QED BY ONLY <3>2, <3>3
  <2>3. b - 191 \in 1 .. 64
    OBVIOUS
  <2> QED BY <2>2, <2>3
<1>2. /\ x <= 65535
      /\ <<x \div 256, x % 256>>
           = Utf8(IF b < 224 THEN \h430 + Koi8Order[b - 191] ELSE \h410 + Koi8Order[b - 223])
  BY <1>1 DEF Koi8rLetters, Koi8Order, Utf8
<1>3. Unicode("koi8-r", b) = IF b < 224 THEN \h430 + Koi8Order[b - 191] ELSE \h410 + Koi8Order[b - 223]
  BY DEF Unicode
<1> QED BY <1>1, <1>2, <1>3

\* The two bytes of the n-th letter of the 64 in a row, as one number.
LetterOf(n) == IF n < 48 THEN \hd090 + n ELSE \hd180 + (n - 48)

LEMMA RowOfLetters ==
  ASSUME NEW n \in 0 .. 63
  PROVE  LetterOf(n) \in Nat /\ LetterOf(n) <= 65535
         /\ <<LetterOf(n) \div 256, LetterOf(n) % 256>> = Utf8(\h410 + n)
<1>1. CASE n < 48
  BY <1>1 DEF Utf8, LetterOf
<1>2. CASE n >= 48
  BY <1>2 DEF Utf8, LetterOf
<1> QED BY <1>1, <1>2

\* From byte b of code page e, the table has UTF-8's two bytes, the swapped ones of x.
RightLetter(e, table, b) ==
  \E x \in Nat : /\ x <= 65535
                /\ <<x \div 256, x % 256>> = Utf8(Unicode(e, b))
                /\ table[b] = Swap(x)

LEMMA CpLetters ==
  ASSUME NEW b \in 192 .. 255
  PROVE  RightLetter("cp-1251", Cp1251, b)
<1> DEFINE n == b - 192
<1>1. n \in 0 .. 63
  OBVIOUS
<1>2. Unicode("cp-1251", b) = \h410 + n
  BY DEF Unicode
<1>3. LetterOf(n) = (CASE b \in 192 .. 207 -> \hd090 + (b - 192)
                       [] b \in 208 .. 223 -> \hd0a0 + (b - 208)
                       [] b \in 224 .. 239 -> \hd0b0 + (b - 224)
                       [] b \in 240 .. 255 -> \hd180 + (b - 240)
                       [] OTHER -> 0)
  BY DEF LetterOf
<1>4. Cp1251[b] = Swap(LetterOf(n))
  BY <1>3 DEF Cp1251, Byte
<1> HIDE DEF n
<1>5. LetterOf(n) \in Nat /\ LetterOf(n) <= 65535
      /\ <<LetterOf(n) \div 256, LetterOf(n) % 256>> = Utf8(\h410 + n)
  BY <1>1, RowOfLetters
<1> QED BY <1>2, <1>4, <1>5 DEF RightLetter

LEMMA IsoLetters ==
  ASSUME NEW b \in 176 .. 239, b # 223, b # 239
  PROVE  RightLetter("iso-8859", Iso8859, b)
<1> DEFINE n == b - 176
<1>1. n \in 0 .. 63
  OBVIOUS
<1>2. Unicode("iso-8859", b) = \h410 + n
  BY DEF Unicode
<1>3. LetterOf(n) = (CASE b \in 176 .. 222 -> \hd090 + (b - 176)
                       [] b \in 224 .. 238 -> \hd180 + (b - 224)
                       [] OTHER -> 0)
  BY DEF LetterOf
<1>4. Iso8859[b] = Swap(LetterOf(n))
  BY <1>3 DEF Iso8859, Byte
<1> HIDE DEF n
<1>5. LetterOf(n) \in Nat /\ LetterOf(n) <= 65535
      /\ <<LetterOf(n) \div 256, LetterOf(n) % 256>> = Utf8(\h410 + n)
  BY <1>1, RowOfLetters
<1> QED BY <1>2, <1>4, <1>5 DEF RightLetter

\* What the tables make of a character that they have right.
LEMMA ConvertedIs ==
  ASSUME encoding \in Encodings, NEW b \in (0 .. 126) \cup Letters(encoding)
  PROVE  /\ Converted(b) = {Utf8(Unicode(encoding, b))}
         /\ Utf8(Unicode(encoding, b)) \in Seq(Nat)
<1>1. CASE b \in 0 .. 126
  <2>1. b \in Nat /\ b < 127 /\ b < 128
    BY <1>1
  <2>2. Low(b) = {b} /\ Converted(b) = {<<x>> : x \in Low(b)}
    BY <2>1 DEF Low, Converted
  <2>3. Unicode(encoding, b) = b
    BY <2>1 DEF Unicode
  <2>4. Utf8(b) = <<b>>
    BY <2>1 DEF Utf8
  <2> QED BY <2>1, <2>2, <2>3, <2>4
<1>2. ASSUME NEW x \in Nat, x <= 65535, b \in 128 .. 255, CodePage(encoding)[b] = Swap(x),
             Utf8(Unicode(encoding, b)) = <<x \div 256, x % 256>>
      PROVE  /\ Converted(b) = {Utf8(Unicode(encoding, b))}
             /\ Utf8(Unicode(encoding, b)) \in Seq(Nat)
  <2>1. Converted(b) = {<<Swap(x) % 256, Swap(x) \div 256>>}
    <3>1. ~(b < 128)
      BY <1>2
    <3> QED BY <1>2, <3>1 DEF Converted
  <2>2. x \div 256 \in Nat /\ x % 256 \in Nat
    OBVIOUS
  <2>3. Converted(b) = {<<x \div 256, x % 256>>}
    BY <1>2, <2>1, SwapIs
  <2>4. <<x \div 256, x % 256>> \in Seq(Nat)
    BY <2>2
  <2> QED BY <1>2, <2>3, <2>4
<1>3. CASE b \in Letters(encoding) /\ encoding = "koi8-r"
  <2>1. b \in (192 .. 255) \ {198} /\ b \in 128 .. 255
    BY <1>3 DEF Letters
  <2>2. CodePage(encoding)[b] = Swap(Koi8rLetters[b - 191])
    BY <1>3, <2>1 DEF CodePage, Koi8r, Byte
  <2>3. PICK x : x = Koi8rLetters[b - 191]
    OBVIOUS
  <2>4. x \in Nat /\ x <= 65535 /\ <<x \div 256, x % 256>> = Utf8(Unicode("koi8-r", b))
    BY <2>1, <2>3, KoiLetters
  <2> QED BY <1>2, <1>3, <2>1, <2>2, <2>3, <2>4
<1>4. CASE b \in Letters(encoding) /\ encoding = "cp-1251"
  <2>1. b \in 192 .. 255 /\ b \in 128 .. 255 /\ CodePage(encoding) = Cp1251
    BY <1>4 DEF Letters, CodePage
  <2>2. RightLetter("cp-1251", Cp1251, b)
    BY <2>1, CpLetters
  <2>3. PICK x \in Nat : /\ x <= 65535
                        /\ <<x \div 256, x % 256>> = Utf8(Unicode("cp-1251", b))
                        /\ Cp1251[b] = Swap(x)
    BY <2>2 DEF RightLetter
  <2> QED BY <1>2, <1>4, <2>1, <2>3
<1>5. CASE b \in Letters(encoding) /\ encoding = "iso-8859"
  <2>1. b \in 176 .. 239 /\ b # 223 /\ b # 239 /\ b \in 128 .. 255 /\ CodePage(encoding) = Iso8859
    BY <1>5 DEF Letters, CodePage
  <2>2. RightLetter("iso-8859", Iso8859, b)
    BY <2>1, IsoLetters
  <2>3. PICK x \in Nat : /\ x <= 65535
                        /\ <<x \div 256, x % 256>> = Utf8(Unicode("iso-8859", b))
                        /\ Iso8859[b] = Swap(x)
    BY <2>2 DEF RightLetter
  <2> QED BY <1>2, <1>5, <2>1, <2>3
<1> QED BY <1>1, <1>3, <1>4, <1>5 DEF Encodings

-----------------------------------------------------------------------------
(* The code page converter: the text *)

\* Every character of the text is one that the tables have right.
Converts(e, text) == \A k \in DOMAIN text : text[k] \in (0 .. 126) \cup Letters(e)

\* The UTF-8 of the first n characters of a text, for each n.
Utf8Of(e, text) ==
  CHOOSE g : g = [n \in 0 .. Len(text) |->
                    IF n = 0 THEN <<>> ELSE g[n - 1] \o Utf8(Unicode(e, text[n]))]

IsUtf8(g, e, text) ==
  /\ g \in [0 .. Len(text) -> Seq(Nat)] /\ g[0] = <<>>
  /\ \A n \in 1 .. Len(text) : /\ Utf8(Unicode(e, text[n])) \in Seq(Nat)
                               /\ g[n] = g[n - 1] \o Utf8(Unicode(e, text[n]))

LEMMA Utf8OfIs ==
  ASSUME NEW text \in Seq(Byte), encoding \in Encodings, Converts(encoding, text)
  PROVE  IsUtf8(Utf8Of(encoding, text), encoding, text)
<1> DEFINE N == Len(text)
           Char == [n \in 1 .. N |-> Utf8(Unicode(encoding, text[n]))]
           Is(g) == g = [n \in 0 .. N |-> IF n = 0 THEN <<>> ELSE g[n - 1] \o Char[n]]
           Step == [q \in (1 .. N) \X Seq(Nat) |-> q[2] \o Char[q[1]]]
           U == CHOOSE g : Is(g)
<1>1. N \in Nat /\ DOMAIN text = 1 .. N
  BY LenProperties
<1>2. \A n \in 1 .. N : Char[n] \in Seq(Nat) /\ Char[n] = Utf8(Unicode(encoding, text[n]))
  <2> SUFFICES ASSUME NEW n \in 1 .. N PROVE Utf8(Unicode(encoding, text[n])) \in Seq(Nat)
    OBVIOUS
  <2>1. PICK b \in (0 .. 126) \cup Letters(encoding) : b = text[n]
    BY <1>1 DEF Converts
  <2>2. Utf8(Unicode(encoding, b)) \in Seq(Nat)
    BY ConvertedIs
  <2> QED BY <2>1, <2>2
<1>3. Utf8Of(encoding, text) = U
  <2>1. \A g : Is(g) <=> g = [n \in 0 .. Len(text) |->
                    IF n = 0 THEN <<>> ELSE g[n - 1] \o Utf8(Unicode(encoding, text[n]))]
    <3> SUFFICES ASSUME NEW g
                 PROVE  [n \in 0 .. N |-> IF n = 0 THEN <<>> ELSE g[n - 1] \o Char[n]]
                          = [n \in 0 .. Len(text) |->
                    IF n = 0 THEN <<>> ELSE g[n - 1] \o Utf8(Unicode(encoding, text[n]))]
      OBVIOUS
    <3>1. \A n \in 0 .. N : n # 0 => n \in 1 .. N
      BY <1>1
    <3> HIDE DEF Char
    <3> QED BY <1>2, <3>1
  <2> HIDE DEF Is
  <2> QED BY <2>1 DEF Utf8Of
<1> HIDE DEF N, Char, U
<1>4. \A n \in 1 .. N : \A w \in Seq(Nat) : Step[<<n, w>>] = w \o Char[n]
  OBVIOUS
<1>5. \A n \in 1 .. N : \A w \in Seq(Nat) : Step[<<n, w>>] \in Seq(Nat)
  <2> HIDE DEF Step
  <2> QED BY <1>2, <1>4, ConcatProperties
<1> HIDE DEF Step
<1>6. \E g : IsRecursion(g, N, Seq(Nat), <<>>, Step)
  <2>1. <<>> \in Seq(Nat)
    OBVIOUS
  <2> QED BY <1>1, <1>5, <2>1, RecursionTo
<1>7. PICK h : h \in [0 .. N -> Seq(Nat)] /\ h[0] = <<>> /\ \A n \in 1 .. N : h[n] = Step[<<n, h[n - 1]>>]
  BY <1>6 DEF IsRecursion
<1>8. Is(h)
  <2>1. \A n \in 0 .. N : h[n] = IF n = 0 THEN <<>> ELSE h[n - 1] \o Char[n]
    <3>1. ASSUME NEW n \in 1 .. N PROVE h[n] = h[n - 1] \o Char[n]
      <4>1. h[n - 1] \in Seq(Nat)
        BY <1>1, <1>7
      <4> QED BY <1>4, <1>7, <4>1
    <3>2. \A n \in 0 .. N : n = 0 \/ (n \in 1 .. N /\ n # 0)
      BY <1>1
    <3> QED BY <1>7, <3>1, <3>2
  <2>2. h = [n \in 0 .. N |-> h[n]]
    BY <1>7
  <2> QED BY <2>1, <2>2
<1>9. Is(U)
  <2> HIDE DEF Is
  <2> QED BY <1>8 DEF U
<1>10. U[0] = <<>> /\ \A n \in 1 .. N : U[n] = U[n - 1] \o Char[n]
  <2>1. 0 \in 0 .. N /\ \A n \in 1 .. N : n \in 0 .. N /\ n # 0
    BY <1>1
  <2>2. U[0] = <<>>
    BY <1>9, <2>1
  <2>3. \A n \in 1 .. N : U[n] = U[n - 1] \o Char[n]
    BY <1>9, <2>1
  <2> QED BY <2>2, <2>3
<1>11. U \in [0 .. N -> Seq(Nat)]
  <2> DEFINE S == {n \in 0 .. N : U[n] \in Seq(Nat)}
  <2>1. 0 \in S
    <3>1. <<>> \in Seq(Nat) /\ 0 \in 0 .. N
      BY <1>1
    <3> QED BY <1>10, <3>1
  <2>2. \A n \in 1 .. N : n - 1 \in S => n \in S
    <3> SUFFICES ASSUME NEW n \in 1 .. N, U[n - 1] \in Seq(Nat) PROVE U[n] \in Seq(Nat)
      BY <1>1
    <3> QED BY <1>2, <1>10, ConcatProperties
  <2>3. \A n \in 0 .. N : n \in S
    <3> HIDE DEF S
    <3> QED BY <1>1, <2>1, <2>2, InductionTo
  <2>4. \A n \in 0 .. N : U[n] \in Seq(Nat)
    BY <2>3
  <2>5. U = [n \in 0 .. N |-> U[n]]
    BY <1>9
  <2> QED BY <2>4, <2>5
<1> QED BY <1>2, <1>3, <1>10, <1>11 DEF IsUtf8, N

\* A sequence is a beginning of another one.
Starts(s, t) == Len(s) <= Len(t) /\ \A k \in 1 .. Len(s) : s[k] = t[k]

LEMMA StartsSubSeq ==
  ASSUME NEW s \in Seq(Nat), NEW t \in Seq(Nat), Starts(s, t)
  PROVE  s = SubSeq(t, 1, Len(s))
<1> DEFINE n == Len(s)
<1>1. n \in Nat /\ n <= Len(t)
  BY LenProperties DEF Starts
<1>2. /\ SubSeq(t, 0 + 1, n) \in Seq(Nat) /\ Len(SubSeq(t, 0 + 1, n)) = n - 0
      /\ \A k \in 1 .. n - 0 : SubSeq(t, 0 + 1, n)[k] = t[0 + k]
  <2> HIDE DEF n
  <2>1. 0 \in Nat /\ 0 <= n
    BY <1>1
  <2> QED BY <1>1, <2>1, PieceIs
<1>3. 0 + 1 = 1 /\ n - 0 = n /\ \A k \in 1 .. n : 0 + k = k
  BY <1>1
<1> DEFINE u == SubSeq(t, 1, n)
<1>4. u \in Seq(Nat) /\ Len(u) = n /\ \A k \in 1 .. n : u[k] = s[k]
  BY <1>2, <1>3 DEF Starts
<1> HIDE DEF u
<1>5. s = u
  BY <1>4, SeqEqual
<1> QED BY <1>5 DEF u

LEMMA StartsOfStart ==
  ASSUME NEW s \in Seq(Nat), NEW t \in Seq(Nat), NEW u \in Seq(Nat), Starts(s, t), Starts(t, u)
  PROVE  Starts(s, u)
<1>1. Len(s) \in Nat /\ Len(t) \in Nat /\ Len(u) \in Nat
  BY LenProperties
<1> QED BY <1>1 DEF Starts

\* One sequence and a beginning of another one are a beginning of the two.
LEMMA StartsConcat ==
  ASSUME NEW s \in Seq(Nat), NEW w \in Seq(Nat), NEW n \in Nat, n <= Len(w)
  PROVE  s \o SubSeq(w, 1, n) \in Seq(Nat) /\ Starts(s \o SubSeq(w, 1, n), s \o w)
<1> DEFINE v == SubSeq(w, 1, n)
<1>1. v \in Seq(Nat) /\ Len(v) = n /\ \A k \in 1 .. n : v[k] = w[k]
  <2>1. /\ SubSeq(w, 0 + 1, n) \in Seq(Nat) /\ Len(SubSeq(w, 0 + 1, n)) = n - 0
        /\ \A k \in 1 .. n - 0 : SubSeq(w, 0 + 1, n)[k] = w[0 + k]
    <3>1. 0 \in Nat /\ 0 <= n
      OBVIOUS
    <3> QED BY <3>1, PieceIs
  <2>2. 0 + 1 = 1 /\ n - 0 = n /\ \A k \in 1 .. n : 0 + k = k
    OBVIOUS
  <2> QED BY <2>1, <2>2
<1> HIDE DEF v
<1>2. Len(s) \in Nat /\ Len(w) \in Nat
  BY LenProperties
<1>3. /\ s \o v \in Seq(Nat) /\ Len(s \o v) = Len(s) + n
      /\ \A k \in 1 .. Len(s) + n : (s \o v)[k] = IF k <= Len(s) THEN s[k] ELSE v[k - Len(s)]
  BY <1>1, ConcatProperties
<1>4. /\ Len(s \o w) = Len(s) + Len(w)
      /\ \A k \in 1 .. Len(s) + Len(w) : (s \o w)[k] = IF k <= Len(s) THEN s[k] ELSE w[k - Len(s)]
  BY ConcatProperties
<1>5. \A k \in 1 .. Len(s) + n : (s \o v)[k] = (s \o w)[k]
  <2> SUFFICES ASSUME NEW k \in 1 .. Len(s) + n PROVE (s \o v)[k] = (s \o w)[k]
    OBVIOUS
  <2>1. k \in 1 .. Len(s) + Len(w) /\ (~(k <= Len(s)) => k - Len(s) \in 1 .. n)
    BY <1>2
  <2> QED BY <1>1, <1>3, <1>4, <2>1
<1>6. Starts(s \o v, s \o w)
  BY <1>2, <1>3, <1>4, <1>5 DEF Starts
<1> QED BY <1>3, <1>6 DEF v

LEMMA StartsLonger ==
  ASSUME NEW s \in Seq(Nat), NEW w \in Seq(Nat)
  PROVE  Starts(s, s \o w)
<1>1. /\ Len(s \o w) = Len(s) + Len(w) /\ Len(s) \in Nat /\ Len(w) \in Nat
      /\ \A k \in 1 .. Len(s) + Len(w) : (s \o w)[k] = IF k <= Len(s) THEN s[k] ELSE w[k - Len(s)]
  BY ConcatProperties, LenProperties
<1> QED BY <1>1 DEF Starts

\* What was converted of a text is a beginning of what all of it gives.
LEMMA ConvertedStarts ==
  ASSUME NEW e, NEW text \in Seq(Byte), NEW U, IsUtf8(U, e, text), NEW j \in 0 .. Len(text)
  PROVE  Starts(U[j], U[Len(text)])
<1> DEFINE N == Len(text)
           S == {n \in 0 .. N : j <= n => Starts(U[j], U[n])}
<1>1. N \in Nat
  BY LenProperties
<1> HIDE DEF N
<1>2. \A n \in 0 .. N : U[n] \in Seq(Nat)
  BY DEF IsUtf8, N
<1>3. Starts(U[j], U[j])
  <2>1. Len(U[j]) \in Nat
    BY <1>2, LenProperties DEF N
  <2> QED BY <2>1 DEF Starts
<1>4. 0 \in S
  BY <1>1, <1>3
<1>5. \A n \in 1 .. N : n - 1 \in S => n \in S
  <2> SUFFICES ASSUME NEW n \in 1 .. N, n - 1 \in S, j <= n PROVE Starts(U[j], U[n])
    BY <1>1
  <2>1. CASE j = n
    BY <1>3, <2>1
  <2>2. CASE j # n
    <3>1. Starts(U[j], U[n - 1])
      BY <2>2
    <3> DEFINE w == Utf8(Unicode(e, text[n]))
    <3>2. w \in Seq(Nat) /\ U[n] = U[n - 1] \o w
      BY DEF IsUtf8, N
    <3>5. n - 1 \in 0 .. N /\ n \in 0 .. N /\ j \in 0 .. N
      BY <1>1 DEF N
    <3>3. Starts(U[n - 1], U[n])
      <4> HIDE DEF w
      <4> QED BY <1>2, <3>2, <3>5, StartsLonger
    <3>4. U[j] \in Seq(Nat) /\ U[n - 1] \in Seq(Nat) /\ U[n] \in Seq(Nat)
      BY <1>2, <3>5
    <3> QED BY <3>1, <3>3, <3>4, StartsOfStart
  <2> QED BY <2>1, <2>2
<1>6. \A n \in 0 .. N : n \in S
  <2> HIDE DEF S
  <2> QED BY <1>1, <1>4, <1>5, InductionTo
<1>7. N \in 0 .. N /\ j <= N
  BY <1>1 DEF N
<1> QED BY <1>6, <1>7 DEF N

Text == Utf8Of(encoding, inbuf)

DecodeTyped == encoding \in Encodings /\ inbuf \in Seq(Byte) /\ d \in 0 .. Len(inbuf)

\* Nothing is written before the conversion, and success is its end.
DecodeStages ==
  /\ dpc \in {"idle", "read"} => inbuf = <<>>
  /\ dpc \in {"idle", "read", "open"} => d = 0 /\ out = <<>>
  /\ code = "0" => dpc = "exit"

\* While the program runs, it has written what the first d characters give.
DecodeWritten ==
  Converts(encoding, inbuf) =>
    /\ dpc # "exit" => out = Text[d]
    /\ out \in Seq(Nat) /\ Starts(out, Text[Len(inbuf)])
    /\ code = "0" => out = Text[Len(inbuf)]

DecodeInv ==
  /\ program = "decode" => DecodeTyped /\ DecodeStages /\ DecodeWritten
  /\ program # "decode" => DecodeIdle

LEMMA StartsEmpty ==
  ASSUME NEW t \in Seq(Nat)
  PROVE  <<>> \in Seq(Nat) /\ Starts(<<>>, t)
<1>1. Len(t) \in Nat /\ Len(<<>>) = 0 /\ <<>> \in Seq(Nat)
  BY LenProperties
<1> QED BY <1>1 DEF Starts

\* What holds before the conversion, whatever was read.
LEMMA WrittenAtFirst ==
  ASSUME encoding \in Encodings, NEW text \in Seq(Byte), Converts(encoding, text)
  PROVE  LET U == Utf8Of(encoding, text)
         IN  /\ U[0] = <<>> /\ <<>> \in Seq(Nat) /\ Starts(<<>>, U[Len(text)])
             /\ text = <<>> => U[Len(text)] = <<>>
<1> DEFINE U == Utf8Of(encoding, text)
<1>1. IsUtf8(U, encoding, text)
  BY Utf8OfIs
<1> HIDE DEF U
<1>2. Len(text) \in Nat /\ Len(text) \in 0 .. Len(text)
  <2>1. Len(text) \in Nat
    BY LenProperties
  <2> QED BY <2>1
<1>3. U[0] = <<>> /\ U[Len(text)] \in Seq(Nat)
  BY <1>1, <1>2 DEF IsUtf8
<1>4. Starts(<<>>, U[Len(text)]) /\ <<>> \in Seq(Nat)
  BY <1>3, StartsEmpty
<1>5. text = <<>> => Len(text) = 0
  OBVIOUS
<1> QED BY <1>3, <1>4, <1>5 DEF U

LEMMA DecodeImplied ==
  ASSUME DecodeInv
  PROVE  TextConverted
<1>1. DecodeTyped /\ DecodeWritten
  <2>1. CASE program # "decode"
    <3>1. /\ encoding \in Encodings /\ inbuf = <<>> /\ d = 0 /\ out = <<>> /\ code = "none"
          /\ inbuf \in Seq(Byte) /\ Len(inbuf) = 0
      BY <2>1 DEF DecodeInv, DecodeIdle
    <3>2. DecodeWritten
      BY <3>1, WrittenAtFirst DEF DecodeWritten, Text
    <3> QED BY <3>1, <3>2 DEF DecodeTyped
  <2> QED BY <2>1 DEF DecodeInv
<1> SUFFICES ASSUME Converts(encoding, inbuf)
             PROVE  /\ out = SubSeq(Text[Len(inbuf)], 1, Len(out))
                    /\ code = "0" => out = Text[Len(inbuf)]
  BY DEF TextConverted, Converts, Text, Utf8Of
<1>2. IsUtf8(Text, encoding, inbuf)
  BY <1>1, Utf8OfIs DEF Text, DecodeTyped
<1>3. Text[Len(inbuf)] \in Seq(Nat)
  <2>1. Len(inbuf) \in Nat
    BY <1>1, LenProperties DEF DecodeTyped
  <2>2. Len(inbuf) \in 0 .. Len(inbuf)
    BY <2>1
  <2> QED BY <1>2, <2>2 DEF IsUtf8
<1> QED BY <1>1, <1>3, StartsSubSeq DEF DecodeWritten

-----------------------------------------------------------------------------

\* What read() puts into the buffer is a piece of the file.
LEMMA ReadTyped ==
  ASSUME file \in Seq(Byte), offset \in Nat, offset <= Len(file), NEW size \in Nat, NEW bytes,
         Read(size, bytes)
  PROVE  bytes \in Seq(Byte) /\ offset' \in Nat /\ offset' <= Len(file)
<1>1. Len(file) \in Nat /\ Left \in Nat /\ Left = Len(file) - offset
  BY LenProperties DEF Left
<1>2. PICK n \in 0 .. (IF size <= Left THEN size ELSE Left) :
        bytes = SubSeq(file, offset + 1, offset + n) /\ offset' = offset + n
  BY DEF Read
<1> DEFINE e == offset + n
<1>3. e \in Nat /\ offset <= e /\ e <= Len(file)
  BY <1>1, <1>2
<1> HIDE DEF e
<1>4. SubSeq(file, offset + 1, e) \in Seq(Byte)
  BY <1>3, PieceIs
<1> QED BY <1>2, <1>3, <1>4 DEF e

LEMMA OpenInStep ==
  ASSUME DecodeTyped, DecodeStages, DecodeWritten, OpenIn
  PROVE  DecodeTyped' /\ DecodeStages' /\ DecodeWritten'
<1>1. /\ UNCHANGED <<encoding, inbuf, out, d>> /\ dpc = "idle" /\ dpc' \in {"read", "exit"}
      /\ dpc' = "read" => code' = code
  BY DEF OpenIn, Return
<1>2. inbuf = <<>> /\ d = 0 /\ out = <<>> /\ code # "0"
  BY <1>1 DEF DecodeStages
<1>3. DecodeTyped' /\ DecodeStages'
  BY <1>1, <1>2 DEF DecodeTyped, DecodeStages
<1>4. DecodeWritten'
  <2>1. /\ encoding \in Encodings /\ encoding' = encoding /\ inbuf \in Seq(Byte) /\ inbuf' = inbuf
        /\ d' = 0 /\ out' = <<>> /\ inbuf = <<>>
    BY <1>1, <1>2 DEF DecodeTyped
  <2> QED BY <2>1, WrittenAtFirst DEF DecodeWritten, Text
<1> QED BY <1>3, <1>4

LEMMA ReadInStep ==
  ASSUME DecodeTyped, DecodeStages, ReadIn, file \in Seq(Byte), offset \in Nat, offset <= Len(file)
  PROVE  DecodeTyped' /\ DecodeStages' /\ DecodeWritten'
<1>1. /\ UNCHANGED <<encoding, out, d, code>> /\ dpc = "read" /\ dpc' = "open"
      /\ Read(InbufSize, inbuf')
  BY DEF ReadIn
<1>2. d = 0 /\ out = <<>> /\ code # "0"
  BY <1>1 DEF DecodeStages
<1>3. inbuf' \in Seq(Byte)
  BY <1>1, ReadTyped, DecodeAssumption
<1>4. Len(inbuf') \in Nat
  BY <1>3, LenProperties
<1>5. DecodeTyped' /\ DecodeStages'
  BY <1>1, <1>2, <1>3, <1>4 DEF DecodeTyped, DecodeStages
<1>6. DecodeWritten'
  <2>1. encoding \in Encodings /\ encoding' = encoding /\ d' = 0 /\ out' = <<>> /\ code' # "0"
    BY <1>1, <1>2 DEF DecodeTyped
  <2> QED BY <1>3, <2>1, WrittenAtFirst DEF DecodeWritten, Text
<1> QED BY <1>5, <1>6

LEMMA QuietDecodeStep ==
  ASSUME DecodeTyped, DecodeStages, DecodeWritten, ReadInFails \/ OpenOut \/ ConvertDone
  PROVE  DecodeTyped' /\ DecodeStages' /\ DecodeWritten'
<1>1. /\ UNCHANGED <<encoding, inbuf, out, d>>
      /\ \/ dpc = "read" /\ dpc' = "exit" /\ code' = "-1"
         \/ dpc = "open" /\ dpc' = "convert" /\ code' = code
         \/ dpc = "convert" /\ dpc' = "exit" /\ code' = "0" /\ d = Len(inbuf)
  BY DEF ReadInFails, OpenOut, ConvertDone, Return
<1>2. DecodeTyped' /\ Text' = Text
  BY <1>1 DEF DecodeTyped, Text
<1>3. DecodeStages'
  BY <1>1 DEF DecodeStages
<1>4. DecodeWritten'
  <2> SUFFICES ASSUME Converts(encoding, inbuf)
               PROVE  /\ dpc' # "exit" => out = Text[d]
                      /\ out \in Seq(Nat) /\ Starts(out, Text[Len(inbuf)])
                      /\ code' = "0" => out = Text[Len(inbuf)]
    BY <1>1, <1>2 DEF DecodeWritten
  <2>1. dpc \in {"read", "open", "convert"}
    BY <1>1
  <2>2. out = Text[d] /\ out \in Seq(Nat) /\ Starts(out, Text[Len(inbuf)]) /\ code # "0"
    BY <2>1 DEF DecodeWritten, DecodeStages
  <2> QED BY <1>1, <2>2
<1> QED BY <1>2, <1>3, <1>4

\* What is written of character d + 1, whole or in part.
LEMMA NextCharacter ==
  ASSUME DecodeTyped, DecodeWritten, Converts(encoding, inbuf), d < Len(inbuf), dpc # "exit",
         NEW w \in Converted(inbuf[d + 1]), NEW n \in Nat, n <= Len(w)
  PROVE  /\ w \in Seq(Nat) /\ Text[d + 1] = out \o w
         /\ out \o SubSeq(w, 1, n) \in Seq(Nat) /\ Starts(out \o SubSeq(w, 1, n), Text[Len(inbuf)])
<1> DEFINE k == d + 1
           N == Len(inbuf)
<1>1. N \in Nat /\ k \in 1 .. N /\ k - 1 = d /\ k \in 0 .. N /\ d \in 0 .. N /\ N \in 0 .. N
  <2>1. Len(inbuf) \in Nat
    BY LenProperties DEF DecodeTyped
  <2> QED BY <2>1 DEF DecodeTyped
<1> HIDE DEF k
<1>2. IsUtf8(Text, encoding, inbuf)
  BY Utf8OfIs DEF Text, DecodeTyped
<1>3. out = Text[d] /\ out \in Seq(Nat)
  BY DEF DecodeWritten
<1>4. w = Utf8(Unicode(encoding, inbuf[k])) /\ w \in Seq(Nat)
  <2>1. PICK b \in (0 .. 126) \cup Letters(encoding) : b = inbuf[k]
    <3>1. k \in DOMAIN inbuf
      BY <1>1, LenProperties DEF DecodeTyped
    <3> QED BY <3>1 DEF Converts
  <2>2. w \in Converted(b)
    BY <2>1 DEF k
  <2>3. encoding \in Encodings
    BY DEF DecodeTyped
  <2> QED BY <2>1, <2>2, <2>3, ConvertedIs
<1>5. Text[k] = out \o w
  BY <1>1, <1>2, <1>3, <1>4 DEF IsUtf8
<1>6. Starts(Text[k], Text[N]) /\ Text[k] \in Seq(Nat) /\ Text[N] \in Seq(Nat)
  <2>1. inbuf \in Seq(Byte)
    BY DEF DecodeTyped
  <2>2. Starts(Text[k], Text[N])
    BY <1>1, <1>2, <2>1, ConvertedStarts
  <2> QED BY <1>1, <1>2, <2>2 DEF IsUtf8
<1> DEFINE v == out \o SubSeq(w, 1, n)
<1>7. v \in Seq(Nat) /\ Starts(v, out \o w)
  BY <1>3, <1>4, StartsConcat
<1> HIDE DEF v
<1>8. Starts(v, Text[N])
  BY <1>5, <1>6, <1>7, StartsOfStart
<1> QED BY <1>4, <1>5, <1>7, <1>8 DEF v, k

LEMMA WriteByteStep ==
  ASSUME DecodeTyped, DecodeStages, DecodeWritten, WriteByte
  PROVE  DecodeTyped' /\ DecodeStages' /\ DecodeWritten'
<1>1. /\ UNCHANGED <<encoding, inbuf, dpc, code>> /\ dpc = "convert" /\ d < Len(inbuf) /\ d' = d + 1
      /\ \E w \in Converted(inbuf[d + 1]) : out' = out \o w
  BY DEF WriteByte
<1>2. Len(inbuf) \in Nat /\ d \in Nat
  BY LenProperties DEF DecodeTyped
<1>3. DecodeTyped' /\ Text' = Text
  BY <1>1, <1>2 DEF DecodeTyped, Text
<1>4. DecodeStages'
  BY <1>1 DEF DecodeStages
<1>5. DecodeWritten'
  <2> SUFFICES ASSUME Converts(encoding, inbuf)
               PROVE  /\ out' = Text[d + 1]
                      /\ out' \in Seq(Nat) /\ Starts(out', Text[Len(inbuf)])
                      /\ code = "0" => out' = Text[Len(inbuf)]
    BY <1>1, <1>3 DEF DecodeWritten
  <2>1. PICK w \in Converted(inbuf[d + 1]) : out' = out \o w
    BY <1>1
  <2>2. 0 \in Nat
    OBVIOUS
  <2>3. code # "0" /\ dpc # "exit"
    BY <1>1 DEF DecodeStages
  <2>4. \A n \in Nat : n <= Len(w) =>
          /\ w \in Seq(Nat) /\ Text[d + 1] = out \o w
          /\ Starts(out \o SubSeq(w, 1, n), Text[Len(inbuf)])
    BY <1>1, <2>3, NextCharacter
  <2>5. w \in Seq(Nat) /\ Text[d + 1] = out \o w
    <3>1. \E n \in Nat : n <= Len(w)
      <4>1. PICK b : b = inbuf[d + 1]
        OBVIOUS
      <4>2. w \in {<<x>> : x \in Low(b)} \/ \E x, y : w = <<x, y>>
        BY <2>1, <4>1 DEF Converted
      <4>3. Len(w) = 1 \/ Len(w) = 2
        BY <4>2
      <4> QED BY <4>3
    <3> QED BY <2>4, <3>1
  <2>6. Starts(out', Text[Len(inbuf)]) /\ out' \in Seq(Nat)
    <3>1. out \in Seq(Nat)
      BY DEF DecodeWritten
    <3>2. IsUtf8(Text, encoding, inbuf) /\ inbuf \in Seq(Byte)
      BY Utf8OfIs DEF Text, DecodeTyped
    <3> DEFINE k == d + 1
    <3>3. k \in 0 .. Len(inbuf)
      BY <1>1, <1>2
    <3> HIDE DEF k
    <3>4. Starts(Text[k], Text[Len(inbuf)])
      BY <3>2, <3>3, ConvertedStarts
    <3> QED BY <2>1, <2>5, <3>1, <3>4, ConcatProperties DEF k
  <2> QED BY <2>1, <2>3, <2>5, <2>6
<1> QED BY <1>3, <1>4, <1>5

LEMMA WriteFailsStep ==
  ASSUME DecodeTyped, DecodeStages, DecodeWritten, WriteFails
  PROVE  DecodeTyped' /\ DecodeStages' /\ DecodeWritten'
<1>1. /\ UNCHANGED <<encoding, inbuf, d>> /\ dpc = "convert" /\ d < Len(inbuf)
      /\ dpc' = "exit" /\ code' = "-1"
      /\ \E w \in Converted(inbuf[d + 1]) : \E n \in 0 .. Len(w) - 1 : out' = out \o SubSeq(w, 1, n)
  BY DEF WriteFails, Return
<1>2. DecodeTyped' /\ Text' = Text
  BY <1>1 DEF DecodeTyped, Text
<1>3. DecodeStages'
  BY <1>1 DEF DecodeStages
<1>4. DecodeWritten'
  <2> SUFFICES ASSUME Converts(encoding, inbuf)
               PROVE  out' \in Seq(Nat) /\ Starts(out', Text[Len(inbuf)])
    BY <1>1, <1>2 DEF DecodeWritten
  <2>4. PICK w \in Converted(inbuf[d + 1]) : \E n \in 0 .. Len(w) - 1 : out' = out \o SubSeq(w, 1, n)
    BY <1>1
  <2>1. PICK n \in 0 .. Len(w) - 1 : out' = out \o SubSeq(w, 1, n)
    BY <2>4
  <2>2. n \in Nat /\ n <= Len(w)
    <3>1. PICK b : b = inbuf[d + 1]
      OBVIOUS
    <3>2. w \in {<<x>> : x \in Low(b)} \/ \E x, y : w = <<x, y>>
      BY <2>1, <3>1 DEF Converted
    <3>3. Len(w) = 1 \/ Len(w) = 2
      BY <3>2
    <3> QED BY <3>3
  <2>3. dpc # "exit"
    BY <1>1
  <2> QED BY <1>1, <2>1, <2>2, <2>3, NextCharacter
<1> QED BY <1>2, <1>3, <1>4

-----------------------------------------------------------------------------
(* The CRC-32: words of 32 bits *)

LEMMA XorIs ==
  ASSUME NEW a, NEW b, NEW x
  PROVE  x \in Xor(a, b) <=> ~(x \in a <=> x \in b)
BY DEF Xor

LEMMA ShiftIs ==
  ASSUME NEW a \in Word, NEW n \in Nat
  PROVE  /\ Shift(a, n) \in Word
         /\ \A x \in 0 .. 31 : x \in Shift(a, n) <=> x + n \in a
<1>1. \A x : x \in Shift(a, n) => x \in 0 .. 31 /\ x + n \in a
  <2> SUFFICES ASSUME NEW x \in Shift(a, n) PROVE x \in 0 .. 31 /\ x + n \in a
    OBVIOUS
  <2>1. PICK b \in a : b >= n /\ x = b - n
    BY DEF Shift
  <2>2. b \in 0 .. 31
    BY DEF Word
  <2> QED BY <2>1, <2>2
<1>2. \A x \in 0 .. 31 : x + n \in a => x \in Shift(a, n)
  <2> SUFFICES ASSUME NEW x \in 0 .. 31, x + n \in a PROVE x \in Shift(a, n)
    OBVIOUS
  <2>1. x + n >= n /\ (x + n) - n = x
    OBVIOUS
  <2> QED BY <2>1 DEF Shift
<1> QED BY <1>1, <1>2 DEF Word

LEMMA WordsEqual ==
  ASSUME NEW a \in Word, NEW b \in Word, \A x \in 0 .. 31 : x \in a <=> x \in b
  PROVE  a = b
BY DEF Word

LEMMA WordsClosed ==
  ASSUME NEW a \in Word, NEW b \in Word
  PROVE  /\ Xor(a, b) \in Word /\ Shift(a, 1) \in Word /\ Polynomial \in Word
         /\ DivideBit(a) \in Word
<1>1. Xor(a, b) \in Word
  BY DEF Xor, Word
<1>2. Polynomial \in Word
  BY DEF Polynomial, Word
<1>3. Shift(a, 1) \in Word
  BY ShiftIs
<1>4. Xor(Shift(a, 1), Polynomial) \in Word
  BY <1>2, <1>3 DEF Xor, Word
<1> QED BY <1>1, <1>2, <1>3, <1>4 DEF DivideBit

LEMMA ShiftTwice ==
  ASSUME NEW a \in Word, NEW n \in Nat
  PROVE  Shift(Shift(a, n), 1) = Shift(a, n + 1)
<1> DEFINE m == n + 1
<1>0. m \in Nat
  OBVIOUS
<1> HIDE DEF m
<1>1. Shift(a, n) \in Word /\ Shift(Shift(a, n), 1) \in Word /\ Shift(a, m) \in Word
  <2>1. Shift(a, n) \in Word /\ Shift(a, m) \in Word
    BY <1>0, ShiftIs
  <2> QED BY <2>1, ShiftIs
<1>2. ASSUME NEW x \in 0 .. 31 PROVE x \in Shift(Shift(a, n), 1) <=> x \in Shift(a, m)
  <2>1. x \in Shift(Shift(a, n), 1) <=> x + 1 \in Shift(a, n)
    BY <1>1, ShiftIs
  <2>2. x \in Shift(a, m) <=> x + m \in a
    BY <1>0, ShiftIs
  <2>3. x + 1 \in 0 .. 31 => (x + 1 \in Shift(a, n) <=> (x + 1) + n \in a)
    BY ShiftIs
  <2>4. x + 1 \notin 0 .. 31 => x + 1 \notin Shift(a, n) /\ x + m \notin a
    BY <1>1 DEF Word, m
  <2>5. (x + 1) + n = x + m
    BY DEF m
  <2> QED BY <2>1, <2>2, <2>3, <2>4, <2>5
<1> QED BY <1>1, <1>2, WordsEqual DEF m

LEMMA ShiftOfXor ==
  ASSUME NEW a \in Word, NEW b \in Word
  PROVE  Shift(Xor(a, b), 1) = Xor(Shift(a, 1), Shift(b, 1))
<1>1. /\ Xor(a, b) \in Word /\ Shift(Xor(a, b), 1) \in Word
      /\ Shift(a, 1) \in Word /\ Shift(b, 1) \in Word
  BY WordsClosed
<1>2. Xor(Shift(a, 1), Shift(b, 1)) \in Word
  BY <1>1, WordsClosed
<1>3. ASSUME NEW x \in 0 .. 31
      PROVE  x \in Shift(Xor(a, b), 1) <=> x \in Xor(Shift(a, 1), Shift(b, 1))
  <2>1. x \in Shift(Xor(a, b), 1) <=> x + 1 \in Xor(a, b)
    BY <1>1, ShiftIs
  <2>2. (x \in Shift(a, 1) <=> x + 1 \in a) /\ (x \in Shift(b, 1) <=> x + 1 \in b)
    BY ShiftIs
  <2>3. x + 1 \in Xor(a, b) <=> ~(x + 1 \in a <=> x + 1 \in b)
    BY XorIs
  <2>4. x \in Xor(Shift(a, 1), Shift(b, 1)) <=> ~(x \in Shift(a, 1) <=> x \in Shift(b, 1))
    BY XorIs
  <2> QED BY <2>1, <2>2, <2>3, <2>4
<1> QED BY <1>1, <1>2, <1>3, WordsEqual

\* Division of a word is division of its parts, if the first has no bit 0.
LEMMA DivideXor ==
  ASSUME NEW a \in Word, NEW b \in Word, 0 \notin a
  PROVE  DivideBit(Xor(a, b)) = Xor(Shift(a, 1), DivideBit(b))
<1>1. 0 \in Xor(a, b) <=> 0 \in b
  BY XorIs
<1>2. Shift(Xor(a, b), 1) = Xor(Shift(a, 1), Shift(b, 1))
  BY ShiftOfXor
<1>3. Xor(Xor(Shift(a, 1), Shift(b, 1)), Polynomial) = Xor(Shift(a, 1), Xor(Shift(b, 1), Polynomial))
  BY DEF Xor
<1> QED BY <1>1, <1>2, <1>3 DEF DivideBit

\* One bit of a message, added to the remainder at once or when its turn comes.
DivideWith(rem, bit) == IF (0 \in rem) # bit THEN Xor(Shift(rem, 1), Polynomial) ELSE Shift(rem, 1)

LEMMA BitStep ==
  ASSUME NEW rem \in Word, NEW B \in SUBSET (0 .. 7), NEW j \in 0 .. 7
  PROVE  /\ DivideWith(rem, j \in B) \in Word
         /\ Xor(DivideWith(rem, j \in B), Shift(B, j + 1)) = DivideBit(Xor(rem, Shift(B, j)))
<1>1. B \in Word /\ Shift(B, j) \in Word
  BY ShiftIs DEF Word
<1>2. Shift(rem, 1) \in Word /\ Xor(Shift(rem, 1), Polynomial) \in Word
  BY WordsClosed
<1>3. 0 \in Shift(B, j) <=> j \in B
  <2>1. 0 \in 0 .. 31 /\ j \in Nat /\ 0 + j = j
    OBVIOUS
  <2>2. 0 \in Shift(B, j) <=> 0 + j \in B
    BY <1>1, <2>1, ShiftIs
  <2> QED BY <2>1, <2>2
<1>4. 0 \in Xor(rem, Shift(B, j)) <=> ((0 \in rem) # (j \in B))
  BY <1>3, XorIs
<1>5. Shift(Xor(rem, Shift(B, j)), 1) = Xor(Shift(rem, 1), Shift(B, j + 1))
  <2>1. Shift(Shift(B, j), 1) = Shift(B, j + 1)
    BY <1>1, ShiftTwice
  <2> QED BY <1>1, <2>1, ShiftOfXor
<1>6. Xor(Xor(Shift(rem, 1), Polynomial), Shift(B, j + 1))
        = Xor(Xor(Shift(rem, 1), Shift(B, j + 1)), Polynomial)
  BY DEF Xor
<1> QED BY <1>2, <1>4, <1>5, <1>6 DEF DivideWith, DivideBit

-----------------------------------------------------------------------------
(* The CRC-32: the table and the bytes *)

Octets == SUBSET (0 .. 7)

\* The eight rounds of one octet.
IsDivision(g, l) == g \in [0 .. 8 -> Word] /\ g[0] = l /\ \A j \in 1 .. 8 : g[j] = DivideBit(g[j - 1])

LEMMA DivisionExists ==
  ASSUME NEW l \in Octets
  PROVE  \E g : IsDivision(g, l)
<1> DEFINE Step == [q \in (1 .. 8) \X Word |-> DivideBit(q[2])]
           N == 8
<1>1. l \in Word /\ N \in Nat
  BY DEF Octets, Word
<1>2. \A j \in 1 .. N : \A w \in Word : Step[<<j, w>>] = DivideBit(w)
  OBVIOUS
<1>3. \A j \in 1 .. N : \A w \in Word : Step[<<j, w>>] \in Word
  BY <1>2, WordsClosed
<1> HIDE DEF Step, N
<1>4. \E g : IsRecursion(g, N, Word, l, Step)
  BY <1>1, <1>3, RecursionTo
<1>6. PICK g : g \in [0 .. N -> Word] /\ g[0] = l /\ \A j \in 1 .. N : g[j] = Step[<<j, g[j - 1]>>]
  BY <1>4 DEF IsRecursion
<1>5. ASSUME NEW j \in 1 .. N PROVE g[j] = DivideBit(g[j - 1])
  <2>1. j - 1 \in 0 .. N
    BY <1>1
  <2> QED BY <1>2, <1>6, <2>1
<1> QED BY <1>5, <1>6 DEF IsDivision, N

\* Table has the octets' remainders.
LEMMA TableIs ==
  ASSUME NEW l \in Octets
  PROVE  \E g : IsDivision(g, l) /\ Table[l] = g[8]
<1> DEFINE Is(g) == g = [j \in 0 .. 8 |-> IF j = 0 THEN l ELSE DivideBit(g[j - 1])]
           g == CHOOSE h : Is(h)
<1>1. Table[l] = g[8]
  BY DEF Table, Octets
<1>2. Is(g)
  <2>1. PICK h : IsDivision(h, l)
    BY DivisionExists
  <2>2. h = [j \in 0 .. 8 |-> h[j]] /\ \A j \in 0 .. 8 : h[j] = IF j = 0 THEN l ELSE DivideBit(h[j - 1])
    BY <2>1 DEF IsDivision
  <2>3. Is(h)
    BY <2>2
  <2> HIDE DEF Is
  <2> QED BY <2>3
<1> HIDE DEF g
<1>3. g[0] = l /\ \A j \in 1 .. 8 : g[j] = DivideBit(g[j - 1])
  BY <1>2
<1>4. \A j \in 0 .. 8 : g[j] \in Word
  <2> DEFINE S == {j \in 0 .. 8 : g[j] \in Word}
             N == 8
  <2>1. 0 \in S
    <3>1. g[0] \in Word
      BY <1>3 DEF Octets, Word
    <3> QED BY <3>1
  <2>2. \A j \in 1 .. N : j - 1 \in S => j \in S
    <3> SUFFICES ASSUME NEW j \in 1 .. 8, g[j - 1] \in Word PROVE j \in S
      OBVIOUS
    <3>1. g[j] = DivideBit(g[j - 1])
      BY <1>3
    <3> QED BY <3>1, WordsClosed
  <2>3. N \in Nat
    OBVIOUS
  <2> HIDE DEF S, N
  <2>4. \A j \in 0 .. N : j \in S
    BY <2>1, <2>2, <2>3, InductionTo
  <2> QED BY <2>4 DEF S, N
<1>5. g \in [0 .. 8 -> Word]
  BY <1>2, <1>4
<1> QED BY <1>1, <1>3, <1>5 DEF IsDivision

\* An octet at once gives what its eight bits give one after the other.
LEMMA OctetIs ==
  ASSUME NEW c \in Word, NEW B \in Octets, NEW A, A[0] = c,
         \A j \in 0 .. 7 : A[j + 1] = DivideWith(A[j], j \in B)
  PROVE  /\ A[8] = Xor(Shift(c, 8), Table[Xor(LowByte(c), B)])
         /\ A[8] \in Word
<1> DEFINE H == {b \in c : b > 7}
           l == Xor(LowByte(c), B)
<1>1. /\ H \in Word /\ l \in Octets /\ l \in Word /\ B \in Word /\ B \in SUBSET (0 .. 7)
      /\ Xor(c, B) = Xor(H, l)
  <2>1. H \in Word /\ l \in Octets /\ l \in Word /\ B \in Word /\ B \in SUBSET (0 .. 7)
    <3>0. c \in SUBSET (0 .. 31) /\ B \in SUBSET (0 .. 7)
      BY DEF Octets, Word
    <3>1. H \in Word /\ B \in Word /\ B \in SUBSET (0 .. 7)
      <4>1. \A x \in H : x \in 0 .. 31
        BY <3>0
      <4>2. \A x \in B : x \in 0 .. 31
        BY <3>0
      <4> HIDE DEF H
      <4> QED BY <3>0, <4>1, <4>2 DEF Word
    <3>2. LowByte(c) \in SUBSET (0 .. 7)
      <4>1. \A x \in c : x <= 7 => x \in 0 .. 7
        BY <3>0
      <4> QED BY <4>1 DEF LowByte
    <3>3. l \in SUBSET (0 .. 7)
      BY <3>1, <3>2 DEF Xor
    <3> HIDE DEF l
    <3> QED BY <3>1, <3>3 DEF Octets, Word
  <2>2. ASSUME NEW x PROVE x \in Xor(c, B) <=> x \in Xor(H, l)
    <3>1. /\ x \in Xor(c, B) <=> ~(x \in c <=> x \in B)
          /\ x \in Xor(H, l) <=> ~(x \in H <=> x \in l)
          /\ x \in l <=> ~(x \in LowByte(c) <=> x \in B)
      BY XorIs
    <3>2. x \in H <=> x \in c /\ x > 7
      OBVIOUS
    <3>3. x \in LowByte(c) <=> x \in c /\ x <= 7
      BY DEF LowByte
    <3>4. (x \in B => x \in 0 .. 7) /\ (x \in c => x \in 0 .. 31)
      BY DEF Octets, Word
    <3>5. x \in 0 .. 31 => (x > 7 <=> ~(x <= 7))
      OBVIOUS
    <3>6. x \in B => x <= 7 /\ ~(x > 7)
      BY <3>4
    <3> QED BY <3>1, <3>2, <3>3, <3>4, <3>5, <3>6
  <2>3. Xor(c, B) = Xor(H, l)
    BY <2>2
  <2> QED BY <2>1, <2>3
<1>2. \A j \in 0 .. 7 : 0 \notin Shift(H, j)
  <2> SUFFICES ASSUME NEW j \in 0 .. 7 PROVE 0 \notin Shift(H, j)
    OBVIOUS
  <2>1. 0 \in Shift(H, j) <=> 0 + j \in H
    <3>1. 0 \in 0 .. 31 /\ j \in Nat
      OBVIOUS
    <3> HIDE DEF H
    <3> QED BY <1>1, <3>1, ShiftIs
  <2>2. 0 + j \notin H
    OBVIOUS
  <2> QED BY <2>1, <2>2
<1>3. Shift(H, 8) = Shift(c, 8)
  BY DEF Shift, Word
<1> HIDE DEF H, l
<1>4. PICK R : IsDivision(R, l) /\ Table[l] = R[8]
  BY <1>1, TableIs
<1> DEFINE S == {j \in 0 .. 8 : A[j] \in Word /\ Xor(A[j], Shift(B, j)) = Xor(Shift(H, j), R[j])}
           N == 8
<1>5. 0 \in S
  <2>1. Shift(B, 0) = B /\ Shift(H, 0) = H
    <3>1. /\ Shift(B, 0) \in Word /\ \A x \in 0 .. 31 : x \in Shift(B, 0) <=> x + 0 \in B
          /\ Shift(H, 0) \in Word /\ \A x \in 0 .. 31 : x \in Shift(H, 0) <=> x + 0 \in H
      BY <1>1, ShiftIs
    <3>2. \A x \in 0 .. 31 : x + 0 = x
      OBVIOUS
    <3> QED BY <1>1, <3>1, <3>2, WordsEqual
  <2>2. R[0] = l
    BY <1>4 DEF IsDivision
  <2> QED BY <1>1, <2>1, <2>2
<1>6. \A j \in 1 .. N : j - 1 \in S => j \in S
  <2> SUFFICES ASSUME NEW j \in 0 .. 7, j \in S PROVE j + 1 \in S
    <3>1. \A j \in 1 .. N : j - 1 \in 0 .. 7 /\ (j - 1) + 1 = j
      OBVIOUS
    <3> HIDE DEF S, N
    <3> QED BY <3>1
  <2>1. A[j] \in Word /\ Xor(A[j], Shift(B, j)) = Xor(Shift(H, j), R[j])
    OBVIOUS
  <2>2. R[j] \in Word /\ R[j + 1] = DivideBit(R[j])
    BY <1>4 DEF IsDivision
  <2>3. A[j + 1] \in Word
        /\ Xor(A[j + 1], Shift(B, j + 1)) = DivideBit(Xor(A[j], Shift(B, j)))
    <3>1. A[j + 1] = DivideWith(A[j], j \in B)
      OBVIOUS
    <3> QED BY ONLY <1>1, <2>1, <3>1, BitStep
  <2>4. DivideBit(Xor(Shift(H, j), R[j])) = Xor(Shift(Shift(H, j), 1), DivideBit(R[j]))
    <3>1. Shift(H, j) \in Word
      <4>1. j \in Nat
        OBVIOUS
      <4> QED BY <1>1, <4>1, ShiftIs
    <3> QED BY <1>2, <2>2, <3>1, DivideXor
  <2>5. Shift(Shift(H, j), 1) = Shift(H, j + 1)
    BY <1>1, ShiftTwice
  <2> QED BY <2>1, <2>2, <2>3, <2>4, <2>5
<1>7. \A j \in 0 .. N : j \in S
  <2>1. N \in Nat
    OBVIOUS
  <2> HIDE DEF S, N
  <2> QED BY <1>5, <1>6, <2>1, InductionTo
<1>8. A[8] \in Word /\ Xor(A[8], Shift(B, 8)) = Xor(Shift(H, 8), R[8])
  BY <1>7
<1>9. Xor(A[8], Shift(B, 8)) = A[8]
  <2>1. Shift(B, 8) = {}
    <3>1. \A b \in B : ~(b >= 8)
      BY <1>1
    <3> QED BY <3>1 DEF Shift
  <2> QED BY <2>1 DEF Xor
<1> QED BY <1>3, <1>4, <1>8, <1>9 DEF l

Bit(f, n) == (n - 1) % 8 \in BitsOf(f[(n - 1) \div 8 + 1])

\* The remainders after each bit of the file.
After(f) ==
  CHOOSE g : g = [n \in 0 .. 8 * Len(f) |->
                    IF n = 0 THEN 0 .. 31
                    ELSE LET rem == g[n - 1]
                         IN  IF (0 \in rem) # Bit(f, n) THEN Xor(Shift(rem, 1), Polynomial)
                             ELSE Shift(rem, 1)]

LEMMA AfterIs ==
  ASSUME NEW f \in Seq(Byte)
  PROVE  /\ Remainder(f) = Not(After(f)[8 * Len(f)])
         /\ After(f)[0] = 0 .. 31
         /\ \A n \in 1 .. 8 * Len(f) : After(f)[n] = DivideWith(After(f)[n - 1], Bit(f, n))
<1> DEFINE N == 8 * Len(f)
           Is(g) == g = [n \in 0 .. N |-> IF n = 0 THEN 0 .. 31 ELSE DivideWith(g[n - 1], Bit(f, n))]
           Step == [q \in (1 .. N) \X Word |-> DivideWith(q[2], Bit(f, q[1]))]
<1>1. N \in Nat /\ 0 .. 31 \in Word
  <2>1. Len(f) \in Nat
    BY LenProperties
  <2> QED BY <2>1 DEF Word
<1>2. Remainder(f) = Not(After(f)[8 * Len(f)])
  BY DEF Remainder, After, Bit
<1>3. After(f) = CHOOSE g : Is(g)
  BY DEF After, DivideWith
<1> HIDE DEF N
<1>4. \A n \in 1 .. N : \A w \in Word : Step[<<n, w>>] = DivideWith(w, Bit(f, n))
  OBVIOUS
<1>5. \A n \in 1 .. N : \A w \in Word : Step[<<n, w>>] \in Word
  BY <1>4, WordsClosed DEF DivideWith
<1> HIDE DEF Step
<1>6. \E g : IsRecursion(g, N, Word, 0 .. 31, Step)
  BY <1>1, <1>5, RecursionTo
<1>7. PICK h : h \in [0 .. N -> Word] /\ h[0] = 0 .. 31 /\ \A n \in 1 .. N : h[n] = Step[<<n, h[n - 1]>>]
  BY <1>6 DEF IsRecursion
<1>8. Is(h)
  <2>1. \A n \in 0 .. N : h[n] = IF n = 0 THEN 0 .. 31 ELSE DivideWith(h[n - 1], Bit(f, n))
    <3> SUFFICES ASSUME NEW n \in 1 .. N PROVE h[n] = DivideWith(h[n - 1], Bit(f, n))
      BY <1>1, <1>7
    <3>1. h[n - 1] \in Word
      BY <1>1, <1>7
    <3> QED BY <1>4, <1>7, <3>1
  <2>2. h = [n \in 0 .. N |-> h[n]]
    BY <1>7
  <2> QED BY <2>1, <2>2
<1>9. Is(After(f))
  <2> HIDE DEF Is
  <2> QED BY <1>3, <1>8
<1> DEFINE A == After(f)
<1> HIDE DEF A
<1>10. A = [n \in 0 .. N |-> IF n = 0 THEN 0 .. 31 ELSE DivideWith(A[n - 1], Bit(f, n))]
  BY <1>9 DEF A
<1>11. A[0] = 0 .. 31 /\ \A n \in 1 .. N : A[n] = DivideWith(A[n - 1], Bit(f, n))
  <2>1. 0 \in 0 .. N /\ \A n \in 1 .. N : n \in 0 .. N /\ n # 0
    BY <1>1
  <2>2. A[0] = 0 .. 31
    BY <1>10, <2>1
  <2>3. \A n \in 1 .. N : A[n] = DivideWith(A[n - 1], Bit(f, n))
    BY <1>10, <2>1
  <2> QED BY <2>2, <2>3
<1> QED BY <1>2, <1>11 DEF A, N

\* The bits of a byte, counted from the file's first.
LEMMA ByteIs ==
  ASSUME NEW f \in Seq(Byte), NEW k \in Nat, k < Len(f), After(f)[8 * k] \in Word
  PROVE  LET c == After(f)[8 * k]
         IN  /\ After(f)[8 * (k + 1)]
                   = Xor(Shift(c, 8), Table[Xor(LowByte(c), BitsOf(f[k + 1]))])
             /\ After(f)[8 * (k + 1)] \in Word
<1> DEFINE c == After(f)[8 * k]
           B == BitsOf(f[k + 1])
           A == [j \in 0 .. 8 |-> After(f)[8 * k + j]]
<1>1. B \in Octets
  BY DEF BitsOf, Octets
<1>2. Len(f) \in Nat
  BY LenProperties
<1>3. A[0] = c /\ A[8] = After(f)[8 * (k + 1)]
  BY <1>2
<1>4. ASSUME NEW j \in 0 .. 7 PROVE A[j + 1] = DivideWith(A[j], j \in B)
  <2> DEFINE n == 8 * k + j + 1
  <2>1. n \in 1 .. 8 * Len(f) /\ n - 1 = 8 * k + j /\ (n - 1) % 8 = j /\ (n - 1) \div 8 = k
    BY <1>2
  <2>2. A[j + 1] = After(f)[n] /\ A[j] = After(f)[n - 1]
    <3>1. j + 1 \in 0 .. 8 /\ j \in 0 .. 8 /\ 8 * k + (j + 1) = n
      OBVIOUS
    <3> HIDE DEF n
    <3> QED BY <2>1, <3>1
  <2> HIDE DEF n
  <2>3. Bit(f, n) = (j \in B)
    BY <2>1 DEF Bit
  <2> QED BY <2>1, <2>2, <2>3, AfterIs
<1> HIDE DEF A, B
<1>5. A[8] = Xor(Shift(c, 8), Table[Xor(LowByte(c), B)]) /\ A[8] \in Word
  BY <1>1, <1>3, <1>4, OctetIs
<1> QED BY <1>3, <1>5 DEF B

-----------------------------------------------------------------------------
(* The CRC-32: the program *)

\* rc_crc32()'s crc is the remainder after the octets it has taken.
CrcInv ==
  /\ program = "crc32" =>
       /\ kpc = "loop" => /\ octets \in Nat /\ octets <= Len(file)
                          /\ crc = After(file)[8 * octets] /\ crc \in Word
       /\ kpc = "idle" => octets = 0
       /\ value # NothingPrinted => value = Remainder(file)
  /\ program # "crc32" => CrcIdle

LEMMA CrcImplied ==
  ASSUME CrcInv
  PROVE  ChecksumRight
BY DEF CrcInv, CrcIdle, ChecksumRight

LEMMA CrcStep ==
  ASSUME CrcInv, program = "crc32", program' = program, CrcNext, file \in Seq(Byte)
  PROVE  CrcInv'
<1>1. file' = file
  BY DEF CrcNext, Map, Octet, PrintCrc, disk
<1>2. Len(file) \in Nat
  BY LenProperties
<1>3. value # NothingPrinted => value = Remainder(file)
  BY DEF CrcInv
<1>4. CASE Map
  <2>1. /\ octets = 0 /\ octets' = octets /\ value' = value
        /\ \/ kpc' = "loop" /\ crc' = Not({})
           \/ kpc' = "abort"
    BY <1>4 DEF Map, CrcInv
  <2>2. Not({}) = After(file)[0] /\ Not({}) \in Word /\ 8 * 0 = 0
    BY AfterIs DEF Not, Word
  <2> QED BY <1>1, <1>2, <1>3, <2>1, <2>2 DEF CrcInv
<1>5. CASE Octet
  <2>1. /\ kpc = "loop" /\ octets < Len(file) /\ octets' = octets + 1 /\ kpc' = kpc /\ value' = value
        /\ crc' = Xor(Shift(crc, 8), Table[Xor(LowByte(crc), BitsOf(file[octets + 1]))])
    BY <1>5 DEF Octet
  <2>2. octets \in Nat /\ crc = After(file)[8 * octets] /\ crc \in Word
    BY <2>1 DEF CrcInv
  <2>3. crc' = After(file)[8 * (octets + 1)] /\ crc' \in Word
    <3>1. After(file)[8 * octets] \in Word
      BY <2>2
    <3>2. /\ After(file)[8 * (octets + 1)] =
               Xor(Shift(After(file)[8 * octets], 8),
                   Table[Xor(LowByte(After(file)[8 * octets]), BitsOf(file[octets + 1]))])
          /\ After(file)[8 * (octets + 1)] \in Word
      BY <2>1, <2>2, <3>1, ByteIs
    <3> QED BY <2>1, <2>2, <3>2
  <2>4. octets + 1 \in Nat /\ octets + 1 <= Len(file)
    BY <1>2, <2>1, <2>2
  <2> QED BY <1>1, <1>3, <2>1, <2>3, <2>4 DEF CrcInv
<1>6. CASE PrintCrc
  <2>1. /\ kpc = "loop" /\ octets = Len(file) /\ value' = Not(crc) /\ kpc' = "exit"
    BY <1>6 DEF PrintCrc
  <2>2. crc = After(file)[8 * octets]
    BY <2>1 DEF CrcInv
  <2>3. value' = Remainder(file)
    BY <2>1, <2>2, AfterIs
  <2> QED BY <1>1, <2>1, <2>3 DEF CrcInv
<1> QED BY <1>4, <1>5, <1>6 DEF CrcNext

-----------------------------------------------------------------------------
(* The three programs *)

FileInv == file \in Seq(Byte) /\ offset \in Nat /\ offset <= Len(file) /\ errors \in Nat

IInv == FileInv /\ RarInv /\ DecodeInv /\ CrcInv

LEMMA InitIInv == Init => IInv
<1> SUFFICES ASSUME Init PROVE IInv
  OBVIOUS
<1> USE DEF Init, FileInit
<1>1. FileInv
  <2>1. file \in Seq(Byte)
    BY FileAssumption
  <2>2. Len(file) \in Nat
    BY <2>1, LenProperties
  <2> QED BY <2>1, <2>2 DEF FileInv
<1>2. RarInv
  <2>1. RarTyped
    <3>1. fnameSize \in [1 .. 2 -> Byte]
      BY DEF RarIdle, Byte
    <3>2. listed \in Seq(Listing)
      BY DEF RarIdle
    <3> QED BY <1>1, <3>1, <3>2 DEF RarTyped, RarBytes, RarIdle, FileInv
  <2>2. ChunkInv
    BY DEF ChunkInv, RarIdle
  <2>3. ListInv
    BY DEF ListInv, RarIdle
  <2> QED BY <1>1, <2>1, <2>2, <2>3 DEF RarInv, FileInv
<1>3. DecodeInv
  <2>1. /\ encoding \in Encodings /\ inbuf = <<>> /\ d = 0 /\ out = <<>> /\ code = "none" /\ dpc = "idle"
        /\ inbuf \in Seq(Byte) /\ Len(inbuf) = 0
    BY DEF DecodeIdle
  <2>2. DecodeWritten
    BY <2>1, WrittenAtFirst DEF DecodeWritten, Text
  <2> QED BY <2>1, <2>2 DEF DecodeInv, DecodeTyped, DecodeStages
<1>4. CrcInv
  BY DEF CrcInv, CrcIdle
<1> QED BY <1>1, <1>2, <1>3, <1>4 DEF IInv

LEMMA FileStep ==
  ASSUME FileInv, [Next]_vars
  PROVE  FileInv'
<1> USE DEF FileInv
<1>1. CASE UNCHANGED disk
  BY <1>1 DEF disk
<1>2. ASSUME NEW size \in Nat, NEW bytes, Read(size, bytes) PROVE FileInv'
  <2>1. file' = file /\ errors' = errors
    BY <1>2 DEF Read
  <2> QED BY <1>2, <2>1, ReadTyped
<1>3. CASE ReadFails
  BY <1>3 DEF ReadFails
<1>4. CASE ReadChunk
  BY <1>2, <1>4, RarAssumption DEF ReadChunk
<1>5. CASE ReadIn
  BY <1>2, <1>5, DecodeAssumption DEF ReadIn
<1>6. CASE RarNext
  BY <1>1, <1>3, <1>4, <1>6
     DEF RarNext, RarOpen, ReadChunkFails, EndOfFile, Header, NoMoreHeaders, Undefined
<1>7. CASE DecodeNext
  BY <1>1, <1>3, <1>5, <1>7
     DEF DecodeNext, OpenIn, ReadInFails, OpenOut, WriteByte, WriteFails, ConvertDone
<1>8. CASE CrcNext
  BY <1>1, <1>8 DEF CrcNext, Map, Octet, PrintCrc
<1>9. CASE UNCHANGED vars
  BY <1>1, <1>9 DEF vars
<1> QED BY <1>6, <1>7, <1>8, <1>9 DEF Next

LEMMA RarStep ==
  ASSUME RarInv, FileInv', program = "is-rarjpeg", program' = program, RarNext
  PROVE  RarInv'
<1> SUFFICES ASSUME errors' = 0 PROVE RarTyped' /\ ChunkInv' /\ ListInv'
  BY DEF RarInv, FileInv
<1>1. errors \in Nat
  BY DEF RarInv
<1>2. ~ReadChunkFails
  BY <1>1 DEF ReadChunkFails, ReadFails
<1>3. errors = 0
  BY <1>2 DEF RarNext, RarOpen, ReadChunk, Read, EndOfFile, Header, NoMoreHeaders, Undefined, disk
<1>4. RarTyped /\ ChunkInv /\ ListInv
  BY <1>3 DEF RarInv
<1>5. CASE RarOpen \/ EndOfFile \/ Undefined
  BY <1>3, <1>4, <1>5, QuietRarStep
<1>6. CASE ReadChunk
  BY <1>4, <1>6, ReadChunkStep
<1>7. CASE Header
  BY <1>4, <1>7, HeaderStep
<1>8. CASE NoMoreHeaders
  BY <1>4, <1>8, NoMoreHeadersStep
<1> QED BY <1>2, <1>5, <1>6, <1>7, <1>8 DEF RarNext

LEMMA DecodeStep ==
  ASSUME DecodeInv, FileInv, program = "decode", program' = program, DecodeNext
  PROVE  DecodeInv'
<1>1. DecodeTyped /\ DecodeStages /\ DecodeWritten
  BY DEF DecodeInv
<1>2. DecodeTyped' /\ DecodeStages' /\ DecodeWritten'
  <2>1. CASE OpenIn
    BY <1>1, <2>1, OpenInStep
  <2>2. CASE ReadIn
    BY <1>1, <2>2, ReadInStep DEF FileInv
  <2>3. CASE ReadInFails \/ OpenOut \/ ConvertDone
    BY <1>1, <2>3, QuietDecodeStep
  <2>4. CASE WriteByte
    BY <1>1, <2>4, WriteByteStep
  <2>5. CASE WriteFails
    BY <1>1, <2>5, WriteFailsStep
  <2> QED BY <2>1, <2>2, <2>3, <2>4, <2>5 DEF DecodeNext
<1> QED BY <1>2 DEF DecodeInv

\* A program that is not the one that was started stays as it is.
LEMMA IdleStep ==
  ASSUME IInv, FileInv', program' = program
  PROVE  /\ program # "is-rarjpeg" /\ UNCHANGED rar => RarInv'
         /\ program # "decode" /\ UNCHANGED decode => DecodeInv'
         /\ program # "crc32" /\ UNCHANGED checksum => CrcInv'
BY DEF IInv, FileInv, RarInv, DecodeInv, CrcInv, rar, decode, checksum, RarIdle, DecodeIdle, CrcIdle

LEMMA StepIInv == IInv /\ [Next]_vars => IInv'
<1> SUFFICES ASSUME IInv, [Next]_vars PROVE IInv'
  OBVIOUS
<1>1. FileInv /\ RarInv /\ DecodeInv /\ CrcInv /\ FileInv'
  BY FileStep DEF IInv
<1>2. CASE program = "is-rarjpeg" /\ RarNext /\ UNCHANGED <<program, decode, checksum>>
  BY <1>1, <1>2, RarStep, IdleStep DEF IInv
<1>3. CASE program = "decode" /\ DecodeNext /\ UNCHANGED <<program, rar, checksum>>
  BY <1>1, <1>3, DecodeStep, IdleStep DEF IInv
<1>4. CASE program = "crc32" /\ CrcNext /\ UNCHANGED <<program, rar, decode>>
  <2>1. CrcInv'
    BY <1>1, <1>4, CrcStep DEF FileInv
  <2> QED BY <1>1, <1>4, <2>1, IdleStep DEF IInv
<1>5. CASE UNCHANGED vars
  <2>1. UNCHANGED <<program, file, offset, errors, rpc, data, startSearch, signShift, fnameSize, listed, cuts, misread>>
        /\ UNCHANGED <<dpc, encoding, inbuf, out, d, code, kpc, crc, octets, value>>
    BY <1>5 DEF vars, rar, decode, checksum, disk
  <2>2. RarInv'
    <3>1. RarTyped' <=> RarTyped
      BY <2>1 DEF RarTyped, RarBytes
    <3>2. ChunkInv' <=> ChunkInv
      BY <2>1 DEF ChunkInv
    <3>3. ListInv' <=> ListInv
      BY <2>1 DEF ListInv, Searched, Whole, NamedRight, BytesAt
    <3>4. RarIdle' <=> RarIdle
      BY <2>1 DEF RarIdle
    <3> QED BY <1>1, <2>1, <3>1, <3>2, <3>3, <3>4 DEF RarInv
  <2>3. DecodeInv'
    BY <1>1, <1>5, <2>1
       DEF DecodeInv, DecodeTyped, DecodeStages, DecodeWritten, Text, DecodeIdle, vars, decode
  <2>4. CrcInv'
    BY <1>1, <2>1 DEF CrcInv, CrcIdle
  <2> QED BY <1>1, <2>2, <2>3, <2>4 DEF IInv
<1> QED BY <1>2, <1>3, <1>4, <1>5 DEF Next

LEMMA Invariance == Spec => []IInv
<1>1. Init => IInv
  BY InitIInv
<1>2. IInv /\ [Next]_vars => IInv'
  BY StepIInv
<1> QED BY <1>1, <1>2, PTL DEF Spec

\* When no read() of a chunk fails, is-rarjpeg lists each header that lies within
\* one chunk once, in the order of the file, with the name the file has for it if
\* that was read as far as it is there, and has missed none of what it has read:
\* for every file, every chunk size, however short the reads are and whatever
\* becomes of the reads of other names (main() of is-rarjpeg.c).
THEOREM EntriesAlwaysListed == Spec => []EntriesListed
<1>1. IInv => EntriesListed
  BY RarImplied DEF IInv
<1> QED BY <1>1, Invariance, PTL

\* decode writes the UTF-8 of what one read() gave, or a beginning of it where it
\* stops early, for every text of characters its tables have right, in each of
\* the three code pages (main() of decode.c).
THEOREM TextAlwaysConverted == Spec => []TextConverted
<1>1. IInv => TextConverted
  BY DecodeImplied DEF IInv
<1> QED BY <1>1, Invariance, PTL

\* The checksum that is printed, octet by octet from a table, is the remainder of
\* the division of the whole file, bit by bit, for every file (rc_crc32()).
THEOREM ChecksumAlwaysRight == Spec => []ChecksumRight
<1>1. IInv => ChecksumRight
  BY CrcImplied DEF IInv
<1> QED BY <1>1, Invariance, PTL

=============================================================================
