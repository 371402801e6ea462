------------------------------- MODULE RarJpeg -------------------------------
(***************************************************************************)
(* is-rarjpeg.c of hw-03: lists the files of a ZIP archive appended to a   *)
(* picture.  One descriptor reads the file chunk by chunk and is searched  *)
(* for the signature of a local file header; another seeks to the file     *)
(* name of each header that was found.                                     *)
(***************************************************************************)
EXTENDS ByteFile

CONSTANTS
  ChunkSize,   \* chunk_size: 16384
  LengthAt,    \* where a header has the length of its name: 26
  IntMax       \* INT_MAX

ASSUME RarAssumption == ChunkSize \in Nat \ {0} /\ LengthAt \in Nat /\ IntMax \in Nat

Sign == <<80, 75, 3, 4>>

VARIABLES
  rpc,          \* where main() is
  data,         \* the sz bytes of the chunk
  startSearch,  \* start_sign_search
  signShift,    \* sign_shift
  fnameSize,    \* the two bytes of fname_size
  listed,       \* <<where the header was taken to be, the name printed for it>> of each
  cuts,         \* the positions at which a chunk ended (history)
  misread       \* the headers of which not all was read that there is (history)

rar == <<rpc, data, startSearch, signShift, fnameSize, listed, cuts, misread>>

RarIdle ==
  /\ rpc = "idle" /\ data = <<>> /\ startSearch = 0 /\ signShift = 0
  /\ fnameSize = <<0, 0>> /\ listed = <<>> /\ cuts = {} /\ misread = {}

\* Both descriptors and the buffer, or exit(1).
RarOpen ==
  /\ rpc = "idle" /\ rpc' \in {"read", "exit"}
  /\ UNCHANGED <<disk, data, startSearch, signShift, fnameSize, listed, cuts, misread>>

ReadChunk ==
  /\ rpc = "read" /\ Left > 0
  /\ Read(ChunkSize, data')
  /\ startSearch' = 0 /\ rpc' = "search" /\ cuts' = cuts \cup {offset'}
  /\ UNCHANGED <<signShift, fnameSize, listed, misread>>

\* A result of -1 is true: nothing is searched, and the shift is added to.
ReadChunkFails ==
  /\ rpc = "read" /\ ReadFails
  /\ signShift' = signShift - 1
  /\ UNCHANGED <<rpc, data, startSearch, fnameSize, listed, cuts, misread>>

EndOfFile ==
  /\ rpc = "read" /\ Left = 0
  /\ rpc' = "exit"
  /\ UNCHANGED <<disk, data, startSearch, signShift, fnameSize, listed, cuts, misread>>

\* Where a signature begins in the chunk, from 0.
Matches == {i \in startSearch .. Len(data) - 4 : SubSeq(data, i + 1, i + 4) = Sign}

\* The length that b is read of: the rest stays as the last name left it.
LengthRead(b) == [k \in 1 .. 2 |-> IF k <= Len(b) THEN b[k] ELSE fnameSize[k]]

\* As %s prints it.
Printed(name) ==
  LET nuls == {k \in DOMAIN name : name[k] = 0}
  IN  IF nuls = {} THEN name ELSE SubSeq(name, 1, (CHOOSE k \in nuls : \A l \in nuls : k <= l) - 1)

\* The results of both read() are not asked: either may give any of the first
\* bytes there are, or fail and give none.
Header ==
  /\ rpc = "search" /\ Matches # {}
  /\ LET signLpos == CHOOSE i \in Matches : \A j \in Matches : i <= j
         p == signLpos + signShift
         length == BytesAt(p + LengthAt, 2)
     IN  /\ p + LengthAt + 4 <= IntMax
         /\ startSearch' = signLpos + 1
         /\ \E m \in 0 .. Len(length) :
              LET size == LengthRead(SubSeq(length, 1, m))
                  name == BytesAt(p + LengthAt + 4, size[1] + 16 * size[2])
              IN  /\ fnameSize' = size
                  /\ \E n \in 0 .. Len(name) :
                       /\ listed' = Append(listed, <<p, Printed(SubSeq(name, 1, n))>>)
                       /\ misread' = IF m = Len(length) /\ n = Len(name)
                                       THEN misread ELSE misread \cup {p}
  /\ UNCHANGED <<disk, rpc, data, signShift, cuts>>

\* A name for which there is no memory is written to all the same, and the sum
\* of the offsets is that of ints.
Undefined ==
  /\ rpc = "search" /\ (Matches # {} \/ signShift + Len(data) > IntMax)
  /\ rpc' = "undefined"
  /\ UNCHANGED <<disk, data, startSearch, signShift, fnameSize, listed, cuts, misread>>

\* (faulty form of NoMoreHeaders: every chunk counts as a full one)
NoMoreHeadersFull ==
  /\ rpc = "search" /\ Matches = {} /\ signShift + Len(data) <= IntMax
  /\ signShift' = signShift + ChunkSize /\ rpc' = "read"
  /\ UNCHANGED <<disk, data, startSearch, fnameSize, listed, cuts, misread>>

NoMoreHeaders ==
  /\ rpc = "search" /\ Matches = {} /\ signShift + Len(data) <= IntMax
  /\ signShift' = signShift + Len(data) /\ rpc' = "read"
  /\ UNCHANGED <<disk, data, startSearch, fnameSize, listed, cuts, misread>>

RarNext ==
  RarOpen \/ ReadChunk \/ ReadChunkFails \/ EndOfFile \/ Header \/ NoMoreHeaders \/ Undefined

-----------------------------------------------------------------------------
(* Properties *)

HeadersIn(f) == {p \in 0 .. Len(f) - 4 : SubSeq(f, p + 1, p + 4) = Sign}

\* When no read() of a chunk failed, the program lists each header once, in the
\* order of the file, except those whose signature is parted between two chunks,
\* and takes none for another one's neighbour.  The name of a header that is there
\* to the end, is shorter than 256 characters and was read as far as it is there is
\* the one printed: a name that was not costs neither its header nor another's
\* name (main()).
EntriesListed ==
  LET places == [k \in DOMAIN listed |-> listed[k][1]]
      Whole(p) == \A c \in cuts : c <= p \/ p + 4 <= c
      Length(p) == file[p + LengthAt + 1]
  IN  errors = 0 =>
        /\ \A k \in DOMAIN places :
             /\ places[k] \in HeadersIn(file) /\ Whole(places[k])
             /\ k > 1 => places[k - 1] < places[k]
             /\ places[k] \notin misread /\ places[k] + LengthAt + 1 < Len(file)
                  /\ file[places[k] + LengthAt + 2] = 0 =>
                  listed[k][2] = Printed(BytesAt(places[k] + LengthAt + 4, Length(places[k])))
        /\ rpc = "read" => \A p \in HeadersIn(file) :
             p + 4 <= offset /\ Whole(p) => \E k \in DOMAIN places : places[k] = p

=============================================================================
