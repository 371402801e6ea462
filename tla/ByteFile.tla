------------------------------ MODULE ByteFile -------------------------------
(***************************************************************************)
(* The file that one of the small programs is given, and read(): any       *)
(* number of the bytes asked for that are left, none at the end of the     *)
(* file, or an error.                                                      *)
(***************************************************************************)
EXTENDS Integers, Sequences

CONSTANTS
  Files,      \* what the file may hold
  MaxErrors,  \* bound on the calls of read() that fail
  MaxShort    \* bound on those that return fewer bytes than they could

Byte == 0 .. 255

ASSUME FileAssumption ==
  /\ \A f \in Files : f \in Seq(Byte)
  /\ MaxErrors \in Nat /\ MaxShort \in Nat

VARIABLES
  file,     \* its bytes
  offset,   \* the bytes before which were read
  errors,   \* of read() so far
  short     \* calls of read() so far

disk == <<file, offset, errors, short>>

FileInit == file \in Files /\ offset = 0 /\ errors = 0 /\ short = 0

Left == Len(file) - offset

\* read() of up to `size` bytes, which puts `bytes` into the buffer.
Read(size, bytes) ==
  LET all == IF size <= Left THEN size ELSE Left IN
  /\ \E n \in 0 .. all :
       /\ bytes = SubSeq(file, offset + 1, offset + n)
       /\ offset' = offset + n
       /\ IF n = all THEN UNCHANGED short
                     ELSE n > 0 /\ short < MaxShort /\ short' = short + 1
  /\ UNCHANGED <<file, errors>>

ReadFails ==
  /\ errors < MaxErrors /\ errors' = errors + 1
  /\ UNCHANGED <<file, offset, short>>

\* What there is of the n bytes from position p.
BytesAt(p, n) ==
  SubSeq(file, p + 1, IF p + n <= Len(file) THEN p + n ELSE Len(file))

=============================================================================
