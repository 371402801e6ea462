-------------------------------- MODULE Crc32 --------------------------------
(***************************************************************************)
(* crc32.c of hw20: prints the CRC-32 of a file that is mapped into        *)
(* memory.  A 32-bit word is the set of its bits that are 1, bit 0 the     *)
(* lowest.                                                                 *)
(***************************************************************************)
EXTENDS ByteFile

Word == SUBSET (0 .. 31)
Xor(a, b) == (a \cup b) \ (a \cap b)
Not(a) == (0 .. 31) \ a
Shift(a, n) == {b - n : b \in {c \in a : c >= n}}
LowByte(a) == {b \in a : b <= 7}
BitsOf(n) == {b \in 0 .. 7 : (n \div 2 ^ b) % 2 = 1}

\* 0xedb88320
Polynomial == {5, 8, 9, 15, 19, 20, 21, 23, 24, 26, 27, 29, 30, 31}

VARIABLES
  kpc,     \* where main() is
  crc,     \* rc_crc32()'s crc
  octets,  \* of the file that it has taken
  value    \* what was printed, or {-1}

checksum == <<kpc, crc, octets, value>>
NothingPrinted == {-1}

CrcIdle == kpc = "idle" /\ crc = {} /\ octets = 0 /\ value = NothingPrinted

DivideBit(rem) == IF 0 \in rem THEN Xor(Shift(rem, 1), Polynomial) ELSE Shift(rem, 1)

\* The remainder of each octet after the eight rounds of j.
Table ==
  [octet \in SUBSET (0 .. 7) |->
     LET Rounds[j \in 0 .. 8] == IF j = 0 THEN octet ELSE DivideBit(Rounds[j - 1])
     IN  Rounds[8]]

\* open(), fstat() and mmap(), which maps no empty file: an assertion that fails
\* aborts the program.
Map ==
  /\ kpc = "idle"
  /\ \/ Len(file) > 0 /\ kpc' = "loop" /\ crc' = Not({})
     \/ kpc' = "abort" /\ UNCHANGED crc
  /\ UNCHANGED <<disk, octets, value>>

\* (faulty form of Octet: the table is indexed by the octet of the file alone)
OctetUnmixed ==
  /\ kpc = "loop" /\ octets < Len(file)
  /\ crc' = Xor(Shift(crc, 8), Table[BitsOf(file[octets + 1])])
  /\ octets' = octets + 1
  /\ UNCHANGED <<disk, kpc, value>>

Octet ==
  /\ kpc = "loop" /\ octets < Len(file)
  /\ crc' = Xor(Shift(crc, 8), Table[Xor(LowByte(crc), BitsOf(file[octets + 1]))])
  /\ octets' = octets + 1
  /\ UNCHANGED <<disk, kpc, value>>

PrintCrc ==
  /\ kpc = "loop" /\ octets = Len(file)
  /\ value' = Not(crc) /\ kpc' = "exit"
  /\ UNCHANGED <<disk, crc, octets>>

CrcNext == Map \/ Octet \/ PrintCrc

-----------------------------------------------------------------------------
(* Properties *)

\* Division of the message by the polynomial, one bit after the other.
Remainder(f) ==
  LET Bit(n) == (n - 1) % 8 \in BitsOf(f[(n - 1) \div 8 + 1])
      After[n \in 0 .. 8 * Len(f)] ==
        IF n = 0 THEN 0 .. 31
        ELSE LET rem == After[n - 1]
             IN  IF (0 \in rem) # Bit(n) THEN Xor(Shift(rem, 1), Polynomial) ELSE Shift(rem, 1)
  IN  Not(After[8 * Len(f)])

\* What is printed is the remainder of the whole file, as division bit by bit
\* gives it, although a table of octets is used (rc_crc32()).
ChecksumRight == value # NothingPrinted => value = Remainder(file)

=============================================================================
