------------------------------- MODULE Decode --------------------------------
(***************************************************************************)
(* decode.c of hw-04: writes the first part of a file, which is in one of  *)
(* three 8-bit code pages, as UTF-8.  Bytes below 128 and the others have  *)
(* a table each; a table entry of two bytes is written as it lies in       *)
(* memory, low byte first.                                                 *)
(***************************************************************************)
EXTENDS ByteFile

CONSTANT InbufSize   \* inbuf_size: 1 MiB

ASSUME DecodeAssumption == InbufSize \in Nat \ {0}

Encodings == {"koi8-r", "cp-1251", "iso-8859"}

\* The initialiser of koi8r, from 0xc0.
Koi8rLetters == <<
  \hd18e, \hd0b0, \hd0b1, \hd186, \hd0b4, \hd0b5, \hd1b4, \hd0b3,
  \hd185, \hd0b8, \hd0b9, \hd0ba, \hd0bb, \hd0bc, \hd0bd, \hd0be,
  \hd0bf, \hd18f, \hd180, \hd181, \hd182, \hd183, \hd0b6, \hd0b2,
  \hd18c, \hd18b, \hd0b7, \hd188, \hd18d, \hd189, \hd187, \hd18a,
  \hd0ae, \hd090, \hd091, \hd0a6, \hd094, \hd095, \hd0a4, \hd093,
  \hd0a5, \hd098, \hd099, \hd09a, \hd09b, \hd09c, \hd09d, \hd09e,
  \hd09f, \hd0af, \hd0a0, \hd0a1, \hd0a2, \hd0a3, \hd096, \hd092,
  \hd0ac, \hd0ab, \hd097, \hd0a8, \hd0ad, \hd0a9, \hd0a7, \hd0aa>>

VARIABLES
  dpc,      \* where main() is
  encoding, \* argv[1]
  inbuf,    \* the sz bytes that were read
  outOpen,  \* fd_out is a descriptor, not -1
  out,      \* what was written
  d,        \* the bytes of inbuf that are done
  code      \* main()'s result

decode == <<dpc, encoding, inbuf, outOpen, out, d, code>>

DecodeIdle ==
  /\ dpc = "idle" /\ encoding \in Encodings /\ inbuf = <<>> /\ outOpen = FALSE
  /\ out = <<>> /\ d = 0 /\ code = "none"

\* "swap lsb and msb", in 16 bits
Swap(x) == (x \div 256) + ((x * 256) % 65536)

\* The tables, 0 where nothing was assigned.
Koi8r == [b \in Byte |-> Swap(IF b >= 192 THEN Koi8rLetters[b - 191] ELSE 0)]

\* (faulty form of Cp1251: the loops end one letter early, as those of Iso8859 do)
Cp1251Short ==
  [b \in Byte |-> Swap(CASE b \in 192 .. 206 -> \hd090 + (b - 192)
                         [] b \in 208 .. 222 -> \hd0a0 + (b - 208)
                         [] b \in 224 .. 238 -> \hd0b0 + (b - 224)
                         [] b \in 240 .. 254 -> \hd180 + (b - 240)
                         [] OTHER -> 0)]

Cp1251 ==
  [b \in Byte |-> Swap(CASE b \in 192 .. 207 -> \hd090 + (b - 192)
                         [] b \in 208 .. 223 -> \hd0a0 + (b - 208)
                         [] b \in 224 .. 239 -> \hd0b0 + (b - 224)
                         [] b \in 240 .. 255 -> \hd180 + (b - 240)
                         [] OTHER -> 0)]

Iso8859 ==
  [b \in Byte |-> Swap(CASE b \in 176 .. 222 -> \hd090 + (b - 176)
                         [] b \in 224 .. 238 -> \hd180 + (b - 224)
                         [] OTHER -> 0)]

\* The tables for the bytes below 128 have 127 entries: what lies behind the
\* last is whatever the linker put there.
Low(b) == IF b < 127 THEN {b} ELSE Byte

CodePage(e) == CASE e = "koi8-r" -> Koi8r [] e = "cp-1251" -> Cp1251 [] e = "iso-8859" -> Iso8859

Converted(b) ==
  IF b < 128 THEN {<<x>> : x \in Low(b)}
  ELSE LET w == CodePage(encoding)[b] IN {<<w % 256, w \div 256>>}

-----------------------------------------------------------------------------

Return(c) == dpc' = "exit" /\ code' = c

\* The tables are filled; the input file and its buffer, or an early return.
OpenIn ==
  /\ dpc = "idle"
  /\ \/ dpc' = "read" /\ UNCHANGED code
     \/ \E c \in {"0", "-1"} : Return(c)
  /\ UNCHANGED <<disk, encoding, inbuf, outOpen, out, d>>

\* One read() of up to inbuf_size bytes, whatever the file has.
ReadIn ==
  /\ dpc = "read" /\ dpc' = "open"
  /\ Read(InbufSize, inbuf')
  /\ UNCHANGED <<encoding, outOpen, out, d, code>>

ReadInFails ==
  /\ dpc = "read" /\ ReadFails /\ Return("-1")
  /\ UNCHANGED <<encoding, inbuf, outOpen, out, d>>

\* open() that fails is taken for success: -1 is not 0, and 0 is the input's at most.
OpenOut ==
  /\ dpc = "open" /\ dpc' = "convert"
  /\ outOpen' \in BOOLEAN
  /\ UNCHANGED <<disk, encoding, inbuf, out, d, code>>

WriteByte ==
  /\ dpc = "convert" /\ d < Len(inbuf)
  /\ outOpen
  /\ \E w \in Converted(inbuf[d + 1]) : out' = out \o w
  /\ d' = d + 1
  /\ UNCHANGED <<disk, dpc, encoding, inbuf, outOpen, code>>

\* write() that fails or writes one byte of two; atexit_clean() closes.
WriteFails ==
  /\ dpc = "convert" /\ d < Len(inbuf)
  /\ \E w \in Converted(inbuf[d + 1]) :
       \E n \in 0 .. Len(w) - 1 : (n > 0 => outOpen) /\ out' = out \o SubSeq(w, 1, n)
  /\ outOpen' = FALSE /\ Return("-1")
  /\ UNCHANGED <<disk, encoding, inbuf, d>>

ConvertDone ==
  /\ dpc = "convert" /\ d = Len(inbuf)
  /\ outOpen' = FALSE /\ Return("0")
  /\ UNCHANGED <<disk, encoding, inbuf, out, d>>

DecodeNext ==
  OpenIn \/ ReadIn \/ ReadInFails \/ OpenOut \/ WriteByte \/ WriteFails \/ ConvertDone

-----------------------------------------------------------------------------
(* Properties *)

\* The letters of the alphabet, from 0, in the order KOI8-R has them.
Koi8Order == <<30, 0, 1, 22, 4, 5, 20, 3, 21, 8, 9, 10, 11, 12, 13, 14,
               15, 31, 16, 17, 18, 19, 6, 2, 28, 27, 7, 24, 29, 25, 23, 26>>

\* The Unicode character of a letter: the code pages have 64 in a row, KOI8-R
\* the small ones first.
Unicode(e, b) ==
  CASE b < 128 -> b
    [] b >= 128 /\ e = "koi8-r" ->
         IF b < 224 THEN \h430 + Koi8Order[b - 191] ELSE \h410 + Koi8Order[b - 223]
    [] b >= 128 /\ e = "cp-1251" -> \h410 + (b - 192)
    [] b >= 128 /\ e = "iso-8859" -> \h410 + (b - 176)

Utf8(u) == IF u < 128 THEN <<u>> ELSE <<192 + (u \div 64), 128 + (u % 64)>>

\* The bytes the tables have right: of koi8-r the small ef (0xc6), and of
\* iso-8859 the small pe and ya (0xdf and 0xef) are not among them, nor is DEL.
Letters(e) ==
  CASE e = "koi8-r" -> (192 .. 255) \ {198}
    [] e = "cp-1251" -> 192 .. 255
    [] e = "iso-8859" -> (176 .. 239) \ {223, 239}

\* A text that was converted, as the program says, is the UTF-8 of as much of
\* the file as one read() gave, if it is of characters the tables have right;
\* and wherever writing stops, what is written is a beginning of that (main()).
TextConverted ==
  (\A k \in DOMAIN inbuf : inbuf[k] \in (0 .. 126) \cup Letters(encoding)) =>
    LET Utf8To[n \in 0 .. Len(inbuf)] ==
          IF n = 0 THEN <<>> ELSE Utf8To[n - 1] \o Utf8(Unicode(encoding, inbuf[n]))
    IN  /\ out = SubSeq(Utf8To[Len(inbuf)], 1, Len(out))
        /\ code = "0" => out = Utf8To[Len(inbuf)]

=============================================================================
