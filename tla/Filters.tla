------------------------------- MODULE Filters -------------------------------
(***************************************************************************)
(* The three small programs that read one file and end: whichever of them  *)
(* is started, on whatever file.                                           *)
(***************************************************************************)
EXTENDS RarJpeg, Decode, Crc32

VARIABLE program

vars == <<program, disk, rar, decode, checksum>>

Init ==
  /\ program \in {"is-rarjpeg", "decode", "crc32"}
  /\ FileInit /\ RarIdle /\ DecodeIdle /\ CrcIdle
  /\ program # "decode" => encoding = "koi8-r"

Ended == "exit" \in {rpc, dpc, kpc} \/ rpc = "undefined" \/ kpc = "abort"

Next ==
  \/ program = "is-rarjpeg" /\ RarNext /\ UNCHANGED <<program, decode, checksum>>
  \/ program = "decode" /\ DecodeNext /\ UNCHANGED <<program, rar, checksum>>
  \/ program = "crc32" /\ CrcNext /\ UNCHANGED <<program, rar, decode>>
  \/ Ended /\ UNCHANGED vars

Spec == Init /\ [][Next]_vars

=============================================================================
