---------------------------- MODULE MCLogProgram -----------------------------
(***************************************************************************)
(* Scripts for TLC: three threads that log more than those of test.c, and  *)
(* test.c itself.  A piece is one character.                               *)
(***************************************************************************)
EXTENDS LogProgram

BusyScript == << <<"INFO", "ERROR", "INFO">>, <<"ERROR", "INFO">>, <<"INFO">> >>
TestScript == << <<"INFO">>, <<"ERROR">> >>
UnitSize == [piece \in Pieces |-> 1]
=============================================================================
