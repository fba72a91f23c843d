------------------------------- MODULE MCPrograms -------------------------------
(***************************************************************************)
(* Programs for TLC; the assumptions of MCWireCodec, about the bytes that  *)
(* a program is written and read back as, are evaluated with it.           *)
(***************************************************************************)
EXTENDS Programs, MCWireCodec
===============================================================================
