------------------------------ MODULE MCFraming -------------------------------
(***************************************************************************)
(* An instance of Framing for TLC: bodies of one to three cells.           *)
(***************************************************************************)
EXTENDS Framing

MCSizes == 1 .. 3
=============================================================================
