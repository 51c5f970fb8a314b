----------------------------- MODULE MCRWMutex ------------------------------
(***************************************************************************)
(* RWMutex for TLC.  Four threads are the smallest number with two readers *)
(* and two writers competing.  The run checks liveness as well, so it is   *)
(* not reduced by symmetry.                                                *)
(***************************************************************************)
EXTENDS RWMutex
=============================================================================
