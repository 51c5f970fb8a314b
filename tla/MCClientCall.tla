----------------------------- MODULE MCClientCall -----------------------------
(***************************************************************************)
(* Instances of ClientCall.                                                *)
(***************************************************************************)
EXTENDS ClientCall

AllOps == {"put", "del", "get", "size", "keys", "print", "stats"}
Puts == {"put"}
=============================================================================
