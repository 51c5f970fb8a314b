---------------------------- MODULE TableContract ----------------------------
(***************************************************************************)
(* What a table promises a single caller: a map, changed and answered by   *)
(* one operation at a time.  HashTable is the implementation.              *)
(***************************************************************************)
EXTENDS TableOps

VARIABLES
  map,        \* the entries of the table
  reply       \* the answer of the last operation

Init ==
  /\ map = Empty
  /\ reply = [ok |-> TRUE]

Next ==
  \E r \in Requests :
    /\ map' = After(map, r)
    /\ IsAnswer(map, r, reply')

Spec == Init /\ [][Next]_<<map, reply>>
=============================================================================
