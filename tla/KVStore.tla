------------------------------- MODULE KVStore -------------------------------
(***************************************************************************)
(* What the key-value server promises its clients: every operation takes   *)
(* effect at one moment between the moment it was asked for and the moment *)
(* it is answered, on one map that all clients share, and is answered      *)
(* right (TableOps!IsAnswer).  TableServer is shown to implement it.       *)
(***************************************************************************)
EXTENDS TableOps

CONSTANT Conns      \* the connections of the clients

VARIABLES
  map,              \* the entries of the table
  pending           \* pending[c]: the operation connection c is waiting for

storeVars == <<map, pending>>

\* An operation that was asked for and has not taken effect has no answer.
Nothing     == [state |-> "none"]
Asked(r)    == [state |-> "asked", req |-> r]
Done(r, a)  == [state |-> "done", req |-> r, answer |-> a]

Init ==
  /\ map = Empty
  /\ pending = [c \in Conns |-> Nothing]

\* The request is any one; it is what is pending afterwards.
Ask(c) ==
  /\ pending[c] = Nothing
  /\ pending'[c].state = "asked" /\ pending'[c].req \in Requests
  /\ pending' = [pending EXCEPT ![c] = Asked(pending'[c].req)]
  /\ UNCHANGED map

TakeEffect(c) ==
  /\ pending[c].state = "asked" /\ pending'[c].state = "done"
  /\ LET r == pending[c].req
     IN  /\ map' = After(map, r)
         /\ IsAnswer(map, r, pending'[c].answer)
         /\ pending' = [pending EXCEPT ![c] = Done(r, pending'[c].answer)]

\* The answer reaches the client, or is lost with it.
Return(c) ==
  /\ pending[c].state = "done"
  /\ pending' = [pending EXCEPT ![c] = Nothing]
  /\ UNCHANGED map

Next ==
  \E c \in Conns :
    \/ Ask(c)
    \/ TakeEffect(c)
    \/ Return(c)

Spec == Init /\ [][Next]_storeVars
=============================================================================
