------------------------------- MODULE RWLock -------------------------------
(***************************************************************************)
(* What a readers/writers lock promises its callers, with none of the      *)
(* machinery: a thread asks for the lock in a mode, is granted it, gives   *)
(* it back.  Any number of readers may be inside together, a writer is     *)
(* inside alone.  RWMutex (source/server/access_man.c) is shown to         *)
(* implement this specification, and TableServer uses these grants for the *)
(* two locks of the server.                                                *)
(***************************************************************************)

CONSTANT Threads

VARIABLES
  phase,    \* phase[t]: "out", "want" or "in"
  want      \* want[t]: the mode thread t asked for, "none" when it is out

lockVars == <<phase, want>>

Modes  == {"read", "write"}
Phases == {"out", "want", "in"}

LockTypeOK ==
  /\ phase \in [Threads -> Phases]
  /\ want \in [Threads -> Modes \union {"none"}]

Init ==
  /\ phase = [t \in Threads |-> "out"]
  /\ want  = [t \in Threads |-> "none"]

\* The mode m can be granted to t beside the threads that are inside.
Compatible(t, m) ==
  \A u \in Threads \ {t} :
    phase[u] = "in" => (m = "read" /\ want[u] = "read")

Request(t, m) ==
  /\ phase[t] = "out"
  /\ phase' = [phase EXCEPT ![t] = "want"]
  /\ want'  = [want EXCEPT ![t] = m]

Grant(t) ==
  /\ phase[t] = "want"
  /\ Compatible(t, want[t])
  /\ phase' = [phase EXCEPT ![t] = "in"]
  /\ UNCHANGED want

Release(t) ==
  /\ phase[t] = "in"
  /\ phase' = [phase EXCEPT ![t] = "out"]
  /\ want'  = [want EXCEPT ![t] = "none"]

Next ==
  \E t \in Threads :
    \/ \E m \in Modes : Request(t, m)
    \/ Grant(t)
    \/ Release(t)

\* No fairness: which waiting thread is granted the lock, and whether a
\* particular writer ever is, is left open (RWMutex!PendingCallsEnd says what
\* the implementation does guarantee).
Spec == Init /\ [][Next]_lockVars
=============================================================================
