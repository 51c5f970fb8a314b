------------------------------ MODULE RWMutex -------------------------------
(***************************************************************************)
(* The readers/writers lock of source/server/access_man.c: two counters    *)
(* guarded by a pthread mutex, and one condition variable for readers and  *)
(* writers alike.                                                          *)
(*                                                                         *)
(* The counters are touched only by the thread that owns control_mutex, so *)
(* what a thread does between taking that mutex and giving it back (or     *)
(* sleeping on the condition variable, which gives it back atomically) is  *)
(* one action.  Taking the mutex is an action of its own: threads compete  *)
(* for it.  pthread_mutex_lock on an initialised default mutex does not    *)
(* fail, so the early "return res" is not taken.                           *)
(***************************************************************************)
EXTENDS Integers, FiniteSets

CONSTANTS
  Threads,    \* the dispatch threads that share the lock
  NoThread    \* the owner of a control mutex that is free

ASSUME ThreadsAssumption == IsFiniteSet(Threads) /\ NoThread \notin Threads

VARIABLES
  rc, wc,     \* the counters of rw_mutex_t
  owner,      \* the thread that owns control_mutex
  pc,         \* where each thread is in the four operations
  mode        \* the mode of the call a thread is in

vars == <<rc, wc, owner, pc, mode>>

(***************************************************************************)
(* "enter"   in pthread_mutex_lock of a lock operation                     *)
(* "test"    owns the mutex, at the test of the while loop                 *)
(* "sleep"   in pthread_cond_wait, on the condition variable               *)
(* "woken"   in pthread_cond_wait, taking the mutex again                  *)
(* "hold"    returned from the lock operation                              *)
(* "leave"   in pthread_mutex_lock of an unlock operation                  *)
(* "drop"    owns the mutex, about to decrement and broadcast              *)
(***************************************************************************)
PCs == {"idle", "enter", "test", "sleep", "woken", "hold", "leave", "drop"}

Modes == {"read", "write"}

\* rw_mutex_init does not set the counters; both locks of the server are
\* global objects, so they start at zero.
Init ==
  /\ rc = 0
  /\ wc = 0
  /\ owner = NoThread
  /\ pc = [t \in Threads |-> "idle"]
  /\ mode = [t \in Threads |-> "none"]

\* read_exclusive_lock or write_exclusive_lock is called.
LockCall(t, m) ==
  /\ pc[t] = "idle"
  /\ pc' = [pc EXCEPT ![t] = "enter"]
  /\ mode' = [mode EXCEPT ![t] = m]
  /\ UNCHANGED <<rc, wc, owner>>

\* pthread_mutex_lock returns, at the start of an operation or inside
\* pthread_cond_wait: from there the loop tests its condition again.
TakeControl(t) ==
  /\ pc[t] \in {"enter", "woken", "leave"}
  /\ owner = NoThread
  /\ owner' = t
  /\ pc' = [pc EXCEPT ![t] = IF pc[t] = "leave" THEN "drop" ELSE "test"]
  /\ UNCHANGED <<rc, wc, mode>>

\* Faulty loop conditions: a writer that does not look at rc, and a loop that
\* does not look at wc.
MustWaitForWriters(m) == wc > 0
MustWaitForReaders(m) == m = "write" /\ rc > 0

\* The conditions of the two while loops.
MustWait(m) == wc > 0 \/ (m = "write" /\ rc > 0)

Wait(t) ==
  /\ pc[t] = "test"
  /\ MustWait(mode[t])
  /\ pc' = [pc EXCEPT ![t] = "sleep"]
  /\ owner' = NoThread
  /\ UNCHANGED <<rc, wc, mode>>

\* The loop ends: count the thread in and give the mutex back.
Enter(t) ==
  /\ pc[t] = "test"
  /\ ~ MustWait(mode[t])
  /\ IF mode[t] = "read"
     THEN rc' = rc + 1 /\ UNCHANGED wc
     ELSE wc' = wc + 1 /\ UNCHANGED rc
  /\ pc' = [pc EXCEPT ![t] = "hold"]
  /\ owner' = NoThread
  /\ UNCHANGED mode

\* POSIX lets pthread_cond_wait return without a broadcast.
SpuriousWake(t) ==
  /\ pc[t] = "sleep"
  /\ pc' = [pc EXCEPT ![t] = "woken"]
  /\ UNCHANGED <<rc, wc, owner, mode>>

\* read_exclusive_unlock or write_exclusive_unlock is called.
UnlockCall(t) ==
  /\ pc[t] = "hold"
  /\ pc' = [pc EXCEPT ![t] = "leave"]
  /\ UNCHANGED <<rc, wc, owner, mode>>

\* Faulty: pthread_cond_signal in the place of pthread_cond_broadcast.
SignalOne(p) ==
  IF \E u \in Threads : p[u] = "sleep"
  THEN [p EXCEPT ![CHOOSE u \in Threads : p[u] = "sleep"] = "woken"]
  ELSE p

\* pthread_cond_broadcast: every sleeping thread wakes.
Broadcast(p) == [u \in Threads |-> IF p[u] = "sleep" THEN "woken" ELSE p[u]]

\* Faulty: both unlock operations decrement rc.
DropAsReader(t) ==
  /\ pc[t] = "drop"
  /\ rc' = rc - 1
  /\ pc' = Broadcast([pc EXCEPT ![t] = "idle"])
  /\ mode' = [mode EXCEPT ![t] = "none"]
  /\ owner' = NoThread
  /\ UNCHANGED wc

\* Faulty: only the writer broadcasts.
DropSilentReader(t) ==
  /\ pc[t] = "drop"
  /\ IF mode[t] = "read"
     THEN rc' = rc - 1 /\ UNCHANGED wc
     ELSE wc' = wc - 1 /\ UNCHANGED rc
  /\ LET p == [pc EXCEPT ![t] = "idle"]
     IN  pc' = IF mode[t] = "write" THEN Broadcast(p) ELSE p
  /\ mode' = [mode EXCEPT ![t] = "none"]
  /\ owner' = NoThread

\* read_exclusive_unlock and write_exclusive_unlock, once the mutex is taken.
Drop(t) ==
  /\ pc[t] = "drop"
  /\ IF mode[t] = "read"
     THEN rc' = rc - 1 /\ UNCHANGED wc
     ELSE wc' = wc - 1 /\ UNCHANGED rc
  /\ pc' = Broadcast([pc EXCEPT ![t] = "idle"])
  /\ mode' = [mode EXCEPT ![t] = "none"]
  /\ owner' = NoThread

\* The steps of a thread that is inside an operation or holds the lock.
Step(t) ==
  \/ TakeControl(t)
  \/ Wait(t)
  \/ Enter(t)
  \/ UnlockCall(t)
  \/ Drop(t)

Next ==
  \E t \in Threads :
    \/ \E m \in Modes : LockCall(t, m)
    \/ Step(t)
    \/ SpuriousWake(t)

\* A thread that can run does run, and one that holds the lock gives it back
\* (no path of invoke keeps it).  Nobody has to call, nobody has to wake up
\* by itself, and the mutex is not fair: only weak fairness.
Fairness == \A t \in Threads : WF_vars(Step(t))

Spec == Init /\ [][Next]_vars /\ Fairness

-----------------------------------------------------------------------------
\* The threads counted in rc ("read") or wc ("write").
Inside(m) == {t \in Threads : mode[t] = m /\ pc[t] \in {"hold", "leave", "drop"}}

TypeOK ==
  /\ rc \in Nat
  /\ wc \in Nat
  /\ owner \in Threads \union {NoThread}
  /\ pc \in [Threads -> PCs]
  /\ mode \in [Threads -> Modes \union {"none"}]

(* A writer is alone: while a thread has the lock for writing, no other     *)
(* thread has it in any mode (access_man.h, the comment on rw_mutex_t).     *)
Exclusion ==
  \A t, u \in Threads :
    t # u /\ pc[t] = "hold" /\ pc[u] = "hold" => mode[t] = "read" /\ mode[u] = "read"

(* The counters are exactly the numbers of readers and writers inside, so   *)
(* rc-- and wc-- never take the size_t counters below zero.                 *)
CountersExact ==
  /\ rc = Cardinality(Inside("read"))
  /\ wc = Cardinality(Inside("write"))

(* No wake-up is lost: a thread sleeps on the condition variable only while *)
(* the condition of its own loop is true.  One condition variable serves    *)
(* readers and writers, so every unlock has to wake all of them.            *)
NoLostWakeup == \A t \in Threads : pc[t] = "sleep" => MustWait(mode[t])

(* If from some moment on no thread makes a new call, and no thread wakes   *)
(* by itself any more, every call made until then ends and its lock is      *)
(* given back: nothing is stuck in access_man.c.                            *)
PendingCallsEnd ==
  <>[][\A t \in Threads : ~ SpuriousWake(t) /\ \A m \in Modes : ~ LockCall(t, m)]_vars
    => \A t \in Threads : pc[t] # "idle" ~> pc[t] = "idle"

(* The lock implements the abstract readers/writers lock: a thread wants    *)
(* the lock from its call until it is counted in, and is inside until its   *)
(* counter is decremented.                                                  *)
PhaseOf(p) ==
  CASE p = "idle" -> "out"
    [] p \in {"enter", "test", "sleep", "woken"} -> "want"
    [] OTHER -> "in"

Abstract == INSTANCE RWLock WITH
  phase <- [t \in Threads |-> PhaseOf(pc[t])],
  want  <- mode

ImplementsRWLock == Abstract!Spec
=============================================================================
