---------------------------- MODULE RWMutexProofs ----------------------------
(***************************************************************************)
(* The safety of the lock of access_man.c for every finite set of threads: *)
(* its types, mutual exclusion, exact counters, no lost wake-up, and that  *)
(* every behaviour of it is a behaviour of the abstract lock RWLock.       *)
(***************************************************************************)
EXTENDS RWMutex, FiniteSetTheorems, TLAPS

\* The owner of the control mutex is the thread that is about to read or
\* write the counters, so at most one is.
OwnerActs == \A t \in Threads : pc[t] \in {"test", "drop"} <=> owner = t

\* A thread has a mode exactly while it is in a call.
ModeFollowsCall == \A t \in Threads : mode[t] = "none" <=> pc[t] = "idle"

\* Exclusion over every place where a thread is counted, not only "hold".
WriterAlone ==
  \A t, u \in Threads :
    t # u /\ t \in Inside("write") => u \notin Inside("read") \union Inside("write")

(***************************************************************************)
(* The inductive invariant.  Exclusion alone is not inductive: Enter reads *)
(* the counters and not the other threads, so they have to be exact, and   *)
(* they stay exact only because a thread that decrements one is counted in *)
(* it.                                                                     *)
(***************************************************************************)
IInv ==
  /\ TypeOK
  /\ OwnerActs
  /\ ModeFollowsCall
  /\ CountersExact
  /\ WriterAlone
  /\ NoLostWakeup

-----------------------------------------------------------------------------
\* The threads inside in one mode are finitely many.
LEMMA InsideFinite ==
  ASSUME NEW m
  PROVE  IsFiniteSet(Inside(m)) /\ Cardinality(Inside(m)) \in Nat
<1>1. Inside(m) \subseteq Threads
  BY DEF Inside
<1>2. IsFiniteSet(Inside(m))
  BY <1>1, ThreadsAssumption, FS_Subset
<1> QED
  BY <1>2, FS_CardinalityType

\* A counter that is exact and zero means that nobody is inside.
LEMMA ZeroMeansEmpty ==
  ASSUME CountersExact
  PROVE  /\ rc = 0 => Inside("read") = {}
         /\ wc = 0 => Inside("write") = {}
  BY InsideFinite, FS_EmptySet DEF CountersExact

\* A counter can be decremented when somebody is inside.
LEMMA InsideMeansPositive ==
  ASSUME NEW m, NEW t \in Inside(m)
  PROVE  Cardinality(Inside(m)) \in Nat \ {0}
  BY InsideFinite, FS_EmptySet

\* One thread more, or one less, inside in mode m.
LEMMA InsideCount ==
  ASSUME NEW m, NEW t
  PROVE  /\ Inside(m)' = Inside(m)
              => Cardinality(Inside(m)') = Cardinality(Inside(m))
         /\ t \notin Inside(m) /\ Inside(m)' = Inside(m) \union {t}
              => Cardinality(Inside(m)') = Cardinality(Inside(m)) + 1
         /\ t \in Inside(m) /\ Inside(m)' = Inside(m) \ {t}
              => Cardinality(Inside(m)') = Cardinality(Inside(m)) - 1
  BY InsideFinite, FS_AddElement, FS_RemoveElement

-----------------------------------------------------------------------------
\* The invariant holds at the start: nobody is inside, both counters are zero.
LEMMA IInvInit == Init => IInv
<1> SUFFICES ASSUME Init PROVE IInv
  OBVIOUS
<1>1. TypeOK /\ OwnerActs /\ ModeFollowsCall
  BY ThreadsAssumption DEF Init, TypeOK, PCs, Modes, OwnerActs, ModeFollowsCall
<1>2. Inside("read") = {} /\ Inside("write") = {}
  BY DEF Init, Inside
<1>3. CountersExact
  BY <1>2, FS_EmptySet DEF Init, CountersExact
<1>4. WriterAlone /\ NoLostWakeup
  BY <1>2 DEF Init, WriterAlone, NoLostWakeup
<1> QED
  BY <1>1, <1>3, <1>4 DEF IInv

\* A step that moves no thread in or out and leaves the counters alone keeps
\* them exact and the writer alone.
LEMMA SameInside ==
  ASSUME CountersExact, WriterAlone, UNCHANGED <<rc, wc>>,
         Inside("read")' = Inside("read"), Inside("write")' = Inside("write")
  PROVE  CountersExact' /\ WriterAlone'
<1>1. CountersExact'
  BY DEF CountersExact
<1>2. WriterAlone'
  BY DEF WriterAlone
<1> QED
  BY <1>1, <1>2

LEMMA LockCallKeeps ==
  ASSUME IInv, NEW t \in Threads, NEW m \in Modes, LockCall(t, m)
  PROVE  IInv'
<1> USE DEF IInv
<1>1. TypeOK' /\ OwnerActs' /\ ModeFollowsCall'
  BY DEF LockCall, TypeOK, OwnerActs, ModeFollowsCall, PCs, Modes
<1>2. /\ Inside("read")' = Inside("read")
      /\ Inside("write")' = Inside("write")
  BY DEF LockCall, Inside, TypeOK, PCs
<1>3. CountersExact' /\ WriterAlone'
  BY <1>2, SameInside DEF LockCall
<1>4. NoLostWakeup'
  BY DEF LockCall, NoLostWakeup, MustWait, TypeOK
<1> QED
  BY <1>1, <1>3, <1>4

LEMMA TakeControlKeeps ==
  ASSUME IInv, NEW t \in Threads, TakeControl(t)
  PROVE  IInv'
<1> USE DEF IInv
<1>1. TypeOK' /\ OwnerActs' /\ ModeFollowsCall'
  BY ThreadsAssumption
  DEF TakeControl, TypeOK, OwnerActs, ModeFollowsCall, PCs, Modes
<1>2. /\ Inside("read")' = Inside("read")
      /\ Inside("write")' = Inside("write")
  BY DEF TakeControl, Inside, TypeOK, PCs
<1>3. CountersExact' /\ WriterAlone'
  BY <1>2, SameInside DEF TakeControl
<1>4. NoLostWakeup'
  BY DEF TakeControl, NoLostWakeup, MustWait, TypeOK
<1> QED
  BY <1>1, <1>3, <1>4

LEMMA WaitKeeps ==
  ASSUME IInv, NEW t \in Threads, Wait(t)
  PROVE  IInv'
<1> USE DEF IInv
<1>1. TypeOK' /\ OwnerActs' /\ ModeFollowsCall'
  BY ThreadsAssumption
  DEF Wait, TypeOK, OwnerActs, ModeFollowsCall, PCs, Modes
<1>2. /\ Inside("read")' = Inside("read")
      /\ Inside("write")' = Inside("write")
  BY DEF Wait, Inside, TypeOK, PCs
<1>3. CountersExact' /\ WriterAlone'
  BY <1>2, SameInside DEF Wait
<1>4. NoLostWakeup'
  BY DEF Wait, NoLostWakeup, MustWait, TypeOK
<1> QED
  BY <1>1, <1>3, <1>4

\* The one step that takes the lock: the loop has just read the counters.
LEMMA EnterKeeps ==
  ASSUME IInv, NEW t \in Threads, Enter(t)
  PROVE  IInv'
<1> USE DEF IInv
<1>1. mode[t] \in Modes /\ pc[t] = "test" /\ owner = t
  BY DEF Enter, OwnerActs, ModeFollowsCall, TypeOK
<1>2. TypeOK' /\ OwnerActs' /\ ModeFollowsCall'
  BY <1>1, ThreadsAssumption
  DEF Enter, TypeOK, OwnerActs, ModeFollowsCall, PCs, Modes
<1>3. NoLostWakeup'
  BY <1>1 DEF Enter, NoLostWakeup, MustWait, TypeOK, Modes
<1>4. wc = 0 /\ Inside("write") = {}
  BY ZeroMeansEmpty DEF Enter, MustWait, TypeOK
<1>5. t \notin Inside("read") /\ t \notin Inside("write")
  BY <1>1 DEF Inside
<1>6. CASE mode[t] = "read"
  <2>1. /\ Inside("read")' = Inside("read") \union {t}
        /\ Inside("write")' = Inside("write")
    BY <1>1, <1>6 DEF Enter, Inside, TypeOK, PCs
  <2>2. CountersExact'
    BY <1>5, <1>6, <2>1, InsideCount DEF Enter, CountersExact
  <2>3. WriterAlone'
    BY <1>4, <2>1 DEF WriterAlone
  <2> QED
    BY <1>2, <1>3, <2>2, <2>3
<1>7. CASE mode[t] = "write"
  <2>1. /\ Inside("write")' = Inside("write") \union {t}
        /\ Inside("read")' = Inside("read")
    BY <1>1, <1>7 DEF Enter, Inside, TypeOK, PCs
  <2>2. rc = 0 /\ Inside("read") = {}
    BY <1>7, ZeroMeansEmpty DEF Enter, MustWait, TypeOK
  <2>3. CountersExact'
    BY <1>5, <1>7, <2>1, InsideCount DEF Enter, CountersExact
  <2>4. WriterAlone'
    BY <1>4, <2>1, <2>2 DEF WriterAlone
  <2> QED
    BY <1>2, <1>3, <2>3, <2>4
<1> QED
  BY <1>1, <1>6, <1>7 DEF Modes

LEMMA SpuriousWakeKeeps ==
  ASSUME IInv, NEW t \in Threads, SpuriousWake(t)
  PROVE  IInv'
<1> USE DEF IInv
<1>1. TypeOK' /\ OwnerActs' /\ ModeFollowsCall'
  BY DEF SpuriousWake, TypeOK, OwnerActs, ModeFollowsCall, PCs, Modes
<1>2. /\ Inside("read")' = Inside("read")
      /\ Inside("write")' = Inside("write")
  BY DEF SpuriousWake, Inside, TypeOK, PCs
<1>3. CountersExact' /\ WriterAlone'
  BY <1>2, SameInside DEF SpuriousWake
<1>4. NoLostWakeup'
  BY DEF SpuriousWake, NoLostWakeup, MustWait, TypeOK
<1> QED
  BY <1>1, <1>3, <1>4

LEMMA UnlockCallKeeps ==
  ASSUME IInv, NEW t \in Threads, UnlockCall(t)
  PROVE  IInv'
<1> USE DEF IInv
<1>1. TypeOK' /\ OwnerActs' /\ ModeFollowsCall'
  BY DEF UnlockCall, TypeOK, OwnerActs, ModeFollowsCall, PCs, Modes
<1>2. /\ Inside("read")' = Inside("read")
      /\ Inside("write")' = Inside("write")
  BY DEF UnlockCall, Inside, TypeOK, PCs
<1>3. CountersExact' /\ WriterAlone'
  BY <1>2, SameInside DEF UnlockCall
<1>4. NoLostWakeup'
  BY DEF UnlockCall, NoLostWakeup, MustWait, TypeOK
<1> QED
  BY <1>1, <1>3, <1>4

\* The one step that gives the lock back; everybody who slept is woken, so no
\* condition has to be re-established for a sleeper.
LEMMA DropKeeps ==
  ASSUME IInv, NEW t \in Threads, Drop(t)
  PROVE  IInv'
<1> USE DEF IInv
<1>1. mode[t] \in Modes /\ pc[t] = "drop" /\ owner = t
  BY DEF Drop, OwnerActs, ModeFollowsCall, TypeOK
<1>2. t \in Inside(mode[t])
  BY <1>1 DEF Inside
<1>3. /\ mode[t] = "read" => rc \in Nat \ {0}
      /\ mode[t] = "write" => wc \in Nat \ {0}
  BY <1>2, InsideMeansPositive DEF CountersExact
<1>4. /\ pc' \in [Threads -> PCs]
      /\ pc'[t] = "idle"
      /\ \A u \in Threads \ {t} :
           pc'[u] = IF pc[u] = "sleep" THEN "woken" ELSE pc[u]
  BY <1>1 DEF Drop, Broadcast, TypeOK, PCs
<1>5. /\ mode' \in [Threads -> Modes \union {"none"}]
      /\ mode'[t] = "none"
      /\ \A u \in Threads \ {t} : mode'[u] = mode[u]
  BY <1>1 DEF Drop, TypeOK
<1>6. rc' \in Nat /\ wc' \in Nat
  BY <1>1, <1>3 DEF Drop, TypeOK, Modes
<1>7. TypeOK'
  BY <1>4, <1>5, <1>6 DEF Drop, TypeOK
<1>8. OwnerActs' /\ ModeFollowsCall'
  BY <1>1, <1>4, <1>5, ThreadsAssumption, ZenonT(30)
  DEF Drop, OwnerActs, ModeFollowsCall
<1>9. NoLostWakeup'
  BY <1>4 DEF NoLostWakeup
<1>10. /\ Inside("read")' = Inside("read") \ {t}
       /\ Inside("write")' = Inside("write") \ {t}
  BY <1>1, <1>4, <1>5 DEF Inside
<1>11. CountersExact'
  <2>1. CASE mode[t] = "read"
    <3>1. t \in Inside("read") /\ Inside("write")' = Inside("write")
      BY <1>2, <1>10, <2>1 DEF Inside
    <3> QED
      BY <1>10, <2>1, <3>1, InsideCount DEF Drop, CountersExact
  <2>2. CASE mode[t] = "write"
    <3>1. t \in Inside("write") /\ Inside("read")' = Inside("read")
      BY <1>2, <1>10, <2>2 DEF Inside
    <3> QED
      BY <1>10, <2>2, <3>1, InsideCount DEF Drop, CountersExact
  <2> QED
    BY <1>1, <2>1, <2>2 DEF Modes
<1>12. WriterAlone'
  BY <1>10 DEF WriterAlone
<1> QED
  BY <1>7, <1>8, <1>9, <1>11, <1>12

LEMMA IInvStep == IInv /\ [Next]_vars => IInv'
<1> SUFFICES ASSUME IInv, [Next]_vars PROVE IInv'
  OBVIOUS
<1>1. CASE UNCHANGED vars
  <2>1. Inside("read")' = Inside("read") /\ Inside("write")' = Inside("write")
    BY <1>1 DEF vars, Inside
  <2>2. CountersExact' /\ WriterAlone'
    BY <1>1, <2>1, SameInside DEF vars, IInv
  <2> QED
    BY <1>1, <2>2
    DEF vars, IInv, TypeOK, OwnerActs, ModeFollowsCall, NoLostWakeup, MustWait
<1>2. CASE Next
  <2>1. PICK t \in Threads :
          (\E m \in Modes : LockCall(t, m)) \/ Step(t) \/ SpuriousWake(t)
    BY <1>2 DEF Next
  <2>2. CASE \E m \in Modes : LockCall(t, m)
    BY <2>2, LockCallKeeps
  <2>3. CASE Step(t)
    BY <2>3, TakeControlKeeps, WaitKeeps, EnterKeeps, UnlockCallKeeps, DropKeeps
    DEF Step
  <2>4. CASE SpuriousWake(t)
    BY <2>4, SpuriousWakeKeeps
  <2> QED
    BY <2>1, <2>2, <2>3, <2>4
<1> QED
  BY <1>1, <1>2

\* The inductive invariant holds in every state of access_man.c.
THEOREM InductiveInvariant == Spec => []IInv
<1>1. Init => IInv
  BY IInvInit
<1>2. IInv /\ [Next]_vars => IInv'
  BY IInvStep
<1> QED
  BY <1>1, <1>2, PTL DEF Spec

\* The counters, the owner and the threads keep their types: in particular
\* the size_t counters of rw_mutex_t never wrap below zero.
THEOREM TypeCorrect == Spec => []TypeOK
<1>1. IInv => TypeOK
  BY DEF IInv
<1> QED
  BY <1>1, InductiveInvariant, PTL

\* A writer that returned from write_exclusive_lock is alone.
THEOREM MutualExclusion == Spec => []Exclusion
<1>1. IInv => Exclusion
  <2> SUFFICES ASSUME IInv, NEW t \in Threads, NEW u \in Threads,
                      t # u, pc[t] = "hold", pc[u] = "hold"
               PROVE  mode[t] = "read" /\ mode[u] = "read"
    BY DEF Exclusion
  <2>1. t \in Inside(mode[t]) /\ u \in Inside(mode[u])
    BY DEF Inside
  <2>2. mode[t] \in Modes /\ mode[u] \in Modes
    BY DEF IInv, ModeFollowsCall, TypeOK
  <2> QED
    BY <2>1, <2>2 DEF IInv, WriterAlone, Modes
<1> QED
  BY <1>1, InductiveInvariant, PTL

\* rc and wc count exactly the readers and the writers inside.
THEOREM CountersAreExact == Spec => []CountersExact
<1>1. IInv => CountersExact
  BY DEF IInv
<1> QED
  BY <1>1, InductiveInvariant, PTL

\* No thread sleeps in pthread_cond_wait once its condition is false.
THEOREM NoWakeupIsLost == Spec => []NoLostWakeup
<1>1. IInv => NoLostWakeup
  BY DEF IInv
<1> QED
  BY <1>1, InductiveInvariant, PTL

-----------------------------------------------------------------------------
\* The mapped lock starts free.
LEMMA RefinesInit == Init => Abstract!Init
  BY DEF Init, Abstract!Init, PhaseOf

\* A step of one thread that changes neither its phase nor any mode is a
\* stuttering step of the abstract lock.
LEMMA Stutters ==
  ASSUME pc \in [Threads -> PCs], pc' \in [Threads -> PCs], UNCHANGED mode,
         \A u \in Threads : PhaseOf(pc'[u]) = PhaseOf(pc[u])
  PROVE  UNCHANGED Abstract!lockVars
  BY DEF Abstract!lockVars

\* A thread that is counted in enters beside compatible threads only.
LEMMA EnterIsGrant ==
  ASSUME IInv, NEW t \in Threads, Enter(t)
  PROVE  Abstract!Grant(t)
<1>1. mode[t] \in Modes /\ pc[t] = "test"
  BY DEF IInv, Enter, ModeFollowsCall, TypeOK
<1>2. Inside("write") = {} /\ (mode[t] = "write" => Inside("read") = {})
  BY ZeroMeansEmpty DEF IInv, Enter, MustWait, TypeOK
<1>3. Abstract!Compatible(t, mode[t])
  <2> SUFFICES ASSUME NEW u \in Threads \ {t}, PhaseOf(pc[u]) = "in"
               PROVE  mode[t] = "read" /\ mode[u] = "read"
    BY DEF Abstract!Compatible
  <2>1. pc[u] \in {"hold", "leave", "drop"}
    BY DEF PhaseOf, IInv, TypeOK, PCs
  <2>2. mode[u] \in Modes /\ u \in Inside(mode[u])
    BY <2>1 DEF IInv, ModeFollowsCall, TypeOK, Inside
  <2> QED
    BY <1>1, <1>2, <2>2 DEF Modes
<1>4. [u \in Threads |-> PhaseOf(pc'[u])]
        = [[u \in Threads |-> PhaseOf(pc[u])] EXCEPT ![t] = "in"]
  BY DEF Enter, IInv, TypeOK, PhaseOf
<1> QED
  BY <1>1, <1>3, <1>4 DEF Abstract!Grant, Enter, PhaseOf

LEMMA LockCallIsRequest ==
  ASSUME IInv, NEW t \in Threads, NEW m \in Modes, LockCall(t, m)
  PROVE  Abstract!Request(t, m)
<1>1. [u \in Threads |-> PhaseOf(pc'[u])]
        = [[u \in Threads |-> PhaseOf(pc[u])] EXCEPT ![t] = "want"]
  BY DEF LockCall, IInv, TypeOK, PhaseOf
<1> QED
  BY <1>1 DEF Abstract!Request, LockCall, PhaseOf

LEMMA DropIsRelease ==
  ASSUME IInv, NEW t \in Threads, Drop(t)
  PROVE  Abstract!Release(t)
<1>1. /\ pc'[t] = "idle"
      /\ \A u \in Threads \ {t} :
           pc'[u] = IF pc[u] = "sleep" THEN "woken" ELSE pc[u]
  BY DEF Drop, Broadcast, IInv, TypeOK, PCs
<1>2. [u \in Threads |-> PhaseOf(pc'[u])]
        = [[u \in Threads |-> PhaseOf(pc[u])] EXCEPT ![t] = "out"]
  BY <1>1 DEF PhaseOf
<1> QED
  BY <1>2 DEF Abstract!Release, Drop, PhaseOf

\* Every step of the lock is a step of the abstract lock or a stutter.
LEMMA RefinesStep ==
  IInv /\ IInv' /\ [Next]_vars => [Abstract!Next]_(Abstract!lockVars)
<1> SUFFICES ASSUME IInv, IInv', [Next]_vars
             PROVE  Abstract!Next \/ UNCHANGED Abstract!lockVars
  OBVIOUS
<1>0. pc \in [Threads -> PCs] /\ pc' \in [Threads -> PCs]
  BY DEF IInv, TypeOK
<1>1. CASE UNCHANGED vars
  BY <1>1 DEF vars, Abstract!lockVars
<1>2. CASE Next
  <2>1. PICK t \in Threads :
          (\E m \in Modes : LockCall(t, m)) \/ Step(t) \/ SpuriousWake(t)
    BY <1>2 DEF Next
  <2>2. CASE \E m \in Modes : LockCall(t, m)
    BY <2>2, LockCallIsRequest DEF Abstract!Next, Abstract!Modes, Modes
  <2>3. CASE TakeControl(t)
    BY <1>0, <2>3, Stutters DEF TakeControl, PhaseOf, PCs
  <2>4. CASE Wait(t)
    BY <1>0, <2>4, Stutters DEF Wait, PhaseOf
  <2>5. CASE Enter(t)
    BY <2>5, EnterIsGrant DEF Abstract!Next
  <2>6. CASE UnlockCall(t)
    BY <1>0, <2>6, Stutters DEF UnlockCall, PhaseOf
  <2>7. CASE Drop(t)
    BY <2>7, DropIsRelease DEF Abstract!Next
  <2>8. CASE SpuriousWake(t)
    BY <1>0, <2>8, Stutters DEF SpuriousWake, PhaseOf
  <2> QED
    BY <2>1, <2>2, <2>3, <2>4, <2>5, <2>6, <2>7, <2>8 DEF Step
<1> QED
  BY <1>1, <1>2

\* The lock of access_man.c implements the abstract readers/writers lock.
THEOREM Refinement == Spec => ImplementsRWLock
<1>1. Init => Abstract!Init
  BY RefinesInit
<1>2. IInv /\ IInv' /\ [Next]_vars => [Abstract!Next]_(Abstract!lockVars)
  BY RefinesStep
<1> QED
  BY <1>1, <1>2, InductiveInvariant, PTL DEF Spec, ImplementsRWLock, Abstract!Spec
=============================================================================
