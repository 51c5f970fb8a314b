-------------------------- MODULE ServerProcessProofs -------------------------
(***************************************************************************)
(* Proofs about ServerProcess, for every set of connections and any number *)
(* of descriptors and requests: a thread keeps to its connection, nobody   *)
(* is left waiting on a destroyed condition, and what is taken out of the  *)
(* freed table is not sent once stats_mutex is gone.                       *)
(***************************************************************************)
EXTENDS ServerProcess, TableServerProofs, WellFoundedInduction

\* The locks and the table have names of their own.
Things == {"table_mutex", "stats_mutex", "g_table"}

ProcessTypeOK ==
  /\ open \in [Fds -> SUBSET Conns]
  /\ sockfd \in [Conns -> Fds \union {0}]
  /\ waiting \subseteq Conns
  /\ tainted \subseteq Conns
  /\ gone \subseteq Things

\* A descriptor that was handed to a thread stands for its connection until the
\* thread closes it.
HandedOver ==
  \A c \in Conns :
    /\ pc[c] # "unserved" => sockfd[c] # 0
    /\ sockfd[c] # 0 /\ pc[c] \notin {"closed", "left"} => open[sockfd[c]] = {c}

\* Waiting is for a lock.
WaitsForLock == \A c \in waiting : pc[c] \in {"lock", "slock"}

\* The calls of table_skel_destroy in their order, and what they have done.
DestroyedInOrder ==
  /\ todo \in {SkelDestroy, <<"stats_mutex", "g_table">>, <<"g_table">>, <<>>}
  /\ "g_table" \in gone => todo = <<>>
  /\ tainted # {} => "g_table" \in gone

\* A thread that used the freed table cannot get to its answer without
\* stats_mutex.
TaintedStopShort ==
  "stats_mutex" \in gone =>
    \A c \in tainted :
      /\ pc[c] \in {"first", "second", "unlock", "slock", "left"}
      /\ pc[c] # "left" => req[c].op \in Counted

PInv ==
  /\ Basic /\ ProcessTypeOK
  /\ HandedOver
  /\ WaitsForLock /\ NoWaiterLeftBehind
  /\ DestroyedInOrder /\ TaintedStopShort

LEMMA PInvInit == ProcessInit => PInv
<1> SUFFICES ASSUME ProcessInit
             PROVE  PInv
  OBVIOUS
<1>1. Basic
  BY BasicInit DEF ProcessInit
<1>2. ProcessTypeOK /\ HandedOver
  BY DEF ProcessInit, Init, ProcessTypeOK, HandedOver
<1>3. WaitsForLock /\ NoWaiterLeftBehind /\ DestroyedInOrder /\ TaintedStopShort
  BY DEF ProcessInit, WaitsForLock, NoWaiterLeftBehind, DestroyedInOrder, TaintedStopShort
<1> QED
  BY <1>1, <1>2, <1>3 DEF PInv

-----------------------------------------------------------------------------
\* The main thread.

(* accept gives a descriptor that is free.                                  *)
LEMMA MinIsFree == FreeFds # {} => Min(FreeFds) \in FreeFds
<1> SUFFICES ASSUME FreeFds # {}
             PROVE  Min(FreeFds) \in FreeFds
  OBVIOUS
<1>1. FreeFds \subseteq Nat
  BY ProcessAssumption DEF FreeFds, Fds
<1>2. \E x \in FreeFds : \A y \in FreeFds : x <= y
  <2> DEFINE R == OpToRel(<, Nat)
  <2>1. IsWellFoundedOn(R, Nat)
    BY NatLessThanWellFounded
  <2>2. \A x, y \in Nat : <<y, x>> \notin R => x <= y
    BY DEF OpToRel
  <2> HIDE DEF R
  <2>3. \E x \in FreeFds : \A y \in FreeFds : ~ (<<y, x>> \in R)
    BY <1>1, <2>1, WFMin
  <2> QED
    BY <1>1, <2>2, <2>3
<1> QED
  BY <1>2 DEF Min

LEMMA AcceptKeeps ==
  ASSUME PInv, NEW c \in Conns, AcceptConnection(c)
  PROVE  PInv'
<1> DEFINE f == Min(FreeFds)
<1>1. /\ pc[c] = "unserved" /\ \A g \in Fds : c \notin open[g]
      /\ f \in Fds /\ open[f] = {}
      /\ open' = [open EXCEPT ![f] = {c}]
      /\ sockfd' = [sockfd EXCEPT ![c] = f] \/ sockfd' = sockfd
      /\ UNCHANGED <<vars, mainVars, waiting, tainted>>
  BY MinIsFree DEF AcceptConnection, StartWith, FreeFds
<1> HIDE DEF f
<1>2. sockfd[c] = 0
  BY <1>1 DEF PInv, HandedOver, ProcessTypeOK
<1>3. f # 0
  BY <1>1, ProcessAssumption DEF Fds
<1>4. ProcessTypeOK'
  BY <1>1 DEF PInv, ProcessTypeOK, mainVars
<1>5. HandedOver'
  <2> SUFFICES ASSUME NEW d \in Conns
               PROVE  /\ pc[d] # "unserved" => sockfd'[d] # 0
                      /\ sockfd'[d] # 0 /\ pc[d] \notin {"closed", "left"} => open'[sockfd'[d]] = {d}
    BY <1>1 DEF HandedOver, vars, threadVars
  <2>1. CASE d = c
    BY <2>1, <1>1, <1>2, <1>3 DEF PInv, ProcessTypeOK
  <2>2. CASE d # c
    <3>1. sockfd'[d] = sockfd[d] /\ sockfd[d] \in Fds \union {0}
      BY <2>2, <1>1 DEF PInv, ProcessTypeOK
    <3>2. sockfd[d] # 0 /\ pc[d] \notin {"closed", "left"} => sockfd[d] # f
      BY <1>1 DEF PInv, HandedOver
    <3> QED
      BY <3>1, <3>2, <1>1 DEF PInv, HandedOver, ProcessTypeOK
  <2> QED
    BY <2>1, <2>2
<1>6. Basic'
  BY <1>1 DEF PInv, Basic, TypeOK, PlacesFit, Synchronous, Stored, vars, sharedVars, threadVars, clientVars
<1>7. WaitsForLock' /\ NoWaiterLeftBehind' /\ DestroyedInOrder' /\ TaintedStopShort'
  BY <1>1 DEF PInv, WaitsForLock, NoWaiterLeftBehind, DestroyedInOrder, TaintedStopShort, Callers,
              vars, threadVars, clientVars, mainVars
<1> QED
  BY <1>4, <1>5, <1>6, <1>7 DEF PInv

(* Steps that leave the threads and the clients alone.                      *)
LEMMA BasicStutters ==
  ASSUME Basic, up' \in BOOLEAN,
         UNCHANGED <<sharedVars, threadVars, clientVars, executed>>
  PROVE  Basic'
  BY DEF Basic, TypeOK, PlacesFit, Synchronous, Stored, sharedVars, threadVars, clientVars

(* table_skel_destroy frees the table last, so nothing is tainted before.   *)
LEMMA DestroyKeeps ==
  ASSUME PInv, Destroy
  PROVE  PInv'
<1> USE DEF PInv
<1>1. /\ UNCHANGED <<vars, main, listening, open, sockfd, waiting, tainted>>
      /\ todo # <<>> /\ todo' = Tail(todo)
      /\ \/ Head(todo) = "g_table" /\ gone' = gone \union {"g_table"}
         \/ Head(todo) # "g_table" /\ RwMutexDestroy(Head(todo))
  BY DEF Destroy
<1>2. \/ /\ todo = SkelDestroy /\ Head(todo) = "table_mutex" /\ todo' = <<"stats_mutex", "g_table">>
      \/ /\ todo = <<"stats_mutex", "g_table">> /\ Head(todo) = "stats_mutex"
         /\ todo' = <<"g_table">>
      \/ /\ todo = <<"g_table">> /\ Head(todo) = "g_table" /\ todo' = <<>>
  <2>1. CASE todo = SkelDestroy
    BY <2>1, <1>1 DEF SkelDestroy
  <2>2. CASE todo = <<"stats_mutex", "g_table">>
    BY <2>2, <1>1
  <2>3. CASE todo = <<"g_table">>
    BY <2>3, <1>1
  <2> QED
    BY <1>1, <2>1, <2>2, <2>3 DEF DestroyedInOrder
<1>3. /\ gone \subseteq gone' /\ gone' \subseteq gone \union {Head(todo)}
      /\ Head(todo) \in gone' \ (gone \union {"g_table"}) => Callers(Head(todo)) \intersect waiting = {}
  BY <1>1 DEF RwMutexDestroy
<1>4. Basic'
  BY <1>1, BasicStutters DEF vars, Basic, TypeOK
<1>5. ProcessTypeOK' /\ HandedOver' /\ WaitsForLock'
  BY <1>1, <1>2, <1>3 DEF ProcessTypeOK, HandedOver, WaitsForLock, Things, vars, threadVars
<1>6. NoWaiterLeftBehind'
  BY <1>1, <1>3 DEF NoWaiterLeftBehind, Callers, vars, threadVars
<1>7. "g_table" \notin gone /\ tainted = {}
  BY <1>1 DEF DestroyedInOrder
<1>8. DestroyedInOrder' /\ TaintedStopShort'
  BY <1>1, <1>2, <1>3, <1>7 DEF DestroyedInOrder, TaintedStopShort
<1> QED
  BY <1>4, <1>5, <1>6, <1>8

LEMMA OtherMainKeeps ==
  ASSUME PInv, ServerInit \/ AcceptFails \/ Exit
  PROVE  PInv'
<1>1. /\ UNCHANGED <<sharedVars, threadVars, clientVars, executed>>
      /\ UNCHANGED <<todo, gone, open, sockfd, waiting, tainted>>
      /\ up' = up \/ up' = FALSE
  BY DEF ServerInit, AcceptFails, Exit, vars, processVars, mainVars
<1>2. Basic'
  BY <1>1, BasicStutters DEF PInv, Basic, TypeOK
<1> QED
  BY <1>1, <1>2 DEF PInv, ProcessTypeOK, HandedOver, WaitsForLock, NoWaiterLeftBehind,
     DestroyedInOrder, TaintedStopShort, Callers, threadVars, clientVars

-----------------------------------------------------------------------------
\* The threads.  What a step of thread c does to the parts of the invariant
\* follows from where c comes from and where it goes.

(* The sockets: a thread that has started has a descriptor, and none that   *)
(* has ended starts again.                                                  *)
LEMMA SocketsKept ==
  ASSUME PInv, NEW c \in Conns, NEW p, pc' = [pc EXCEPT ![c] = p],
         p # "unserved", sockfd[c] # 0,
         p \in {"closed", "left"} \/ pc[c] \notin {"closed", "left"},
         UNCHANGED <<open, sockfd>>
  PROVE  HandedOver'
  BY DEF PInv, HandedOver, Basic, TypeOK

(* The waiters: a thread that goes somewhere does not wait any more, and    *)
(* where it arrives it does not wait yet.                                   *)
LEMMA WaitersKept ==
  ASSUME PInv, NEW c \in Conns, NEW p, pc' = [pc EXCEPT ![c] = p],
         c \notin waiting', waiting' \subseteq waiting, UNCHANGED gone
  PROVE  WaitsForLock' /\ NoWaiterLeftBehind'
<1>1. \A d \in waiting' : d # c /\ pc'[d] = pc[d] /\ d \in waiting
  BY DEF PInv, ProcessTypeOK, Basic, TypeOK
<1>2. WaitsForLock'
  BY <1>1 DEF PInv, WaitsForLock
<1>3. ASSUME NEW l \in gone \ {"g_table"}
      PROVE  Callers(l)' \intersect waiting' = {}
  <2> SUFFICES ASSUME NEW d \in Callers(l)', d \in waiting'
               PROVE  FALSE
    OBVIOUS
  <2>1. d \in Callers(l)
    BY <1>1 DEF Callers
  <2> QED
    BY <1>1, <2>1 DEF PInv, NoWaiterLeftBehind
<1> QED
  BY <1>2, <1>3 DEF NoWaiterLeftBehind

(* The freed table: a thread that used it stays where it cannot answer.     *)
LEMMA DestructionKept ==
  ASSUME PInv, NEW c \in Conns, NEW p, pc' = [pc EXCEPT ![c] = p],
         "stats_mutex" \in gone /\ c \in tainted =>
           /\ p \in {"first", "second", "unlock", "slock", "left"}
           /\ p # "left" => req[c].op \in Counted,
         UNCHANGED <<req, todo, gone, tainted>>
  PROVE  DestroyedInOrder' /\ TaintedStopShort'
  BY DEF PInv, DestroyedInOrder, TaintedStopShort, Basic, TypeOK, ProcessTypeOK

LEMMA StartsKeeps ==
  ASSUME PInv, NEW c \in Conns, ThreadStarts(c)
  PROVE  PInv'
<1>1. PICK p \in {"receive", "left"} :
        /\ pc[c] = "unserved" /\ pc' = [pc EXCEPT ![c] = p] /\ sockfd[c] # 0
        /\ UNCHANGED <<req, open, sockfd, waiting, tainted, todo, gone>>
  BY DEF ThreadStarts, Accept, Goto, clientVars, processVars, mainVars
<1>2. Basic'
  BY BasicSocket DEF PInv, ThreadStarts
<1>3. c \notin waiting
  BY <1>1 DEF PInv, WaitsForLock
<1>4. HandedOver'
  BY <1>1, SocketsKept
<1>5. WaitsForLock' /\ NoWaiterLeftBehind'
  BY <1>1, <1>3, WaitersKept
<1>6. DestroyedInOrder' /\ TaintedStopShort'
  BY <1>1, DestructionKept DEF PInv, TaintedStopShort
<1>7. ProcessTypeOK'
  BY <1>1 DEF PInv, ProcessTypeOK
<1> QED
  BY <1>2, <1>4, <1>5, <1>6, <1>7 DEF PInv

(* Closing the socket frees the descriptor of this connection and no other. *)
LEMMA OnSocketKeeps ==
  ASSUME PInv, NEW c \in Conns, OnSocket(c) \/ OnSocketFails(c)
  PROVE  PInv'
<1>0. /\ Receive(c) \/ ReceiveNothing(c) \/ ReceiveFails(c) \/ Send(c)
      /\ SocketAfter(c)
  BY DEF OnSocket, OnSocketFails
<1>1. PICK p \in {"receive", "lock", "slock", "send", "left", "spin", "closed"} :
        pc' = [pc EXCEPT ![c] = p]
  BY <1>0, SocketShape DEF PInv
<1>2. /\ pc[c] \in {"receive", "send"} /\ UNCHANGED req
      /\ UNCHANGED <<todo, gone, sockfd, waiting, tainted>>
      /\ open' = IF p = "closed" THEN [open EXCEPT ![sockfd[c]] = {}] ELSE open
  <2>1. pc'[c] = p
    BY <1>1 DEF PInv, Basic, TypeOK
  <2> QED
    BY <1>0, <2>1
       DEF Receive, ReceiveNothing, ReceiveFails, Send, SocketAfter, mainVars, clientVars
<1>3. Basic'
  BY <1>0, BasicSocket DEF PInv
<1>4. c \notin waiting
  BY <1>2 DEF PInv, WaitsForLock
<1>5. sockfd[c] # 0 /\ open[sockfd[c]] = {c}
  BY <1>2 DEF PInv, HandedOver
<1>6. HandedOver'
  <2>1. CASE p # "closed"
    BY <2>1, <1>1, <1>2, <1>5, SocketsKept
  <2>2. CASE p = "closed"
    <3> SUFFICES ASSUME NEW d \in Conns
                 PROVE  /\ pc'[d] # "unserved" => sockfd[d] # 0
                        /\ sockfd[d] # 0 /\ pc'[d] \notin {"closed", "left"} => open'[sockfd[d]] = {d}
      BY <1>2 DEF HandedOver
    <3>1. CASE d = c
      BY <3>1, <2>2, <1>1, <1>5 DEF PInv, Basic, TypeOK
    <3>2. CASE d # c
      <4>1. pc'[d] = pc[d]
        BY <3>2, <1>1 DEF PInv, Basic, TypeOK
      <4>2. sockfd[d] # 0 /\ pc[d] \notin {"closed", "left"} =>
              sockfd[d] # sockfd[c] /\ open[sockfd[d]] = {d}
        BY <3>2, <1>5 DEF PInv, HandedOver
      <4>3. sockfd[d] # 0 => sockfd[d] \in Fds
        BY DEF PInv, ProcessTypeOK
      <4> QED
        BY <4>1, <4>2, <4>3, <2>2, <1>2 DEF PInv, HandedOver, ProcessTypeOK
    <3> QED
      BY <3>1, <3>2
  <2> QED
    BY <2>1, <2>2
<1>7. WaitsForLock' /\ NoWaiterLeftBehind'
  BY <1>1, <1>2, <1>4, WaitersKept
<1>8. DestroyedInOrder' /\ TaintedStopShort'
  BY <1>1, <1>2, DestructionKept DEF PInv, TaintedStopShort
<1>9. ProcessTypeOK'
  BY <1>2, <1>5 DEF PInv, ProcessTypeOK
<1> QED
  BY <1>3, <1>6, <1>7, <1>8, <1>9 DEF PInv

(* pthread_cond_wait is called with a lock that is there.                   *)
LEMMA StartWaitKeeps ==
  ASSUME PInv, NEW c \in Conns, StartWait(c)
  PROVE  PInv'
<1>1. /\ waiting' = waiting \union {c}
      /\ \/ pc[c] = "lock" /\ "table_mutex" \notin gone
         \/ pc[c] = "slock" /\ "stats_mutex" \notin gone
      /\ UNCHANGED <<vars, mainVars, open, sockfd, tainted>>
  BY DEF StartWait
<1>2. Basic'
  BY <1>1, BasicStutters DEF PInv, Basic, TypeOK, vars
<1>3. ProcessTypeOK' /\ HandedOver' /\ WaitsForLock' /\ DestroyedInOrder' /\ TaintedStopShort'
  BY <1>1 DEF PInv, ProcessTypeOK, HandedOver, WaitsForLock, DestroyedInOrder, TaintedStopShort,
              vars, threadVars, clientVars, mainVars
<1>4. ASSUME NEW l \in gone \ {"g_table"}
      PROVE  c \notin Callers(l)
  BY <1>1, <1>4 DEF Callers, PInv, ProcessTypeOK, Things
<1>5. NoWaiterLeftBehind'
  BY <1>1, <1>4 DEF PInv, NoWaiterLeftBehind, Callers, vars, threadVars, mainVars
<1> QED
  BY <1>2, <1>3, <1>5 DEF PInv

LEMMA OnLockKeeps ==
  ASSUME PInv, NEW c \in Conns, OnLock(c)
  PROVE  PInv'
<1>1. /\ \/ "table_mutex" \notin gone /\ (LockTable(c) \/ UnlockTable(c))
         \/ "stats_mutex" \notin gone /\ (LockStats(c) \/ UnlockStats(c))
      /\ waiting' = waiting \ {c}
      /\ UNCHANGED <<todo, gone, open, sockfd, tainted>>
  BY DEF OnLock, mainVars
<1>2. PICK p \in {"first", "slock", "copy1", "load", "send"} :
        /\ pc' = [pc EXCEPT ![c] = p]
        /\ \/ pc[c] = "lock"
           \/ pc[c] = "unlock" /\ p = "slock"
           \/ pc[c] \in {"slock", "sunlock"} /\ "stats_mutex" \notin gone
  BY <1>1 DEF LockTable, UnlockTable, LockStats, UnlockStats, Goto
<1>3. UNCHANGED req
  BY <1>1 DEF LockTable, UnlockTable, LockStats, UnlockStats, clientVars
<1>4. Basic'
  BY <1>1, BasicLock DEF PInv
<1>5. HandedOver'
  BY <1>1, <1>2, SocketsKept DEF PInv, HandedOver
<1>6. WaitsForLock' /\ NoWaiterLeftBehind'
  BY <1>1, <1>2, WaitersKept
<1>7. DestroyedInOrder' /\ TaintedStopShort'
  BY <1>1, <1>2, <1>3, DestructionKept DEF PInv, TaintedStopShort
<1>8. ProcessTypeOK'
  BY <1>1 DEF PInv, ProcessTypeOK
<1> QED
  BY <1>4, <1>5, <1>6, <1>7, <1>8 DEF PInv

(* A thread that finds table_mutex destroyed goes the way of any other.     *)
LEMMA OnDestroyedTableLockKeeps ==
  ASSUME PInv, NEW c \in Conns, OnDestroyedTableLock(c)
  PROVE  PInv'
<1>1. PICK p \in {"first", "slock"} :
        /\ pc' = [pc EXCEPT ![c] = p]
        /\ \/ pc[c] = "lock" /\ p = "first"
           \/ pc[c] = "unlock" /\ p = "slock"
        /\ "table_mutex" \in gone
        /\ UNCHANGED <<up, sharedVars, answer, seen, clientVars, executed, processVars>>
  BY DEF OnDestroyedTableLock, Goto
<1>2. UNCHANGED <<req, todo, gone, open, sockfd, waiting, tainted>>
  BY <1>1 DEF clientVars, processVars, mainVars
<1>3. Basic'
  BY <1>1 DEF PInv, Basic, TypeOK, PlacesFit, Synchronous, Stored, PCs, Quiet, InTableLock,
     sharedVars, clientVars
<1>4. c \notin waiting
  BY <1>1 DEF PInv, NoWaiterLeftBehind, Callers
<1>5. HandedOver'
  BY <1>1, <1>2, SocketsKept DEF PInv, HandedOver
<1>6. WaitsForLock' /\ NoWaiterLeftBehind'
  BY <1>1, <1>2, <1>4, WaitersKept
<1>7. DestroyedInOrder' /\ TaintedStopShort'
  BY <1>1, <1>2, DestructionKept DEF PInv, TaintedStopShort
<1>8. ProcessTypeOK'
  BY <1>2 DEF PInv, ProcessTypeOK
<1> QED
  BY <1>3, <1>5, <1>6, <1>7, <1>8 DEF PInv

(* Without stats_mutex an operation ends without an answer.                 *)
LEMMA OnDestroyedStatsLockKeeps ==
  ASSUME PInv, NEW c \in Conns, OnDestroyedStatsLock(c)
  PROVE  PInv'
<1>1. PICK p \in {"send", "left"} :
        /\ pc' = [pc EXCEPT ![c] = p]
        /\ pc[c] \in {"slock", "sunlock"}
        /\ p = "send" <=> req[c].op = "stats"
        /\ "stats_mutex" \in gone
        /\ UNCHANGED <<up, sharedVars, seen, clientVars, executed, processVars>>
  BY DEF OnDestroyedStatsLock, Goto
<1>2. UNCHANGED <<req, todo, gone, open, sockfd, waiting, tainted>>
  BY <1>1 DEF clientVars, processVars, mainVars
<1>3. Basic'
  BY <1>1 DEF PInv, Basic, TypeOK, PlacesFit, Synchronous, Stored, PCs, Quiet, InTableLock,
     sharedVars, clientVars
<1>4. c \notin waiting
  BY <1>1 DEF PInv, NoWaiterLeftBehind, Callers
<1>5. HandedOver'
  BY <1>1, <1>2, SocketsKept DEF PInv, HandedOver
<1>6. WaitsForLock' /\ NoWaiterLeftBehind'
  BY <1>1, <1>2, <1>4, WaitersKept
<1>7. DestroyedInOrder' /\ TaintedStopShort'
  BY <1>1, <1>2, DestructionKept DEF PInv, TaintedStopShort, Counted
<1>8. ProcessTypeOK'
  BY <1>2 DEF PInv, ProcessTypeOK
<1> QED
  BY <1>3, <1>5, <1>6, <1>7, <1>8 DEF PInv

(* In the table: a thread that taints itself still has the unlock before    *)
(* it, and the statistics.                                                  *)
LEMMA InTableKeeps ==
  ASSUME PInv, NEW c \in Conns, InTable(c)
  PROVE  PInv'
<1>1. /\ pc[c] \in {"first", "second"}
      /\ UNCHANGED <<todo, gone, open, sockfd, waiting>>
  BY DEF InTable, mainVars
<1>2. CASE up' = FALSE /\ UNCHANGED <<sharedVars, threadVars, clientVars, executed, tainted>>
  <2>1. Basic'
    BY <1>2, BasicStutters DEF PInv
  <2> QED
    BY <2>1, <1>1, <1>2 DEF PInv, ProcessTypeOK, HandedOver, WaitsForLock, NoWaiterLeftBehind,
       DestroyedInOrder, TaintedStopShort, Callers, threadVars, clientVars
<1>3. CASE /\ TableStep(c)
           /\ tainted' = IF "g_table" \in gone THEN tainted \union {c} ELSE tainted
  <2>1. PICK p \in {"first", "second", "unlock"} :
          /\ pc' = [pc EXCEPT ![c] = p]
          /\ p = "first" => pc[c] = "first" /\ pc' = pc
    <3>1. pc \in [Conns -> PCs]
      BY DEF PInv, Basic, TypeOK
    <3>2. CASE pc' = pc
      BY <3>1, <3>2, <1>1
    <3>3. CASE \E q \in {"second", "unlock"} : pc' = [pc EXCEPT ![c] = q]
      BY <3>3
    <3> QED
      BY <1>3, <3>2, <3>3, TableStepShape
  <2>2. UNCHANGED req /\ req[c].op \in Counted
    BY <1>1, <1>3, TableStepShape DEF PInv, Basic, PlacesFit, InTableLock
  <2>3. Basic'
    BY <1>3, BasicTable DEF PInv
  <2>4. HandedOver'
    BY <1>1, <2>1, SocketsKept DEF PInv, HandedOver
  <2>5. WaitsForLock' /\ NoWaiterLeftBehind'
    BY <1>1, <2>1, WaitersKept DEF PInv, WaitsForLock
  <2>6. DestroyedInOrder'
    BY <1>1, <1>3 DEF PInv, DestroyedInOrder
  <2>7. TaintedStopShort'
    BY <1>1, <1>3, <2>1, <2>2
       DEF PInv, TaintedStopShort, DestroyedInOrder, Basic, TypeOK, ProcessTypeOK
  <2>8. ProcessTypeOK'
    BY <1>1, <1>3 DEF PInv, ProcessTypeOK
  <2> QED
    BY <2>3, <2>4, <2>5, <2>6, <2>7, <2>8 DEF PInv
<1> QED
  BY <1>2, <1>3 DEF InTable, TableStep

LEMMA InStatsKeeps ==
  ASSUME PInv, NEW c \in Conns, InStats(c)
  PROVE  PInv'
<1>1. StatsStep(c) /\ UNCHANGED <<todo, gone, open, sockfd, waiting, tainted>>
  BY DEF InStats, StatsStep, processVars, mainVars
<1>2. PICK p \in InStatsLock :
        /\ pc' = [pc EXCEPT ![c] = p]
        /\ pc[c] \in {"load", "store", "count", "copy1", "copy2"}
        /\ UNCHANGED req
  BY <1>1, StatsStepShape DEF PInv
<1>3. Basic'
  BY <1>1, BasicStats DEF PInv
<1>4. HandedOver'
  BY <1>1, <1>2, SocketsKept DEF PInv, HandedOver, InStatsLock
<1>5. WaitsForLock' /\ NoWaiterLeftBehind'
  BY <1>1, <1>2, WaitersKept DEF PInv, WaitsForLock
<1>6. DestroyedInOrder' /\ TaintedStopShort'
  BY <1>1, <1>2, DestructionKept DEF PInv, TaintedStopShort
<1>7. ProcessTypeOK'
  BY <1>1 DEF PInv, ProcessTypeOK
<1> QED
  BY <1>3, <1>4, <1>5, <1>6, <1>7 DEF PInv

LEMMA ClientKeeps ==
  ASSUME PInv, NEW c \in Conns, Client(c), UNCHANGED processVars
  PROVE  PInv'
<1>1. /\ pc[c] \notin Quiet => req'[c] = req[c]
      /\ \A d \in Conns \ {c} : req'[d] = req[d]
      /\ UNCHANGED <<pc, todo, gone, open, sockfd, waiting, tainted>>
  BY ClientShape DEF PInv, processVars, mainVars
<1>2. Basic'
  BY BasicClient DEF PInv
<1>3. TaintedStopShort'
  BY <1>1 DEF PInv, TaintedStopShort, ProcessTypeOK, Quiet
<1>4. ProcessTypeOK' /\ HandedOver' /\ WaitsForLock' /\ NoWaiterLeftBehind' /\ DestroyedInOrder'
  BY <1>1 DEF PInv, ProcessTypeOK, HandedOver, WaitsForLock, NoWaiterLeftBehind, DestroyedInOrder,
              Callers
<1> QED
  BY <1>2, <1>3, <1>4 DEF PInv

-----------------------------------------------------------------------------
LEMMA PInvNext == PInv /\ [ProcessNext]_allVars => PInv'
<1> SUFFICES ASSUME PInv, [ProcessNext]_allVars
             PROVE  PInv'
  OBVIOUS
<1>1. CASE Main
  BY <1>1, AcceptKeeps, DestroyKeeps, OtherMainKeeps DEF Main
<1>2. CASE \E c \in Conns : Thread(c) \/ OnSocketFails(c)
  BY <1>2, StartsKeeps, OnSocketKeeps, StartWaitKeeps, OnLockKeeps, OnDestroyedTableLockKeeps,
     OnDestroyedStatsLockKeeps, InTableKeeps, InStatsKeeps DEF Thread
<1>3. CASE \E c \in Conns : Client(c) /\ UNCHANGED processVars
  BY <1>3, ClientKeeps
<1>4. CASE UNCHANGED allVars
  <2>1. Basic'
    BY <1>4, BasicStutters DEF PInv, Basic, TypeOK, allVars, vars
  <2> QED
    BY <2>1, <1>4 DEF PInv, ProcessTypeOK, HandedOver, WaitsForLock, NoWaiterLeftBehind,
       DestroyedInOrder, TaintedStopShort, Callers, allVars, vars, threadVars, clientVars,
       processVars, mainVars
<1> QED
  BY <1>1, <1>2, <1>3, <1>4 DEF ProcessNext

(* table_server.c: the descriptors stand for the connections they were      *)
(* handed out for, and table_skel_destroy gets past a lock only when nobody *)
(* waits for it.                                                            *)
THEOREM ProcessInvariant == ProcessSpec => []PInv
  BY PInvInit, PInvNext, PTL DEF ProcessSpec

(* network_server.c:111-128: a thread keeps to the connection it was made   *)
(* for, whatever descriptors are closed and given out again.                *)
THEOREM ThreadsKeepTheirConnections == ProcessSpec => []OwnConnection
<1>1. PInv => OwnConnection
  BY DEF PInv, HandedOver, ProcessTypeOK, OwnConnection
<1> QED
  BY <1>1, ProcessInvariant, PTL

(* access_man.c:70-79: no condition variable is destroyed under a waiter.   *)
THEOREM NobodyIsLeftWaiting == ProcessSpec => []NoWaiterLeftBehind
  BY ProcessInvariant, PTL DEF PInv

(* table_skel.c:39-43: nothing is answered out of the freed table once      *)
(* stats_mutex is destroyed.                                                *)
THEOREM FreedTableStaysInside == ProcessSpec => []NoAnswerFromFreedTable
<1>1. PInv => NoAnswerFromFreedTable
  BY DEF PInv, TaintedStopShort, NoAnswerFromFreedTable
<1> QED
  BY <1>1, ProcessInvariant, PTL
=============================================================================
