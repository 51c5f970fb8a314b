---------------------------- MODULE ServerProcess ----------------------------
(***************************************************************************)
(* The server as a process: the main thread (table_server.c), from the     *)
(* listening socket to exit, the descriptors its connections take, and the *)
(* detached threads of TableServer, which run on while main destroys what  *)
(* they use.                                                               *)
(*                                                                         *)
(* External, as glibc has it: accept gives the lowest free descriptor, and *)
(* fails when there is none, or for reasons of the network;                *)
(* pthread_mutex_destroy returns EBUSY while a thread has the mutex or     *)
(* waits on a condition with it; a destroyed mutex can be neither locked   *)
(* nor unlocked (EINVAL); when main returns all threads end.               *)
(***************************************************************************)
EXTENDS TableServer

CONSTANT MaxFds   \* the descriptors left for connections

ASSUME ProcessAssumption == MaxFds \in Nat

Fds == 1 .. MaxFds

VARIABLES
  main,        \* main: "init", in the "accept" loop, or to "destroy"
  listening,   \* there is a listening socket
  open,        \* open[f]: the connections descriptor f stands for: one, or none
  sockfd,      \* sockfd[c]: *args for the thread of c, then its local; 0: none
  todo,        \* what table_skel_destroy has still to destroy
  gone,        \* what it has destroyed
  waiting,     \* the threads in pthread_cond_wait
  tainted      \* history: the threads that used the table after it was freed

mainVars    == <<main, listening, todo, gone>>
processVars == <<mainVars, open, sockfd, waiting, tainted>>
allVars     == <<vars, processVars>>

\* Faulty: the table is freed between the two locks.
SkelDestroyMixed == <<"table_mutex", "g_table", "stats_mutex">>

\* table_skel_destroy.
SkelDestroy == <<"table_mutex", "stats_mutex", "g_table">>

ProcessInit ==
  /\ Init
  /\ main = "init" /\ listening = FALSE
  /\ todo = SkelDestroy /\ gone = {}
  /\ open = [f \in Fds |-> {}]
  /\ sockfd = [c \in Conns |-> 0]
  /\ waiting = {} /\ tainted = {}

-----------------------------------------------------------------------------
\* The main thread.

\* network_server_init: -1 when a call fails, and main goes on with it.
ServerInit ==
  /\ main = "init"
  /\ main' = "accept"
  /\ listening' \in BOOLEAN
  /\ UNCHANGED <<vars, todo, gone, open, sockfd, waiting, tainted>>

FreeFds == {f \in Fds : open[f] = {}}

\* Faulty: all threads get the address of one variable.
StartWithShared(c, f) ==
  [d \in Conns |-> IF d = c \/ (pc[d] = "unserved" /\ sockfd[d] # 0) THEN f ELSE sockfd[d]]

\* Each thread gets a cell of its own with the descriptor.
StartWith(c, f) == [sockfd EXCEPT ![c] = f]

\* accept, malloc and pthread_create.  When one of the last two fails the loop
\* goes on, and the descriptor stays open.
AcceptConnection(c) ==
  /\ main = "accept" /\ listening
  /\ pc[c] = "unserved" /\ \A f \in Fds : c \notin open[f]
  /\ FreeFds # {}
  /\ LET f == Min(FreeFds)
     IN  /\ open' = [open EXCEPT ![f] = {c}]
         /\ sockfd' \in {StartWith(c, f), sockfd}
  /\ UNCHANGED <<vars, mainVars, waiting, tainted>>

\* accept returns -1: no descriptor is left, there is no listening socket, or
\* the network fails.  main closes the listening socket.
AcceptFails ==
  /\ main = "accept"
  /\ main' = "destroy"
  /\ listening' = FALSE
  /\ UNCHANGED <<vars, todo, gone, open, sockfd, waiting, tainted>>

\* The threads that may have the control mutex of a lock, and those that wait
\* on its condition with it.
Callers(l) ==
  {c \in Conns : pc[c] \in IF l = "table_mutex" THEN {"lock", "unlock"} ELSE {"slock", "sunlock"}}

\* Faulty: the result of pthread_mutex_destroy is not looked at.
RwMutexDestroyAnyway(l) == gone' = gone \union {l}

\* rw_mutex_destroy.  After EBUSY it leaves the condition alone as well, and
\* the lock goes on working.
RwMutexDestroy(l) ==
  \/ Callers(l) # {} /\ gone' = gone
  \/ Callers(l) \intersect waiting = {} /\ gone' = gone \union {l}

Destroy ==
  /\ main = "destroy" /\ todo # <<>>
  /\ IF Head(todo) = "g_table" THEN gone' = gone \union {"g_table"}
     ELSE RwMutexDestroy(Head(todo))
  /\ todo' = Tail(todo)
  /\ UNCHANGED <<vars, main, listening, open, sockfd, waiting, tainted>>

\* main returns, or calls exit.
Exit ==
  /\ main = "destroy" /\ todo = <<>>
  /\ up' = FALSE
  /\ UNCHANGED <<sharedVars, threadVars, clientVars, executed, processVars>>

-----------------------------------------------------------------------------
\* The threads.

\* dispatch_thread detaches itself, then reads and frees its argument; when
\* pthread_detach fails it ends at once, and the descriptor stays open.
ThreadStarts(c) ==
  /\ sockfd[c] # 0
  /\ Accept(c)
  /\ UNCHANGED processVars

\* Receiving and sending close the socket when they fail.
SocketAfter(c) ==
  /\ open' = IF pc'[c] = "closed" THEN [open EXCEPT ![sockfd[c]] = {}] ELSE open
  /\ UNCHANGED <<mainVars, sockfd, waiting, tainted>>

OnSocket(c) == (Receive(c) \/ ReceiveNothing(c) \/ Send(c)) /\ SocketAfter(c)

\* For want of memory.
OnSocketFails(c) == ReceiveFails(c) /\ SocketAfter(c)

\* The lock is held by others: pthread_cond_wait.
StartWait(c) ==
  /\ c \notin waiting
  /\ \/ /\ pc[c] = "lock" /\ "table_mutex" \notin gone
        /\ ~ Compatible(tableLock, c, TableMode(req[c]))
     \/ /\ pc[c] = "slock" /\ "stats_mutex" \notin gone
        /\ ~ Compatible(statsLock, c, StatsMode(req[c]))
  /\ waiting' = waiting \union {c}
  /\ UNCHANGED <<vars, mainVars, open, sockfd, tainted>>

OnLock(c) ==
  /\ \/ "table_mutex" \notin gone /\ (LockTable(c) \/ UnlockTable(c))
     \/ "stats_mutex" \notin gone /\ (LockStats(c) \/ UnlockStats(c))
  /\ waiting' = waiting \ {c}
  /\ UNCHANGED <<mainVars, open, sockfd, tainted>>

\* What the calls of table_mutex return is not looked at: the thread goes into
\* the table without the lock, and out of it without giving it back.
OnDestroyedTableLock(c) ==
  /\ "table_mutex" \in gone
  /\ \/ pc[c] = "lock" /\ Goto(c, "first")
     \/ pc[c] = "unlock" /\ Goto(c, "slock")
  /\ UNCHANGED <<up, sharedVars, answer, seen, clientVars, executed, processVars>>

\* What the calls of stats_mutex return is: OP_STATS is answered with an error,
\* any other operation makes invoke return -1, and the thread end.
OnDestroyedStatsLock(c) ==
  /\ "stats_mutex" \in gone
  /\ pc[c] \in {"slock", "sunlock"}
  /\ IF req[c].op = "stats"
     THEN Goto(c, "send") /\ answer' = [answer EXCEPT ![c] = Refused]
     ELSE Goto(c, "left") /\ UNCHANGED answer
  /\ UNCHANGED <<up, sharedVars, seen, clientVars, executed, processVars>>

\* In the table.  When it has been freed the thread reads whatever is there,
\* or ends the process.
InTable(c) ==
  /\ pc[c] \in {"first", "second"}
  /\ \/ /\ \/ SizeOp(c) \/ DelOp(c) \/ GetOp(c) \/ PutOp(c) \/ PutStore(c)
           \/ Measure(c) \/ Fill(c)
        /\ tainted' = IF "g_table" \in gone THEN tainted \union {c} ELSE tainted
     \/ /\ "g_table" \in gone
        /\ up' = FALSE
        /\ UNCHANGED <<sharedVars, threadVars, clientVars, executed, tainted>>
  /\ UNCHANGED <<mainVars, open, sockfd, waiting>>

InStats(c) ==
  /\ LoadTotal(c) \/ StoreTotal(c) \/ CountOp(c) \/ CopyTotal(c) \/ CopyCounters(c)
  /\ UNCHANGED processVars

Main == ServerInit \/ (\E c \in Conns : AcceptConnection(c)) \/ AcceptFails \/ Destroy \/ Exit

Thread(c) ==
  \/ ThreadStarts(c)
  \/ OnSocket(c)
  \/ StartWait(c) \/ OnLock(c) \/ OnDestroyedTableLock(c) \/ OnDestroyedStatsLock(c)
  \/ InTable(c) \/ InStats(c)

\* A client can connect, and ask, once the server listens.
ProcessNext ==
  \/ up /\ Main
  \/ \E c \in Conns : up /\ (Thread(c) \/ OnSocketFails(c))
  \/ \E c \in Conns : main # "init" /\ Client(c) /\ UNCHANGED processVars

\* A thread that has been created runs, and main runs to its end once accept
\* has failed.  Nothing says that accept returns, or that memory fails.
ProcessSpec ==
  /\ ProcessInit /\ [][ProcessNext]_allVars
  /\ \A c \in Conns : WF_allVars(up /\ Thread(c))
  /\ WF_allVars(up /\ (Destroy \/ Exit))

-----------------------------------------------------------------------------
(* network_server.c:111-128, 37: a thread reads and writes the connection it *)
(* was created for and no other: the descriptor it was given is open, and    *)
(* stands for that connection, from its start until it ends, however often   *)
(* others are closed and given out again.                                    *)
OwnConnection ==
  \A c \in Conns :
    pc[c] \notin {"unserved", "closed", "left"} =>
      sockfd[c] \in Fds /\ open[sockfd[c]] = {c}

(* access_man.c:70-79 under running threads: nobody waits on a condition     *)
(* variable that has been destroyed.  pthread_cond_destroy would wait for    *)
(* them, and main would never end.                                           *)
NoWaiterLeftBehind ==
  \A l \in gone \ {"g_table"} : Callers(l) \intersect waiting = {}

(* table_skel.c:39-43: threads do use the table after it was freed; but the  *)
(* order of the three calls keeps what they made of it from the clients:     *)
(* stats_mutex is destroyed before, so the operation cannot be counted and   *)
(* its thread ends without an answer.  Not so when a thread had stats_mutex  *)
(* at that moment.                                                           *)
NoAnswerFromFreedTable ==
  "stats_mutex" \in gone => \A c \in tainted : pc[c] # "send"
=============================================================================
