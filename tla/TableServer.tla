----------------------------- MODULE TableServer -----------------------------
(***************************************************************************)
(* The server: network_main_loop accepts connections, a dispatch_thread    *)
(* per connection receives a request, runs it with invoke (table_skel.c)   *)
(* and sends the answer.  All threads share the table, under table_mutex,  *)
(* and the statistics, under stats_mutex.                                  *)
(*                                                                         *)
(* The two locks are the abstract lock RWLock, which RWMutex implements;   *)
(* the table is the map that HashTable implements as long as no tail was   *)
(* stale.  What invoke does to shared memory between two accesses of       *)
(* another thread is one action.  A client is synchronous: it sends a      *)
(* request and waits.                                                      *)
(***************************************************************************)
EXTENDS TableOps, Integers, FiniteSetsExt, SequencesExt

CONSTANTS
  Conns,        \* the connections, one client and one thread for each
  Freed,        \* what is behind an entry whose data_t has been freed
  Asks,         \* the requests clients send
  MaxRequests   \* bound: the requests all clients send together

StatsRequest == [op |-> "stats"]
BadRequest   == [op |-> "bad"]      \* an opcode that invoke does not know

ASSUME ServerAssumption ==
  /\ Freed \notin Values \union {Absent}
  /\ Asks \subseteq Requests \union {StatsRequest, BadRequest}
  /\ MaxRequests \in Nat \ {0}

VARIABLES
  up,           \* the process is running
  table,        \* g_table
  tableLock,    \* tableLock[c]: the mode in which thread c holds table_mutex
  stats,        \* the global struct statistics, without the average
  statsLock,    \* the same for stats_mutex
  pc,           \* where thread c is
  req,          \* req[c]: the message the client of c sent last
  answer,       \* answer[c]: what invoke has put into the message
  seen,         \* seen[c]: the locals of thread c, read from shared memory: the
                \* total of the statistics, and the entries a buffer is sized for
  client,       \* "idle", "waiting" for an answer, or "gone" from the connection
  net,          \* what is in the socket: "empty", "request" or "reply"
  asked,        \* the number of requests sent
  executed      \* history: executed[c][op], the operations c has executed

sharedVars == <<table, tableLock, stats, statsLock>>
threadVars == <<pc, answer, seen>>
clientVars == <<req, client, net, asked>>
vars == <<up, sharedVars, threadVars, clientVars, executed>>

\* The operations with a counter: opcodes 10 to 60 (invoke does not count 70).
Counted == {"size", "del", "get", "put", "keys", "print"}

(***************************************************************************)
(* "unserved"  the connection has no thread (yet, or ever)                 *)
(* "receive"   in network_receive                                          *)
(* "lock"      waits for table_mutex        "slock" for stats_mutex        *)
(* "first", "second"   inside table_mutex; "unlock" gives it back          *)
(* "load", "store", "count"   update_stats; "copy1", "copy2" the memcpy of *)
(*             OP_STATS; "sunlock" gives stats_mutex back                  *)
(* "send"      in network_send                                             *)
(* "closed"    ended, the socket closed                                    *)
(* "left"      ended, the socket still open                                *)
(* "spin"      in read_all for ever: read returns 0 and never the size     *)
(***************************************************************************)
PCs == {"unserved", "receive", "lock", "first", "second", "unlock", "slock",
        "load", "store", "count", "copy1", "copy2", "sunlock", "send",
        "closed", "left", "spin"}

\* What a pass over the table finds.
Entries(t) == {<<k, t[k]>> : k \in Stored(t)}

NothingSeen == [total |-> 0, entries |-> {}]

Init ==
  /\ up = TRUE
  /\ table = Empty
  /\ tableLock = [c \in Conns |-> "none"]
  /\ stats = [total |-> 0, counter |-> [o \in Counted |-> 0]]
  /\ statsLock = [c \in Conns |-> "none"]
  /\ pc = [c \in Conns |-> "unserved"]
  /\ req = [c \in Conns |-> BadRequest]
  /\ answer = [c \in Conns |-> <<>>]
  /\ seen = [c \in Conns |-> NothingSeen]
  /\ client = [c \in Conns |-> "idle"]
  /\ net = [c \in Conns |-> "empty"]
  /\ asked = 0
  /\ executed = [c \in Conns |-> [o \in Counted |-> 0]]

Goto(c, p) == pc' = [pc EXCEPT ![c] = p]

\* The locals of thread c are not used any more.
Forget(c) == seen' = [seen EXCEPT ![c] = NothingSeen]

\* The answer OP_ERROR.
Refused == [ok |-> FALSE]

-----------------------------------------------------------------------------
\* The clients.

Ask(c, r) ==
  /\ client[c] = "idle" /\ asked < MaxRequests
  /\ req' = [req EXCEPT ![c] = r]
  /\ client' = [client EXCEPT ![c] = "waiting"]
  /\ net' = [net EXCEPT ![c] = "request"]
  /\ asked' = asked + 1
  /\ UNCHANGED <<up, sharedVars, threadVars, executed>>

TakeReply(c) ==
  /\ client[c] = "waiting" /\ net[c] = "reply"
  /\ client' = [client EXCEPT ![c] = "idle"]
  /\ net' = [net EXCEPT ![c] = "empty"]
  /\ UNCHANGED <<up, sharedVars, threadVars, req, asked, executed>>

\* The client quits, dies while it waits, or finds the connection broken or
\* closed and uses it no more.  A request already sent may still be read by
\* the server.
Quit(c) ==
  /\ client[c] # "gone"
  /\ client' = [client EXCEPT ![c] = "gone"]
  /\ net' = [net EXCEPT ![c] = IF @ = "reply" THEN "empty" ELSE @]
  /\ UNCHANGED <<up, sharedVars, threadVars, req, asked, executed>>

-----------------------------------------------------------------------------
\* network_main_loop and the ends of dispatch_thread.

\* accept, malloc and pthread_create; without them network_main_loop goes on
\* to the next connection.  An unserved one is never looked at again, nor is
\* one whose thread pthread_detach fails for.
Accept(c) ==
  /\ pc[c] = "unserved"
  /\ \E p \in {"receive", "left"} : Goto(c, p)
  /\ UNCHANGED <<up, sharedVars, answer, seen, clientVars, executed>>

\* network_receive of a request, and the choice of the branch in invoke.
\* OP_STATS needs memory for its answer before it takes the lock; without it
\* the answer is an error.
Receive(c) ==
  /\ pc[c] = "receive" /\ net[c] = "request"
  /\ net' = [net EXCEPT ![c] = "empty"]
  /\ \/ /\ Goto(c, CASE req[c].op = "bad"   -> "left"
                     [] req[c].op = "stats" -> "slock"
                     [] OTHER               -> "lock")
        /\ UNCHANGED answer
     \/ /\ req[c].op = "stats"
        /\ Goto(c, "send")
        /\ answer' = [answer EXCEPT ![c] = Refused]
  /\ UNCHANGED <<up, sharedVars, seen, req, client, asked, executed>>

\* network_receive fails with the client there: for want of memory in
\* read_all it closes the socket, for want of memory in message_t__unpack it
\* does not.  Nobody reads what is in the socket then, or was.
ReceiveFails(c) ==
  /\ pc[c] = "receive"
  /\ \E p \in {"closed", "left"} : Goto(c, p)
  /\ UNCHANGED <<up, sharedVars, answer, seen, clientVars, executed>>

\* network_receive of a connection the client has closed.  read_all does not
\* look at what the read of the size returned: the size is whatever malloc
\* left.  With zero the message is empty and its opcode bad; with another
\* size the read of the rest returns 0 for ever, or -1 after a reset.
ReceiveNothing(c) ==
  /\ pc[c] = "receive" /\ net[c] = "empty" /\ client[c] = "gone"
  /\ \E p \in {"left", "spin", "closed"} : Goto(c, p)
  /\ UNCHANGED <<up, sharedVars, answer, seen, clientVars, executed>>

\* network_send.  Without memory for the answer, or when the write fails, the
\* socket is closed and the thread ends: the client gets no answer.  The write
\* to a client that is gone may also succeed.
Send(c) ==
  /\ pc[c] = "send"
  /\ \/ /\ net' = [net EXCEPT ![c] = IF client[c] = "waiting" THEN "reply" ELSE @]
        /\ Goto(c, "receive")
     \/ /\ Goto(c, "closed")
        /\ UNCHANGED net
  /\ UNCHANGED <<up, sharedVars, answer, seen, req, client, asked, executed>>

-----------------------------------------------------------------------------
\* The locks.

\* The mode m can be granted to c (RWLock!Grant).
Compatible(lock, c, m) ==
  \A d \in Conns \ {c} : lock[d] # "none" => m = "read" /\ lock[d] = "read"

\* Faulty: PUT takes the lock for reading.
TableModePutReads(r) == IF r.op = "del" THEN "write" ELSE "read"

\* The mode in which each branch of invoke takes table_mutex.
TableMode(r) == IF r.op \in {"del", "put"} THEN "write" ELSE "read"

LockTable(c) ==
  /\ pc[c] = "lock"
  /\ Compatible(tableLock, c, TableMode(req[c]))
  /\ tableLock' = [tableLock EXCEPT ![c] = TableMode(req[c])]
  /\ Goto(c, "first")
  /\ UNCHANGED <<up, table, stats, statsLock, answer, seen, clientVars, executed>>

\* Faulty: a DEL that found nothing returns with the lock.
UnlockTableOrLeak(c) ==
  /\ pc[c] = "unlock"
  /\ tableLock' = [tableLock EXCEPT ![c] =
                     IF answer[c] = Refused THEN @ ELSE "none"]
  /\ Goto(c, "slock")
  /\ UNCHANGED <<up, table, stats, statsLock, answer, seen, clientVars, executed>>

UnlockTable(c) ==
  /\ pc[c] = "unlock"
  /\ tableLock' = [tableLock EXCEPT ![c] = "none"]
  /\ Goto(c, "slock")
  /\ UNCHANGED <<up, table, stats, statsLock, answer, seen, clientVars, executed>>

\* Faulty: update_stats under the lock for readers.
StatsModeReads(r) == "read"

StatsMode(r) == IF r.op = "stats" THEN "read" ELSE "write"

LockStats(c) ==
  /\ pc[c] = "slock"
  /\ Compatible(statsLock, c, StatsMode(req[c]))
  /\ statsLock' = [statsLock EXCEPT ![c] = StatsMode(req[c])]
  /\ Goto(c, IF req[c].op = "stats" THEN "copy1" ELSE "load")
  /\ UNCHANGED <<up, table, tableLock, stats, answer, seen, clientVars, executed>>

UnlockStats(c) ==
  /\ pc[c] = "sunlock"
  /\ statsLock' = [statsLock EXCEPT ![c] = "none"]
  /\ Goto(c, "send")
  /\ UNCHANGED <<up, table, tableLock, stats, answer, seen, clientVars, executed>>

-----------------------------------------------------------------------------
\* The branches of invoke, inside table_mutex.

\* Thread c is at its first (second) step of operation o.
At(c, p, o) == pc[c] = p /\ req[c].op = o

\* The operation of c is done: its answer, and on to the unlock.
Finish(c, a) ==
  /\ answer' = [answer EXCEPT ![c] = a]
  /\ Goto(c, "unlock")
  /\ executed' = [executed EXCEPT ![c][req[c].op] = @ + 1]

\* table_size; the low byte alone is written into the message.
SizeOp(c) ==
  /\ At(c, "first", "size")
  /\ Finish(c, [size |-> Cardinality(Stored(table)) % 256])
  /\ UNCHANGED <<up, sharedVars, seen, clientVars>>

DelOp(c) ==
  /\ At(c, "first", "del")
  /\ table' = [table EXCEPT ![req[c].key] = Absent]
  /\ Finish(c, [ok |-> table[req[c].key] # Absent])
  /\ UNCHANGED <<up, tableLock, stats, statsLock, seen, clientVars>>

GetOp(c) ==
  /\ At(c, "first", "get")
  /\ Finish(c, [data |-> IF table[req[c].key] = Absent THEN NoData
                         ELSE table[req[c].key]])
  /\ UNCHANGED <<up, sharedVars, seen, clientVars>>

\* table_put of a new key stores the entry.  Of an old one it frees the data
\* first; nothing after that can fail.
PutOp(c) ==
  /\ At(c, "first", "put")
  /\ \/ /\ table[req[c].key] = Absent
        /\ table' = [table EXCEPT ![req[c].key] = req[c].val]
        /\ Finish(c, [ok |-> TRUE])
     \/ /\ table[req[c].key] # Absent
        /\ table' = [table EXCEPT ![req[c].key] = Freed]
        /\ Goto(c, "second")
        /\ UNCHANGED <<answer, executed>>
  /\ UNCHANGED <<up, tableLock, stats, statsLock, seen, clientVars>>

PutStore(c) ==
  /\ At(c, "second", "put")
  /\ table' = [table EXCEPT ![req[c].key] = req[c].val]
  /\ Finish(c, [ok |-> TRUE])
  /\ UNCHANGED <<up, tableLock, stats, statsLock, seen, clientVars>>

\* table_get_keys and table_to_string go over the table twice: to size the
\* buffer, then to fill it.  table_to_string reads every data_t, NULL or not.
Measure(c) ==
  /\ pc[c] = "first" /\ req[c].op \in {"keys", "print"}
  /\ IF req[c].op = "print" /\ \E k \in Keys : table[k] = NoData
     THEN up' = FALSE /\ UNCHANGED <<seen, pc>>
     ELSE /\ seen' = [seen EXCEPT ![c].entries = Entries(table)]
          /\ Goto(c, "second")
          /\ UNCHANGED up
  /\ UNCHANGED <<sharedVars, answer, clientVars, executed>>

Fill(c) ==
  /\ pc[c] = "second" /\ req[c].op \in {"keys", "print"}
  /\ Finish(c, IF req[c].op = "keys"
               THEN [keys |-> SetToSeq(Stored(table))]
               ELSE [text |-> Entries(table)])
  /\ Forget(c)
  /\ UNCHANGED <<up, sharedVars, clientVars>>

-----------------------------------------------------------------------------
\* The statistics, inside stats_mutex.

LoadTotal(c) ==
  /\ pc[c] = "load"
  /\ seen' = [seen EXCEPT ![c].total = stats.total]
  /\ Goto(c, "store")
  /\ UNCHANGED <<up, sharedVars, answer, clientVars, executed>>

\* Faulty: the total goes down.
StoreTotalDown(c) ==
  /\ pc[c] = "store"
  /\ stats' = [stats EXCEPT !.total = seen[c].total - 1]
  /\ Goto(c, "count")
  /\ Forget(c)
  /\ UNCHANGED <<up, table, tableLock, statsLock, answer, clientVars, executed>>

StoreTotal(c) ==
  /\ pc[c] = "store"
  /\ stats' = [stats EXCEPT !.total = seen[c].total + 1]
  /\ Goto(c, "count")
  /\ Forget(c)
  /\ UNCHANGED <<up, table, tableLock, statsLock, answer, clientVars, executed>>

CountOp(c) ==
  /\ pc[c] = "count"
  /\ stats' = [stats EXCEPT !.counter[req[c].op] = @ + 1]
  /\ Goto(c, "sunlock")
  /\ UNCHANGED <<up, table, tableLock, statsLock, answer, seen, clientVars, executed>>

\* OP_STATS with its memory (Receive): the memcpy of the structure.
CopyTotal(c) ==
  /\ pc[c] = "copy1"
  /\ seen' = [seen EXCEPT ![c].total = stats.total]
  /\ Goto(c, "copy2")
  /\ UNCHANGED <<up, sharedVars, answer, clientVars, executed>>

CopyCounters(c) ==
  /\ pc[c] = "copy2"
  /\ answer' = [answer EXCEPT ![c] = [total |-> seen[c].total, counter |-> stats.counter]]
  /\ Goto(c, "sunlock")
  /\ Forget(c)
  /\ UNCHANGED <<up, sharedVars, clientVars, executed>>

-----------------------------------------------------------------------------
\* The steps of a thread from the receipt of a request to its answer.
Serve(c) ==
  \/ Receive(c)
  \/ LockTable(c) \/ UnlockTable(c) \/ LockStats(c) \/ UnlockStats(c)
  \/ SizeOp(c) \/ DelOp(c) \/ GetOp(c) \/ PutOp(c) \/ PutStore(c)
  \/ Measure(c) \/ Fill(c)
  \/ LoadTotal(c) \/ StoreTotal(c) \/ CountOp(c)
  \/ CopyTotal(c) \/ CopyCounters(c)
  \/ Send(c)

Client(c) == TakeReply(c) \/ Quit(c) \/ \E r \in Asks : Ask(c, r)

Next ==
  \E c \in Conns :
    \/ up /\ (Accept(c) \/ ReceiveNothing(c) \/ ReceiveFails(c) \/ Serve(c))
    \/ Client(c)

\* A thread that can run runs.  Weak fairness lets a writer starve while
\* readers overlap for ever, as the locks do.  Nothing says that a connection
\* gets a thread, that memory fails or does not, or that a client asks, stays
\* or leaves.
Fairness == \A c \in Conns : WF_vars(up /\ Serve(c))

Spec == Init /\ [][Next]_vars /\ Fairness

-----------------------------------------------------------------------------
TypeOK ==
  /\ up \in BOOLEAN
  /\ table \in [Keys -> Values \union {Absent, Freed}]
  /\ tableLock \in [Conns -> {"none", "read", "write"}]
  /\ stats \in [total : Nat, counter : [Counted -> Nat]]
  /\ statsLock \in [Conns -> {"none", "read", "write"}]
  /\ pc \in [Conns -> PCs]
  /\ req \in [Conns -> Requests \union {StatsRequest, BadRequest}]
  /\ seen \in [Conns -> [total : Nat, entries : SUBSET (Keys \X (Values \union {Freed}))]]
  /\ client \in [Conns -> {"idle", "waiting", "gone"}]
  /\ net \in [Conns -> {"empty", "request", "reply"}]
  /\ asked \in 0 .. MaxRequests
  /\ executed \in [Conns -> [Counted -> Nat]]

(* No thread looks at data that another one has freed: while table_put has  *)
(* destroyed the old data_t and not yet stored the new one, no other thread *)
(* is inside the table.                                                     *)
NoFreedRead ==
  \A k \in Keys : table[k] = Freed =>
    \E c \in Conns :
      /\ At(c, "second", "put") /\ req[c].key = k
      /\ \A d \in Conns \ {c} : pc[d] \notin {"first", "second", "unlock"}

(* The two passes of GETKEYS and PRINT find the same entries, the same keys *)
(* with the same data: the second one stays inside the buffer the first one *)
(* measured.  The numbers of entries alone would not do, a key or its data  *)
(* may be longer than those they replace.                                   *)
SecondPassFits ==
  \A c \in Conns :
    pc[c] = "second" /\ req[c].op \in {"keys", "print"} =>
      seen[c].entries = Entries(table)

(* A thread that waits for a message, ended, or loops for ever in read_all  *)
(* holds no lock: a client that stays away or leaves blocks nobody else.    *)
NoLockLeak ==
  \A c \in Conns :
    pc[c] \in {"unserved", "receive", "lock", "send", "closed", "left", "spin"} =>
      tableLock[c] = "none" /\ statsLock[c] = "none"

(* The threads use both locks as RWLock has it: none asks for a lock it     *)
(* holds (that would block it on itself), waits in one mode and is counted  *)
(* in another, or gives back a lock it does not hold.                       *)
TableLock == INSTANCE RWLock WITH
  Threads <- Conns,
  phase <- [c \in Conns |-> CASE tableLock[c] # "none" -> "in"
                              [] pc[c] = "lock"        -> "want"
                              [] OTHER                 -> "out"],
  want  <- [c \in Conns |-> IF pc[c] = "lock" THEN TableMode(req[c]) ELSE tableLock[c]]

StatsLock == INSTANCE RWLock WITH
  Threads <- Conns,
  phase <- [c \in Conns |-> CASE statsLock[c] # "none" -> "in"
                              [] pc[c] = "slock"       -> "want"
                              [] OTHER                 -> "out"],
  want  <- [c \in Conns |-> IF pc[c] = "slock" THEN StatsMode(req[c]) ELSE statsLock[c]]

UsesLocks == TableLock!Spec /\ StatsLock!Spec

\* The threads that have executed operation o and not yet counted it.
Uncounted(o) ==
  {c \in Conns : req[c].op = o /\ pc[c] \in {"unlock", "slock", "load", "store", "count"}}

(* Every operation that was executed is counted exactly once: counter[o]    *)
(* lags behind by the threads that are on their way, and by no more,        *)
(* whatever update_stats of other threads ran between.  The total agrees.   *)
EveryOpCountedOnce ==
  /\ \A o \in Counted :
       MapThenSumSet(LAMBDA c : executed[c][o], Conns)
         = stats.counter[o] + Cardinality(Uncounted(o))
  /\ stats.total = MapThenSumSet(LAMBDA o : stats.counter[o], Counted)
                     + Cardinality({c \in Conns : pc[c] = "count"})

(* What STATS answers, unless it is an error, is one moment's statistics:   *)
(* the total it copied first is the sum of the counters it copied last, and *)
(* every operation the same client was answered before is in it.            *)
StatsAnswerConsistent ==
  \A c \in Conns :
    pc[c] \in {"sunlock", "send"} /\ req[c].op = "stats" /\ answer[c] # Refused =>
      /\ answer[c].total = MapThenSumSet(LAMBDA o : answer[c].counter[o], Counted)
      /\ \A o \in Counted : answer[c].counter[o] >= executed[c][o]

(* The clients see one map, changed atomically: every operation takes       *)
(* effect once, between its request and its answer.  A put takes effect     *)
(* where the old data is freed.                                             *)
IsAsked(c) ==
  \/ net[c] = "request"
  \/ pc[c] \in {"lock", "first"}
  \/ pc[c] = "second" /\ req[c].op # "put"

IsDone(c) ==
  \/ pc[c] \in {"second", "unlock", "slock", "load", "store", "count", "sunlock", "send"}
  \/ net[c] = "reply"

PendingOf(c) ==
  CASE req[c] \in Requests /\ IsAsked(c) -> [state |-> "asked", req |-> req[c]]
    [] req[c] \in Requests /\ IsDone(c) /\ ~ IsAsked(c) ->
         [state |-> "done", req |-> req[c],
          answer |-> IF pc[c] = "second" THEN [ok |-> TRUE] ELSE answer[c]]
    [] OTHER -> [state |-> "none"]

Store == INSTANCE KVStore WITH
  map <- [k \in Keys |->
            IF table[k] # Freed THEN table[k]
            ELSE req[CHOOSE c \in Conns : At(c, "second", "put") /\ req[c].key = k].val],
  pending <- [c \in Conns |-> PendingOf(c)]

ImplementsKVStore == Store!Spec

\* The places of a thread that has a request in hand.
Underway == PCs \ {"unserved", "receive", "closed", "left", "spin"}

(* When the clients send no more requests, every thread that has one comes  *)
(* to the end of it: it answers, or ends and tells its client so by closing *)
(* the socket; unless network_receive failed, the client is gone, or the    *)
(* process has ended.  So no thread waits for ever for a lock, whoever else *)
(* left, spins, was never served or ran out of memory.  While requests keep *)
(* coming a writer may well be passed by for ever (access_man.c:39).        *)
NoMoreRequests == <>[][asked' = asked]_asked

RequestsComeToAnEnd ==
  NoMoreRequests =>
    \A c \in Conns :
      pc[c] \in Underway ~> net[c] = "reply" \/ pc[c] = "closed" \/ client[c] = "gone" \/ ~ up
=============================================================================
