--------------------------- MODULE TableServerProofs --------------------------
(***************************************************************************)
(* Proofs about TableServer, for every set of connections, keys and values *)
(* and every number of requests: which lock a thread holds at which place, *)
(* and from that, that no thread reads freed data, that the two passes     *)
(* over the table agree, that no lock is left held, and that both locks    *)
(* are used as RWLock has it; then that the clients see the store KVStore  *)
(* describes, and that the statistics count every operation once.          *)
(***************************************************************************)
EXTENDS TableServer, FiniteSetTheorems, TLAPS

AnyRequest == Requests \union {StatsRequest, BadRequest}

(* The operation of a request tells which fields it has.                    *)
LEMMA RequestFields ==
  ASSUME NEW r \in AnyRequest
  PROVE  /\ r.op \in Counted \union {"stats", "bad"}
         /\ r.op \in Counted => r \in Requests
         /\ r.op = "stats" => r = StatsRequest
         /\ r.op \in {"put", "get", "del"} => r.key \in Keys
         /\ r.op = "put" => r.val \in Values
  BY DEF AnyRequest, Requests, StatsRequest, BadRequest, Counted

\* Places at which a thread waits for a message or has ended.
Quiet == {"unserved", "receive", "closed", "left", "spin"}

\* What a thread keeps in its locals.
Locals == [total : Nat, entries : SUBSET (Keys \X (Values \union {Freed}))]

\* Places inside each lock.
InTableLock == {"first", "second", "unlock"}
InStatsLock == {"load", "store", "count", "copy1", "copy2", "sunlock"}

\* A thread goes to the places of its request alone.
PlacesFit ==
  \A c \in Conns :
    /\ pc[c] \in InTableLock \union {"lock", "load", "store", "count"} => req[c].op \in Counted
    /\ pc[c] = "second" => req[c].op \in {"put", "keys", "print"}
    /\ pc[c] \in {"copy1", "copy2"} => req[c].op = "stats"
    /\ pc[c] \in {"slock", "sunlock", "send"} => req[c].op \in Counted \union {"stats"}

\* A client sends its next request when it has the answer to the last one.
Synchronous ==
  \A c \in Conns :
    /\ client[c] = "idle" => pc[c] \in Quiet /\ net[c] = "empty"
    /\ net[c] # "empty" => pc[c] \in Quiet

\* What does not depend on the locks.
Basic == TypeOK /\ IsFiniteSet(Stored(table)) /\ PlacesFit /\ Synchronous

-----------------------------------------------------------------------------
(* The locals of one thread change.                                         *)
LEMMA SeenType ==
  ASSUME NEW s \in [Conns -> Locals], NEW c \in Conns
  PROVE  /\ [s EXCEPT ![c] = NothingSeen] \in [Conns -> Locals]
         /\ \A n \in Nat : [s EXCEPT ![c].total = n] \in [Conns -> Locals]
         /\ \A e \in SUBSET (Keys \X (Values \union {Freed})) :
              [s EXCEPT ![c].entries = e] \in [Conns -> Locals]
  BY DEF Locals, NothingSeen

LEMMA BasicInit == Init => Basic
<1> SUFFICES ASSUME Init
             PROVE  Basic
  OBVIOUS
<1>1. TypeOK
  <2>1. NothingSeen \in Locals
    BY DEF NothingSeen, Locals
  <2>2. seen \in [Conns -> Locals]
    BY <2>1 DEF Init
  <2> QED
    BY <2>2, ServerAssumption, ValuesAssumption DEF Init, TypeOK, Empty, PCs, Locals
<1>2. Stored(table) = {}
  BY DEF Init, Empty, Stored
<1>3. PlacesFit /\ Synchronous
  BY DEF Init, PlacesFit, Synchronous, Quiet, InTableLock
<1> QED
  BY <1>1, <1>2, <1>3, FS_EmptySet DEF Basic

(* A counter that is raised is still a number.                              *)
LEMMA CountUp ==
  ASSUME NEW f \in [Counted -> Nat], NEW o \in Counted
  PROVE  [f EXCEPT ![o] = @ + 1] \in [Counted -> Nat]
  OBVIOUS

(* Storing or removing one entry keeps the table finite.                    *)
LEMMA FiniteAfterChange ==
  ASSUME table \in [Keys -> Values \union {Absent, Freed}], IsFiniteSet(Stored(table)),
         NEW k \in Keys, NEW v, table' = [table EXCEPT ![k] = v]
  PROVE  IsFiniteSet(Stored(table)')
<1>1. IsFiniteSet(Stored(table) \union {k})
  BY FS_AddElement
<1>2. Stored(table)' \subseteq Stored(table) \union {k}
  BY DEF Stored
<1> QED
  BY <1>1, <1>2, FS_Subset

LEMMA BasicClient ==
  ASSUME Basic, NEW c \in Conns, Client(c)
  PROVE  Basic'
<1> USE DEF Basic, TypeOK, PlacesFit, Synchronous, Quiet, InTableLock, sharedVars, threadVars
<1>1. CASE TakeReply(c)
  BY <1>1 DEF TakeReply
<1>2. CASE Quit(c)
  BY <1>2 DEF Quit
<1>3. CASE \E r \in Asks : Ask(c, r)
  <2>1. PICK r \in Asks : Ask(c, r)
    BY <1>3
  <2>2. r \in AnyRequest
    BY ServerAssumption DEF AnyRequest
  <2>3. TypeOK'
    <3>1. asked' \in 0 .. MaxRequests
      BY <2>1, ServerAssumption DEF Ask
    <3> QED
      BY <3>1, <2>1, <2>2 DEF Ask, AnyRequest
  <2>4. PlacesFit' /\ Synchronous'
    BY <2>1, ZenonT(30) DEF Ask
  <2> QED
    BY <2>1, <2>3, <2>4 DEF Ask
<1> QED
  BY <1>1, <1>2, <1>3 DEF Client

(* The socket: only pc and net change.                                      *)
LEMMA BasicSocket ==
  ASSUME Basic, NEW c \in Conns,
         Accept(c) \/ Receive(c) \/ ReceiveNothing(c) \/ ReceiveFails(c) \/ Send(c)
  PROVE  Basic'
<1> USE DEF Basic, TypeOK, PlacesFit, Synchronous, Quiet, InTableLock, sharedVars, clientVars,
            PCs, Goto
<1>1. CASE Accept(c)
  BY <1>1 DEF Accept
<1>2. CASE Receive(c)
  <2>1. req[c].op \in Counted \union {"stats", "bad"}
    BY RequestFields DEF AnyRequest
  <2>2. \E p \in {"left", "slock", "lock", "send"} :
          /\ pc[c] = "receive" /\ pc' = [pc EXCEPT ![c] = p]
          /\ p = "lock" => req[c].op \in Counted
          /\ p \in {"slock", "send"} => req[c].op = "stats"
    BY <2>1, <1>2 DEF Receive
  <2>3. /\ net' = [net EXCEPT ![c] = "empty"]
        /\ UNCHANGED <<up, sharedVars, seen, req, client, asked, executed>>
    BY <1>2 DEF Receive
  <2>4. net[c] = "request"
    BY <1>2 DEF Receive
  <2>5. TypeOK' /\ PlacesFit'
    BY <2>2, <2>3
  <2>6. Synchronous'
    BY <2>2, <2>3, <2>4
  <2> QED
    BY <2>3, <2>5, <2>6
<1>3. CASE ReceiveNothing(c) \/ ReceiveFails(c)
  <2>1. \E p \in {"left", "spin", "closed"} :
          pc[c] = "receive" /\ pc' = [pc EXCEPT ![c] = p]
    BY <1>3 DEF ReceiveNothing, ReceiveFails
  <2>2. UNCHANGED <<up, sharedVars, answer, seen, clientVars, executed>>
    BY <1>3 DEF ReceiveNothing, ReceiveFails
  <2> QED
    BY <2>1, <2>2
<1>4. CASE Send(c)
  <2>1. TypeOK' /\ PlacesFit'
    <3>1. /\ pc[c] = "send"
          /\ \/ pc' = [pc EXCEPT ![c] = "receive"] /\ net' = [net EXCEPT ![c] = "reply"]
             \/ pc' = [pc EXCEPT ![c] = "receive"] /\ net' = net
             \/ pc' = [pc EXCEPT ![c] = "closed"] /\ net' = net
          /\ UNCHANGED <<up, sharedVars, answer, seen, req, client, asked, executed>>
      BY <1>4 DEF Send
    <3>2. pc' \in [Conns -> PCs] /\ net' \in [Conns -> {"empty", "request", "reply"}]
      BY <3>1, ZenonT(30)
    <3>3. TypeOK'
      BY <3>1, <3>2
    <3>4. PlacesFit'
      BY <3>1
    <3> QED
      BY <3>3, <3>4
  <2>2. Synchronous'
    BY <1>4 DEF Send
  <2>3. table' = table
    BY <1>4 DEF Send
  <2> QED
    BY <2>1, <2>2, <2>3
<1> QED
  BY <1>1, <1>2, <1>3, <1>4

(* The locks: pc and one of the locks change.                               *)
LEMMA BasicLock ==
  ASSUME Basic, NEW c \in Conns,
         LockTable(c) \/ UnlockTable(c) \/ LockStats(c) \/ UnlockStats(c)
  PROVE  Basic'
<1> USE DEF Basic, TypeOK, PlacesFit, Synchronous, Quiet, InTableLock, clientVars,
            PCs, Goto, TableMode, StatsMode, Counted
<1>1. CASE LockTable(c)
  BY <1>1 DEF LockTable
<1>2. CASE UnlockTable(c)
  BY <1>2 DEF UnlockTable
<1>3. CASE LockStats(c)
  BY <1>3 DEF LockStats
<1>4. CASE UnlockStats(c)
  BY <1>4 DEF UnlockStats
<1> QED
  BY <1>1, <1>2, <1>3, <1>4

\* The branches of invoke inside each lock.
TableStep(c) ==
  \/ SizeOp(c) \/ DelOp(c) \/ GetOp(c) \/ PutOp(c) \/ PutStore(c)
  \/ Measure(c) \/ Fill(c)

StatsStep(c) == LoadTotal(c) \/ StoreTotal(c) \/ CountOp(c) \/ CopyTotal(c) \/ CopyCounters(c)

(* The operations: an operation that is done has been executed once more.   *)
LEMMA BasicTable ==
  ASSUME Basic, NEW c \in Conns, TableStep(c)
  PROVE  Basic'
<1>1. /\ req[c] \in AnyRequest
      /\ pc[c] \in {"first", "second"} => req[c].op \in Counted
  BY DEF Basic, TypeOK, PlacesFit, AnyRequest, InTableLock
<1> USE DEF Basic, TypeOK, PlacesFit, Synchronous, Quiet, InTableLock, sharedVars, clientVars,
            PCs, Goto, At, Finish, Forget, Counted
<1>2. CASE SizeOp(c)
  BY <1>1, <1>2 DEF SizeOp
<1>3. CASE DelOp(c)
  <2>1. req[c].key \in Keys
    BY <1>1, <1>3, RequestFields DEF DelOp
  <2>2. IsFiniteSet(Stored(table)')
    BY <2>1, <1>3, FiniteAfterChange DEF DelOp
  <2>3. TypeOK'
    BY <1>1, <1>3, <2>1 DEF DelOp
  <2>4. PlacesFit' /\ Synchronous'
    BY <1>1, <1>3 DEF DelOp
  <2> QED
    BY <2>2, <2>3, <2>4
<1>4. CASE GetOp(c)
  BY <1>1, <1>4 DEF GetOp
<1>5. CASE PutOp(c)
  <2>1. req[c].key \in Keys /\ req[c].val \in Values
    BY <1>1, <1>5, RequestFields DEF PutOp
  <2>2. IsFiniteSet(Stored(table)')
    BY <2>1, <1>5, FiniteAfterChange DEF PutOp
  <2>3. TypeOK'
    <3>1. CASE table[req[c].key] = Absent
      <4>1. /\ table' = [table EXCEPT ![req[c].key] = req[c].val]
            /\ pc' = [pc EXCEPT ![c] = "unlock"]
            /\ executed' = [executed EXCEPT ![c] = [executed[c] EXCEPT !["put"] = @ + 1]]
        BY <3>1, <1>5 DEF PutOp
      <4>2. [executed[c] EXCEPT !["put"] = @ + 1] \in [Counted -> Nat]
        BY CountUp
      <4>3. executed' \in [Conns -> [Counted -> Nat]]
        BY <4>1, <4>2
      <4> QED
        BY <4>1, <4>3, <1>5, <2>1 DEF PutOp
    <3>2. CASE table[req[c].key] # Absent
      <4>1. table' = [table EXCEPT ![req[c].key] = Freed] /\ pc' = [pc EXCEPT ![c] = "second"]
        BY <3>2, <1>5 DEF PutOp
      <4> QED
        BY <4>1, <3>2, <1>5, <2>1 DEF PutOp
    <3> QED
      BY <3>1, <3>2
  <2>4. PlacesFit' /\ Synchronous'
    <3>1. /\ pc[c] = "first" /\ req[c].op = "put"
          /\ pc' = [pc EXCEPT ![c] = "unlock"] \/ pc' = [pc EXCEPT ![c] = "second"]
          /\ UNCHANGED clientVars
      BY <1>5 DEF PutOp
    <3> QED
      BY <3>1
  <2> QED
    BY <2>2, <2>3, <2>4
<1>6. CASE PutStore(c)
  <2>1. req[c].key \in Keys /\ req[c].val \in Values
    BY <1>1, <1>6, RequestFields DEF PutStore
  <2>2. IsFiniteSet(Stored(table)')
    BY <2>1, <1>6, FiniteAfterChange DEF PutStore
  <2>3. TypeOK'
    BY <1>1, <1>6, <2>1 DEF PutStore
  <2>4. PlacesFit' /\ Synchronous'
    BY <1>1, <1>6 DEF PutStore
  <2> QED
    BY <2>2, <2>3, <2>4
<1>7. CASE Measure(c)
  <2>1. Entries(table) \in SUBSET (Keys \X (Values \union {Freed}))
    BY DEF Entries, Stored
  <2>2. /\ seen' \in [Conns -> Locals]
        /\ pc[c] = "first" /\ req[c].op \in {"keys", "print"}
        /\ pc' = pc \/ pc' = [pc EXCEPT ![c] = "second"]
        /\ up' \in BOOLEAN
        /\ UNCHANGED <<sharedVars, answer, clientVars, executed>>
    <3>1. CASE up' = FALSE /\ UNCHANGED <<seen, pc>>
      BY <3>1, <1>7 DEF Measure, Locals
    <3>2. CASE up' = up /\ pc' = [pc EXCEPT ![c] = "second"]
               /\ seen' = [seen EXCEPT ![c].entries = Entries(table)]
      <4>1. seen' \in [Conns -> Locals]
        BY <2>1, <3>2, SeenType DEF Locals
      <4> QED
        BY <3>2, <4>1, <1>7 DEF Measure
    <3> QED
      BY <3>1, <3>2, <1>7, Zenon DEF Measure
  <2>3. pc' \in [Conns -> PCs]
    BY <2>2
  <2>4. TypeOK'
    BY <2>2, <2>3 DEF Locals
  <2>5. PlacesFit' /\ Synchronous'
    <3>1. CASE pc' = pc
      BY <2>2, <3>1
    <3>2. CASE pc' = [pc EXCEPT ![c] = "second"]
      BY <2>2, <3>2
    <3> QED
      BY <2>2, <3>1, <3>2
  <2>6. table' = table
    BY <2>2
  <2> QED
    BY <2>4, <2>5, <2>6
<1>8. CASE Fill(c)
  <2>1. seen' \in [Conns -> Locals]
    BY <1>8, SeenType DEF Fill, Locals
  <2>2. /\ pc[c] = "second" /\ req[c].op \in {"keys", "print"}
        /\ pc' = [pc EXCEPT ![c] = "unlock"]
        /\ executed' = [executed EXCEPT ![c][req[c].op] = @ + 1]
        /\ UNCHANGED <<up, sharedVars, clientVars>>
    BY <1>8 DEF Fill
  <2> QED
    BY <1>1, <2>1, <2>2 DEF Locals
<1> QED
  BY <1>2, <1>3, <1>4, <1>5, <1>6, <1>7, <1>8 DEF TableStep

LEMMA BasicStats ==
  ASSUME Basic, NEW c \in Conns, StatsStep(c)
  PROVE  Basic'
<1> USE DEF Basic, TypeOK, PlacesFit, Synchronous, Quiet, InTableLock, sharedVars, clientVars,
            PCs, Goto, Forget
<1>1. CASE LoadTotal(c) \/ CopyTotal(c)
  <2>0. stats.total \in Nat /\ seen \in [Conns -> Locals]
    BY DEF Locals
  <2>1. seen' \in [Conns -> Locals]
    <3>1. seen' = [seen EXCEPT ![c].total = stats.total]
      BY <1>1 DEF LoadTotal, CopyTotal
    <3> QED
      BY <2>0, <3>1, SeenType
  <2>2. /\ \/ pc[c] = "load" /\ pc' = [pc EXCEPT ![c] = "store"]
           \/ pc[c] = "copy1" /\ pc' = [pc EXCEPT ![c] = "copy2"]
        /\ UNCHANGED <<up, sharedVars, answer, clientVars, executed>>
    BY <1>1 DEF LoadTotal, CopyTotal
  <2>3. TypeOK'
    BY <2>1, <2>2 DEF Locals
  <2>4. PlacesFit' /\ Synchronous'
    <3>1. CASE pc[c] = "load" /\ pc' = [pc EXCEPT ![c] = "store"]
      BY <2>2, <3>1
    <3>2. CASE pc[c] = "copy1" /\ pc' = [pc EXCEPT ![c] = "copy2"]
      BY <2>2, <3>2
    <3> QED
      BY <2>2, <3>1, <3>2
  <2> QED
    BY <2>2, <2>3, <2>4
<1>2. CASE StoreTotal(c)
  <2>1. seen' \in [Conns -> Locals]
    BY <1>2, SeenType DEF StoreTotal, Locals
  <2>2. seen[c].total + 1 \in Nat
    OBVIOUS
  <2>3. stats' \in [total : Nat, counter : [Counted -> Nat]]
    BY <1>2, <2>2 DEF StoreTotal
  <2>4. /\ pc[c] = "store" /\ pc' = [pc EXCEPT ![c] = "count"]
        /\ UNCHANGED <<up, table, tableLock, statsLock, answer, clientVars, executed>>
    BY <1>2 DEF StoreTotal
  <2> QED
    BY <2>1, <2>3, <2>4 DEF Locals
<1>3. CASE CountOp(c)
  <2>1. stats.counter \in [Counted -> Nat] /\ stats.total \in Nat
    OBVIOUS
  <2>2. stats' = [stats EXCEPT !.counter = [stats.counter EXCEPT ![req[c].op] = @ + 1]]
    BY <1>3 DEF CountOp
  <2>3. [stats.counter EXCEPT ![req[c].op] = @ + 1] \in [Counted -> Nat]
    BY <2>1, <1>3, CountUp DEF CountOp
  <2>4. stats' \in [total : Nat, counter : [Counted -> Nat]]
    BY <2>1, <2>2, <2>3
  <2> QED
    BY <2>4, <1>3 DEF CountOp
<1>4. CASE CopyCounters(c)
  <2>1. seen' \in [Conns -> Locals]
    BY <1>4, SeenType DEF CopyCounters, Locals
  <2>2. /\ pc[c] = "copy2" /\ pc' = [pc EXCEPT ![c] = "sunlock"]
        /\ UNCHANGED <<up, sharedVars, clientVars, executed>>
    BY <1>4 DEF CopyCounters
  <2> QED
    BY <2>1, <2>2 DEF Locals
<1> QED
  BY <1>1, <1>2, <1>3, <1>4 DEF StatsStep

\* A step of the specification.
Step(c) ==
  \/ Accept(c) \/ Receive(c) \/ ReceiveNothing(c) \/ ReceiveFails(c) \/ Send(c)
  \/ LockTable(c) \/ UnlockTable(c) \/ LockStats(c) \/ UnlockStats(c)
  \/ TableStep(c)
  \/ StatsStep(c)
  \/ Client(c)

LEMMA NextIsStep == ASSUME Next PROVE \E c \in Conns : Step(c)
  BY DEF Next, Serve, Step, TableStep, StatsStep

LEMMA BasicNext == Basic /\ [Next]_vars => Basic'
<1> SUFFICES ASSUME Basic, [Next]_vars
             PROVE  Basic'
  OBVIOUS
<1>1. CASE UNCHANGED vars
  BY <1>1 DEF Basic, TypeOK, PlacesFit, Synchronous, Stored, vars, sharedVars, threadVars, clientVars
<1>2. CASE \E c \in Conns : Step(c)
  BY <1>2, BasicSocket, BasicLock, BasicTable, BasicStats, BasicClient DEF Step
<1> QED
  BY <1>1, <1>2, NextIsStep

-----------------------------------------------------------------------------
\* The locks.

\* A thread holds a lock at the places inside it, in the mode of its request,
\* and nowhere else.
LocksFit ==
  \A c \in Conns :
    /\ tableLock[c] = IF pc[c] \in InTableLock THEN TableMode(req[c]) ELSE "none"
    /\ statsLock[c] = IF pc[c] \in InStatsLock THEN StatsMode(req[c]) ELSE "none"

WriterAlone(lock) ==
  \A c, d \in Conns : c # d /\ lock[c] = "write" => lock[d] = "none"

Locks == LocksFit /\ WriterAlone(tableLock) /\ WriterAlone(statsLock)

(* What is granted beside the holders of a lock keeps writers alone.        *)
LEMMA GrantKeepsWriterAlone ==
  ASSUME NEW lock \in [Conns -> {"none", "read", "write"}], WriterAlone(lock),
         NEW c \in Conns, NEW m \in {"read", "write"}, Compatible(lock, c, m)
  PROVE  WriterAlone([lock EXCEPT ![c] = m])
  BY DEF WriterAlone, Compatible

LEMMA ReleaseKeepsWriterAlone ==
  ASSUME NEW lock \in [Conns -> {"none", "read", "write"}], WriterAlone(lock), NEW c \in Conns
  PROVE  WriterAlone([lock EXCEPT ![c] = "none"])
  BY DEF WriterAlone

\* What the operations leave alone, and where they go.
LEMMA TableStepShape ==
  ASSUME NEW c \in Conns, TableStep(c)
  PROVE  /\ pc[c] \in {"first", "second"}
         /\ pc' = pc \/ (\E p \in {"second", "unlock"} : pc' = [pc EXCEPT ![c] = p])
         /\ UNCHANGED <<tableLock, statsLock, stats, req>>
  BY DEF TableStep, SizeOp, DelOp, GetOp, PutOp, PutStore, Measure, Fill, At, Finish, Goto,
         sharedVars, clientVars

LEMMA StatsStepShape ==
  ASSUME Basic, NEW c \in Conns, StatsStep(c)
  PROVE  /\ pc[c] \in {"load", "store", "count", "copy1", "copy2"}
         /\ \E p \in InStatsLock : pc' = [pc EXCEPT ![c] = p]
         /\ UNCHANGED <<tableLock, statsLock, table, req>>
         /\ \A d \in Conns \ {c} : seen'[d] = seen[d]
  BY DEF StatsStep, LoadTotal, StoreTotal, CountOp, CopyTotal, CopyCounters, Goto, Forget,
         sharedVars, clientVars, InStatsLock, Basic, TypeOK

LEMMA SocketShape ==
  ASSUME Basic, NEW c \in Conns, Accept(c) \/ Receive(c) \/ ReceiveNothing(c) \/ ReceiveFails(c) \/ Send(c)
  PROVE  /\ pc[c] \in {"unserved", "receive", "send"}
         /\ \E p \in {"receive", "lock", "slock", "send", "left", "spin", "closed"} : pc' = [pc EXCEPT ![c] = p]
         /\ UNCHANGED <<tableLock, statsLock, table, stats, req, seen>>
  BY DEF Accept, Receive, ReceiveNothing, ReceiveFails, Send, Goto, sharedVars, clientVars

LEMMA ClientShape ==
  ASSUME Basic, NEW c \in Conns, Client(c)
  PROVE  /\ pc[c] \notin Quiet => req'[c] = req[c]
         /\ \A d \in Conns \ {c} : req'[d] = req[d]
         /\ UNCHANGED <<tableLock, statsLock, table, stats, pc, seen>>
  BY DEF Client, Ask, TakeReply, Quit, sharedVars, threadVars, Basic, Synchronous, TypeOK

LEMMA LocksInit == Init => Locks
  BY DEF Init, Locks, LocksFit, WriterAlone, InTableLock, InStatsLock

LEMMA LocksNext == Basic /\ Locks /\ [Next]_vars => Locks'
<1> SUFFICES ASSUME Basic, Locks, [Next]_vars
             PROVE  Locks'
  OBVIOUS
<1> USE DEF Locks, LocksFit, InTableLock, InStatsLock, Quiet
<1>1. CASE UNCHANGED vars
  BY <1>1 DEF vars, sharedVars, threadVars, clientVars, WriterAlone
<1>2. ASSUME NEW c \in Conns, Step(c)
      PROVE  Locks'
  <2>1. /\ pc \in [Conns -> PCs]
        /\ tableLock \in [Conns -> {"none", "read", "write"}]
        /\ statsLock \in [Conns -> {"none", "read", "write"}]
    BY DEF Basic, TypeOK
  <2>2. CASE Accept(c) \/ Receive(c) \/ ReceiveNothing(c) \/ ReceiveFails(c) \/ Send(c)
    BY <2>1, <2>2, SocketShape DEF WriterAlone
  <2>3. CASE LockTable(c)
    <3>1. /\ pc[c] = "lock" /\ pc' = [pc EXCEPT ![c] = "first"]
          /\ tableLock' = [tableLock EXCEPT ![c] = TableMode(req[c])]
          /\ Compatible(tableLock, c, TableMode(req[c]))
          /\ UNCHANGED <<statsLock, req>>
      BY <2>3 DEF LockTable, Goto, clientVars
    <3>2. WriterAlone(tableLock)'
      BY <3>1, <2>1, GrantKeepsWriterAlone DEF TableMode
    <3>3. LocksFit' /\ WriterAlone(statsLock)'
      BY <3>1, <2>1 DEF WriterAlone
    <3> QED
      BY <3>2, <3>3
  <2>4. CASE UnlockTable(c)
    <3>1. /\ pc[c] = "unlock" /\ pc' = [pc EXCEPT ![c] = "slock"]
          /\ tableLock' = [tableLock EXCEPT ![c] = "none"]
          /\ UNCHANGED <<statsLock, req>>
      BY <2>4 DEF UnlockTable, Goto, clientVars
    <3>2. WriterAlone(tableLock)'
      BY <3>1, <2>1, ReleaseKeepsWriterAlone
    <3>3. LocksFit' /\ WriterAlone(statsLock)'
      BY <3>1, <2>1 DEF WriterAlone
    <3> QED
      BY <3>2, <3>3
  <2>5. CASE LockStats(c)
    <3>1. /\ pc[c] = "slock"
          /\ \E p \in {"copy1", "load"} : pc' = [pc EXCEPT ![c] = p]
          /\ statsLock' = [statsLock EXCEPT ![c] = StatsMode(req[c])]
          /\ Compatible(statsLock, c, StatsMode(req[c]))
          /\ UNCHANGED <<tableLock, req>>
      BY <2>5 DEF LockStats, Goto, clientVars
    <3>2. WriterAlone(statsLock)'
      BY <3>1, <2>1, GrantKeepsWriterAlone DEF StatsMode
    <3>3. LocksFit' /\ WriterAlone(tableLock)'
      BY <3>1, <2>1 DEF WriterAlone
    <3> QED
      BY <3>2, <3>3
  <2>6. CASE UnlockStats(c)
    <3>1. /\ pc[c] = "sunlock" /\ pc' = [pc EXCEPT ![c] = "send"]
          /\ statsLock' = [statsLock EXCEPT ![c] = "none"]
          /\ UNCHANGED <<tableLock, req>>
      BY <2>6 DEF UnlockStats, Goto, clientVars
    <3>2. WriterAlone(statsLock)'
      BY <3>1, <2>1, ReleaseKeepsWriterAlone
    <3>3. LocksFit' /\ WriterAlone(tableLock)'
      BY <3>1, <2>1 DEF WriterAlone
    <3> QED
      BY <3>2, <3>3
  <2>7. CASE TableStep(c)
    BY <2>1, <2>7, TableStepShape DEF WriterAlone
  <2>8. CASE StatsStep(c)
    BY <2>1, <2>8, StatsStepShape DEF WriterAlone
  <2>9. CASE Client(c)
    BY <2>1, <2>9, ClientShape DEF WriterAlone
  <2> QED
    BY <1>2, <2>2, <2>3, <2>4, <2>5, <2>6, <2>7, <2>8, <2>9 DEF Step
<1> QED
  BY <1>1, <1>2, NextIsStep

-----------------------------------------------------------------------------
\* The data.

\* Freed data is in the table only while the thread that freed it is in between.
FreedIsReplaced ==
  \A k \in Keys : table[k] = Freed =>
    \E c \in Conns : At(c, "second", "put") /\ req[c].key = k

IInv == Basic /\ Locks /\ FreedIsReplaced /\ SecondPassFits

(* A thread that changes the table is in it alone.                          *)
LEMMA ChangerAlone ==
  ASSUME Locks, NEW c \in Conns, pc[c] \in InTableLock, req[c].op \in {"put", "del"}
  PROVE  \A d \in Conns \ {c} : pc[d] \notin InTableLock
<1>1. tableLock[c] = "write"
  BY DEF Locks, LocksFit, TableMode
<1>2. \A d \in Conns \ {c} : tableLock[d] = "none"
  BY <1>1 DEF Locks, WriterAlone
<1> QED
  BY <1>2 DEF Locks, LocksFit, TableMode

(* Steps outside the table change nothing that these two speak of.          *)
LEMMA DataOutside ==
  ASSUME IInv,
         \A d \in Conns : pc'[d] = "second" <=> pc[d] = "second",
         \A d \in Conns : pc[d] = "second" => req'[d] = req[d] /\ seen'[d] = seen[d],
         UNCHANGED table
  PROVE  FreedIsReplaced' /\ SecondPassFits'
<1>1. FreedIsReplaced'
  BY DEF IInv, FreedIsReplaced, At
<1>2. SecondPassFits'
  BY DEF IInv, SecondPassFits
<1> QED
  BY <1>1, <1>2

LEMMA DataTable ==
  ASSUME IInv, NEW c \in Conns, TableStep(c)
  PROVE  FreedIsReplaced' /\ SecondPassFits'
<1> USE DEF IInv, FreedIsReplaced, SecondPassFits, At
<1>1. /\ pc \in [Conns -> PCs] /\ seen \in [Conns -> Locals]
      /\ table \in [Keys -> Values \union {Absent, Freed}]
      /\ Freed \notin Values \union {Absent}
      /\ req[c] \in AnyRequest
  BY ServerAssumption DEF Basic, TypeOK, AnyRequest, Locals
<1>2. UNCHANGED req /\ pc[c] \in InTableLock
  BY TableStepShape DEF InTableLock
\* GET, SIZE and the second pass of GETKEYS and PRINT.
<1>3. CASE SizeOp(c) \/ GetOp(c) \/ Fill(c)
  <2>1. /\ pc' = [pc EXCEPT ![c] = "unlock"] /\ table' = table
        /\ \A d \in Conns \ {c} : seen'[d] = seen[d]
        /\ ~ At(c, "second", "put")
    BY <1>3, <1>1 DEF SizeOp, GetOp, Fill, Finish, Goto, Forget, sharedVars
  <2> QED
    BY <2>1, <1>1, <1>2
\* The first pass, and the end of the process.
<1>4. CASE Measure(c)
  <2>1. CASE pc' = pc /\ seen' = seen /\ table' = table
    BY <2>1, <1>2
  <2>2. CASE /\ pc' = [pc EXCEPT ![c] = "second"] /\ table' = table
             /\ seen' = [seen EXCEPT ![c] = [seen[c] EXCEPT !.entries = Entries(table)]]
             /\ pc[c] = "first"
    BY <2>2, <1>1, <1>2 DEF Locals
  <2> QED
    BY <1>4, <2>1, <2>2 DEF Measure, Goto, sharedVars
\* DEL and PUT: nobody else is inside, so there is no second pass to disturb
\* and no freed data but the thread's own.
<1>5. CASE DelOp(c) \/ PutOp(c) \/ PutStore(c)
  <2>1. req[c].op \in {"put", "del"}
    BY <1>5 DEF DelOp, PutOp, PutStore
  <2>2. \A d \in Conns \ {c} : pc[d] \notin InTableLock
    BY <1>2, <2>1, ChangerAlone
  <2>3. \A d \in Conns \ {c} : pc'[d] # "second"
    BY <2>2, <1>1, TableStepShape DEF InTableLock
  <2>4. SecondPassFits'
    BY <2>1, <2>3, <1>2
  <2>5. req[c].key \in Keys /\ (req[c].op = "put" => req[c].val \in Values)
    BY <1>1, <2>1, RequestFields
  <2>6. \A k \in Keys : table[k] = Freed => At(c, "second", "put") /\ req[c].key = k
    BY <2>2 DEF InTableLock
  <2>7. CASE DelOp(c) \/ PutStore(c)
    <3>1. \E v \in Values \union {Absent} : table' = [table EXCEPT ![req[c].key] = v]
      BY <2>5, <2>7 DEF DelOp, PutStore
    <3>2. \A k \in Keys : table[k] = Freed => k = req[c].key
      BY <2>6
    <3>3. \A k \in Keys : table'[k] # Freed
      BY <3>1, <3>2, <1>1, <2>5
    <3> QED
      BY <3>3, <2>4
  <2>8. CASE PutOp(c)
    <3>1. \A k \in Keys : table[k] # Freed
      BY <2>6, <2>8 DEF PutOp
    <3>2. CASE table' = [table EXCEPT ![req[c].key] = req[c].val]
      BY <3>1, <3>2, <2>4, <2>5, <2>8, <1>1 DEF PutOp
    <3>3. CASE table' = [table EXCEPT ![req[c].key] = Freed] /\ pc' = [pc EXCEPT ![c] = "second"]
      <4>1. (At(c, "second", "put"))'
        BY <3>3, <2>8, <1>1, <1>2 DEF PutOp
      <4> QED
        BY <4>1, <3>1, <3>3, <2>4, <1>1, <1>2
    <3> QED
      BY <2>8, <3>2, <3>3 DEF PutOp, Goto
  <2> QED
    BY <1>5, <2>7, <2>8
<1> QED
  BY <1>3, <1>4, <1>5 DEF TableStep

LEMMA DataNext == IInv /\ [Next]_vars => FreedIsReplaced' /\ SecondPassFits'
<1> SUFFICES ASSUME IInv, [Next]_vars
             PROVE  FreedIsReplaced' /\ SecondPassFits'
  OBVIOUS
<1>1. CASE UNCHANGED vars
  BY <1>1, DataOutside DEF vars, sharedVars, threadVars, clientVars
<1>2. ASSUME NEW c \in Conns, Step(c)
      PROVE  FreedIsReplaced' /\ SecondPassFits'
  <2>1. pc \in [Conns -> PCs] /\ Basic
    BY DEF IInv, Basic, TypeOK
  <2>2. CASE Accept(c) \/ Receive(c) \/ ReceiveNothing(c) \/ ReceiveFails(c) \/ Send(c)
    BY <2>1, <2>2, SocketShape, DataOutside
  <2>3. CASE LockTable(c) \/ UnlockTable(c) \/ LockStats(c) \/ UnlockStats(c)
    <3>1. /\ pc[c] # "second"
          /\ \E p \in PCs \ {"second"} : pc' = [pc EXCEPT ![c] = p]
          /\ UNCHANGED <<table, req, seen>>
      BY <2>3 DEF LockTable, UnlockTable, LockStats, UnlockStats, Goto, clientVars, PCs
    <3> QED
      BY <3>1, <2>1, DataOutside
  <2>4. CASE TableStep(c)
    BY <2>4, DataTable
  <2>5. CASE StatsStep(c)
    BY <2>1, <2>5, StatsStepShape, DataOutside DEF InStatsLock
  <2>6. CASE Client(c)
    BY <2>1, <2>6, ClientShape, DataOutside DEF Quiet
  <2> QED
    BY <1>2, <2>2, <2>3, <2>4, <2>5, <2>6 DEF Step
<1> QED
  BY <1>1, <1>2, NextIsStep

-----------------------------------------------------------------------------
LEMMA IInvInit == Init => IInv
<1> SUFFICES ASSUME Init
             PROVE  IInv
  OBVIOUS
<1>1. FreedIsReplaced /\ SecondPassFits
  BY ServerAssumption DEF Init, Empty, FreedIsReplaced, SecondPassFits
<1> QED
  BY <1>1, BasicInit, LocksInit DEF IInv

(* table_skel.c: a thread holds the lock its place in invoke calls for, a   *)
(* writer holds it alone, and what it has measured or freed is as it left   *)
(* it.                                                                      *)
THEOREM InductiveInvariant == Spec => []IInv
<1>1. IInv /\ [Next]_vars => IInv'
  BY BasicNext, LocksNext, DataNext DEF IInv
<1> QED
  BY <1>1, IInvInit, PTL DEF Spec

(* Every variable keeps its type.                                           *)
THEOREM TypeCorrect == Spec => []TypeOK
  BY InductiveInvariant, PTL DEF IInv, Basic

(* table.c:62: no thread looks at data that another one has freed.          *)
THEOREM NoFreedDataIsRead == Spec => []NoFreedRead
<1>1. IInv => NoFreedRead
  <2> SUFFICES ASSUME IInv, NEW k \in Keys, table[k] = Freed
               PROVE  \E c \in Conns :
                        /\ At(c, "second", "put") /\ req[c].key = k
                        /\ \A d \in Conns \ {c} : pc[d] \notin {"first", "second", "unlock"}
    BY DEF NoFreedRead
  <2>1. PICK c \in Conns : At(c, "second", "put") /\ req[c].key = k
    BY DEF IInv, FreedIsReplaced
  <2>2. \A d \in Conns \ {c} : pc[d] \notin {"first", "second", "unlock"}
    BY <2>1, ChangerAlone DEF IInv, At, InTableLock
  <2> QED
    BY <2>1, <2>2
<1> QED
  BY <1>1, InductiveInvariant, PTL

(* table.c:105-146: the second pass over the table finds the keys and the   *)
(* data the first one measured, all of them and no other.                   *)
THEOREM SecondPassIsSafe == Spec => []SecondPassFits
  BY InductiveInvariant, PTL DEF IInv

(* table_skel.c:76: no lock is left behind by a thread that ends, or that   *)
(* waits for its client.                                                    *)
THEOREM NoLockIsLeaked == Spec => []NoLockLeak
<1>1. IInv => NoLockLeak
  BY DEF IInv, Locks, LocksFit, NoLockLeak, InTableLock, InStatsLock
<1> QED
  BY <1>1, InductiveInvariant, PTL

-----------------------------------------------------------------------------
\* Both locks are used as RWLock allows.

\* The two functions of the refinement for table_mutex, and for stats_mutex.
TablePhase ==
  [c \in Conns |-> CASE tableLock[c] # "none" -> "in"
                     [] pc[c] = "lock"        -> "want"
                     [] OTHER                 -> "out"]
TableWant == [c \in Conns |-> IF pc[c] = "lock" THEN TableMode(req[c]) ELSE tableLock[c]]

StatsPhase ==
  [c \in Conns |-> CASE statsLock[c] # "none" -> "in"
                     [] pc[c] = "slock"       -> "want"
                     [] OTHER                 -> "out"]
StatsWant == [c \in Conns |-> IF pc[c] = "slock" THEN StatsMode(req[c]) ELSE statsLock[c]]

(* A step that touches neither a lock nor the threads that wait for it is   *)
(* none of the abstract lock.                                               *)
LEMMA TableLockStutters ==
  ASSUME UNCHANGED tableLock,
         \A d \in Conns : pc'[d] = "lock" <=> pc[d] = "lock",
         \A d \in Conns : pc[d] = "lock" => req'[d] = req[d]
  PROVE  UNCHANGED <<TablePhase, TableWant>>
  BY DEF TablePhase, TableWant, TableMode

LEMMA StatsLockStutters ==
  ASSUME UNCHANGED statsLock,
         \A d \in Conns : pc'[d] = "slock" <=> pc[d] = "slock",
         \A d \in Conns : pc[d] = "slock" => req'[d] = req[d]
  PROVE  UNCHANGED <<StatsPhase, StatsWant>>
  BY DEF StatsPhase, StatsWant, StatsMode

LEMMA TableLockRequest ==
  ASSUME NEW c \in Conns, NEW m \in TableLock!Modes, TableLock!Request(c, m)
  PROVE  TableLock!Next
  BY DEF TableLock!Next

LEMMA StatsLockRequest ==
  ASSUME NEW c \in Conns, NEW m \in StatsLock!Modes, StatsLock!Request(c, m)
  PROVE  StatsLock!Next
  BY DEF StatsLock!Next

LEMMA TableLockStep ==
  ASSUME IInv, NEW c \in Conns, Step(c)
  PROVE  [TableLock!Next]_(TableLock!lockVars)
<1>1. /\ pc \in [Conns -> PCs] /\ Basic
      /\ tableLock \in [Conns -> {"none", "read", "write"}]
      /\ \A d \in Conns : tableLock[d] = "none" <=> pc[d] \notin InTableLock
  BY DEF IInv, Basic, TypeOK, Locks, LocksFit, TableMode
<1>2. SUFFICES TableLock!Next \/ UNCHANGED <<TablePhase, TableWant>>
  BY DEF TableLock!lockVars, TablePhase, TableWant
<1>3. CASE \/ Accept(c) \/ ReceiveNothing(c) \/ ReceiveFails(c) \/ Send(c)
           \/ (Receive(c) /\ pc'[c] # "lock")
  <2>1. pc[c] # "lock" /\ pc'[c] # "lock"
    BY <1>3, <1>1 DEF Accept, ReceiveNothing, ReceiveFails, Receive, Send, Goto
  <2> QED
    BY <2>1, <1>1, <1>3, SocketShape, TableLockStutters
<1>4. CASE Receive(c) /\ pc'[c] = "lock"
  <2>1. /\ pc[c] = "receive" /\ pc' = [pc EXCEPT ![c] = "lock"]
        /\ UNCHANGED <<tableLock, req>>
    BY <1>4, <1>1 DEF Receive, Goto, sharedVars
  <2>2. TablePhase[c] = "out"
    BY <2>1, <1>1 DEF TablePhase, InTableLock
  <2>3. TablePhase' = [TablePhase EXCEPT ![c] = "want"]
    BY <2>1, <1>1 DEF TablePhase, InTableLock
  <2>4. TableWant' = [TableWant EXCEPT ![c] = TableMode(req[c])]
    BY <2>1, <1>1 DEF TableWant, InTableLock
  <2>5. PICK m \in TableLock!Modes : m = TableMode(req[c])
    BY DEF TableMode, TableLock!Modes
  <2>6. TableLock!Request(c, m)
    BY <2>2, <2>3, <2>4, <2>5 DEF TableLock!Request, TablePhase, TableWant
  <2> QED
    BY <2>6, TableLockRequest
<1>5. CASE LockTable(c)
  <2>1. /\ pc[c] = "lock" /\ pc' = [pc EXCEPT ![c] = "first"]
        /\ tableLock' = [tableLock EXCEPT ![c] = TableMode(req[c])]
        /\ Compatible(tableLock, c, TableMode(req[c]))
        /\ UNCHANGED req
    BY <1>5 DEF LockTable, Goto, clientVars
  <2>2. TablePhase[c] = "want" /\ TableWant[c] = TableMode(req[c])
    BY <2>1, <1>1 DEF TablePhase, TableWant, InTableLock
  <2>3. TablePhase' = [TablePhase EXCEPT ![c] = "in"]
    BY <2>1, <1>1 DEF TablePhase, InTableLock, TableMode
  <2>4. TableWant' = TableWant
    BY <2>1, <1>1 DEF TableWant, InTableLock
  <2>5. \A u \in Conns \ {c} :
          TablePhase[u] = "in" => TableWant[c] = "read" /\ TableWant[u] = "read"
    BY <2>1, <2>2, <1>1 DEF Compatible, TablePhase, TableWant, InTableLock
  <2>6. TableLock!Grant(c)
    BY <2>2, <2>3, <2>4, <2>5 DEF TableLock!Grant, TableLock!Compatible, TablePhase, TableWant
  <2> QED
    BY <2>6 DEF TableLock!Next
<1>6. CASE UnlockTable(c)
  <2>1. /\ pc[c] = "unlock" /\ pc' = [pc EXCEPT ![c] = "slock"]
        /\ tableLock' = [tableLock EXCEPT ![c] = "none"]
        /\ UNCHANGED req
    BY <1>6 DEF UnlockTable, Goto, clientVars
  <2>2. TablePhase[c] = "in"
    BY <2>1, <1>1 DEF TablePhase, InTableLock
  <2>3. TablePhase' = [TablePhase EXCEPT ![c] = "out"]
    BY <2>1, <1>1 DEF TablePhase, InTableLock
  <2>4. TableWant' = [TableWant EXCEPT ![c] = "none"]
    BY <2>1, <1>1 DEF TableWant, InTableLock
  <2>5. TableLock!Release(c)
    BY <2>2, <2>3, <2>4 DEF TableLock!Release, TablePhase, TableWant
  <2> QED
    BY <2>5 DEF TableLock!Next
<1>7. CASE LockStats(c) \/ UnlockStats(c)
  <2>1. /\ pc[c] # "lock" /\ (\E p \in PCs \ {"lock"} : pc' = [pc EXCEPT ![c] = p])
        /\ UNCHANGED <<tableLock, req>>
    BY <1>7 DEF LockStats, UnlockStats, Goto, clientVars, PCs
  <2> QED
    BY <2>1, <1>1, TableLockStutters
<1>8. CASE TableStep(c)
  BY <1>1, <1>8, TableStepShape, TableLockStutters
<1>9. CASE StatsStep(c)
  BY <1>1, <1>9, StatsStepShape, TableLockStutters DEF InStatsLock
<1>10. CASE Client(c)
  BY <1>1, <1>10, ClientShape, TableLockStutters DEF Quiet
<1> QED
  BY <1>3, <1>4, <1>5, <1>6, <1>7, <1>8, <1>9, <1>10 DEF Step

LEMMA StatsLockStep ==
  ASSUME IInv, NEW c \in Conns, Step(c)
  PROVE  [StatsLock!Next]_(StatsLock!lockVars)
<1>1. /\ pc \in [Conns -> PCs] /\ Basic
      /\ statsLock \in [Conns -> {"none", "read", "write"}]
      /\ \A d \in Conns : statsLock[d] = "none" <=> pc[d] \notin InStatsLock
  BY DEF IInv, Basic, TypeOK, Locks, LocksFit, StatsMode
<1>2. SUFFICES StatsLock!Next \/ UNCHANGED <<StatsPhase, StatsWant>>
  BY DEF StatsLock!lockVars, StatsPhase, StatsWant
<1>3. CASE \/ Accept(c) \/ ReceiveNothing(c) \/ ReceiveFails(c) \/ Send(c)
           \/ (Receive(c) /\ pc'[c] # "slock")
  <2>1. pc[c] # "slock" /\ pc'[c] # "slock"
    BY <1>3, <1>1 DEF Accept, ReceiveNothing, ReceiveFails, Receive, Send, Goto
  <2> QED
    BY <2>1, <1>1, <1>3, SocketShape, StatsLockStutters
\* OP_STATS asks for this lock first, every other operation after table_mutex.
<1>4. CASE UnlockTable(c) \/ (Receive(c) /\ pc'[c] = "slock")
  <2>1. /\ pc[c] \in {"receive", "unlock"} /\ pc' = [pc EXCEPT ![c] = "slock"]
        /\ UNCHANGED <<statsLock, req>>
    BY <1>4, <1>1 DEF Receive, UnlockTable, Goto, sharedVars, clientVars
  <2>2. StatsPhase[c] = "out"
    BY <2>1, <1>1 DEF StatsPhase, InStatsLock
  <2>3. StatsPhase' = [StatsPhase EXCEPT ![c] = "want"]
    BY <2>1, <1>1 DEF StatsPhase, InStatsLock
  <2>4. StatsWant' = [StatsWant EXCEPT ![c] = StatsMode(req[c])]
    BY <2>1, <1>1 DEF StatsWant, InStatsLock
  <2>5. PICK m \in StatsLock!Modes : m = StatsMode(req[c])
    BY DEF StatsMode, StatsLock!Modes
  <2>6. StatsLock!Request(c, m)
    BY <2>2, <2>3, <2>4, <2>5 DEF StatsLock!Request, StatsPhase, StatsWant
  <2> QED
    BY <2>6, StatsLockRequest
<1>5. CASE LockStats(c)
  <2>1. /\ pc[c] = "slock"
        /\ \E p \in {"copy1", "load"} : pc' = [pc EXCEPT ![c] = p]
        /\ statsLock' = [statsLock EXCEPT ![c] = StatsMode(req[c])]
        /\ Compatible(statsLock, c, StatsMode(req[c]))
        /\ UNCHANGED req
    BY <1>5 DEF LockStats, Goto, clientVars
  <2>2. StatsPhase[c] = "want" /\ StatsWant[c] = StatsMode(req[c])
    BY <2>1, <1>1 DEF StatsPhase, StatsWant, InStatsLock
  <2>3. StatsPhase' = [StatsPhase EXCEPT ![c] = "in"]
    BY <2>1, <1>1 DEF StatsPhase, InStatsLock, StatsMode
  <2>4. StatsWant' = StatsWant
    BY <2>1, <1>1 DEF StatsWant, InStatsLock
  <2>5. \A u \in Conns \ {c} :
          StatsPhase[u] = "in" => StatsWant[c] = "read" /\ StatsWant[u] = "read"
    BY <2>1, <2>2, <1>1 DEF Compatible, StatsPhase, StatsWant, InStatsLock
  <2>6. StatsLock!Grant(c)
    BY <2>2, <2>3, <2>4, <2>5 DEF StatsLock!Grant, StatsLock!Compatible, StatsPhase, StatsWant
  <2> QED
    BY <2>6 DEF StatsLock!Next
<1>6. CASE UnlockStats(c)
  <2>1. /\ pc[c] = "sunlock" /\ pc' = [pc EXCEPT ![c] = "send"]
        /\ statsLock' = [statsLock EXCEPT ![c] = "none"]
        /\ UNCHANGED req
    BY <1>6 DEF UnlockStats, Goto, clientVars
  <2>2. StatsPhase[c] = "in"
    BY <2>1, <1>1 DEF StatsPhase, InStatsLock
  <2>3. StatsPhase' = [StatsPhase EXCEPT ![c] = "out"]
    BY <2>1, <1>1 DEF StatsPhase, InStatsLock
  <2>4. StatsWant' = [StatsWant EXCEPT ![c] = "none"]
    BY <2>1, <1>1 DEF StatsWant, InStatsLock
  <2>5. StatsLock!Release(c)
    BY <2>2, <2>3, <2>4 DEF StatsLock!Release, StatsPhase, StatsWant
  <2> QED
    BY <2>5 DEF StatsLock!Next
<1>7. CASE LockTable(c)
  <2>1. /\ pc[c] = "lock" /\ pc' = [pc EXCEPT ![c] = "first"]
        /\ UNCHANGED <<statsLock, req>>
    BY <1>7 DEF LockTable, Goto, clientVars
  <2> QED
    BY <2>1, <1>1, StatsLockStutters
<1>8. CASE TableStep(c)
  BY <1>1, <1>8, TableStepShape, StatsLockStutters
<1>9. CASE StatsStep(c)
  BY <1>1, <1>9, StatsStepShape, StatsLockStutters DEF InStatsLock
<1>10. CASE Client(c)
  BY <1>1, <1>10, ClientShape, StatsLockStutters DEF Quiet
<1> QED
  BY <1>3, <1>4, <1>5, <1>6, <1>7, <1>8, <1>9, <1>10 DEF Step

(* table_skel.c, both locks: no thread asks for a lock it holds, waits in   *)
(* one mode and holds in another, or gives back what it does not hold.      *)
THEOREM LocksAreUsedRight == Spec => UsesLocks
<1>1. Init => TableLock!Init /\ StatsLock!Init
  BY DEF Init, TableLock!Init, StatsLock!Init
<1>2. IInv /\ [Next]_vars => [TableLock!Next]_(TableLock!lockVars)
  <2>1. UNCHANGED vars => UNCHANGED TableLock!lockVars
    BY TableLockStutters DEF vars, sharedVars, threadVars, clientVars, TableLock!lockVars,
       TablePhase, TableWant
  <2> QED
    BY <2>1, NextIsStep, TableLockStep
<1>3. IInv /\ [Next]_vars => [StatsLock!Next]_(StatsLock!lockVars)
  <2>1. UNCHANGED vars => UNCHANGED StatsLock!lockVars
    BY StatsLockStutters DEF vars, sharedVars, threadVars, clientVars, StatsLock!lockVars,
       StatsPhase, StatsWant
  <2> QED
    BY <2>1, NextIsStep, StatsLockStep
<1> QED
  BY <1>1, <1>2, <1>3, InductiveInvariant, PTL
     DEF Spec, UsesLocks, TableLock!Spec, StatsLock!Spec

-----------------------------------------------------------------------------
\* The server is a KVStore.

\* What the refinement needs beyond IInv: a PUT between its two steps has freed
\* the entry, and a PRINT past its first pass has seen data in every entry.
Passes ==
  /\ answer = [c \in Conns |-> answer[c]]
  /\ \A c \in Conns : At(c, "second", "put") => table[req[c].key] = Freed
  /\ \A c \in Conns : At(c, "second", "print") => \A k \in Keys : table[k] # NoData

LEMMA PassesInit == Init => Passes
  BY DEF Init, Passes, At

(* What a step leaves of the other connections.                             *)
LEMMA OthersStay ==
  ASSUME Basic, Passes, NEW c \in Conns, Step(c)
  PROVE  /\ answer' = [d \in Conns |-> answer'[d]]
         /\ \A d \in Conns \ {c} :
              pc'[d] = pc[d] /\ req'[d] = req[d] /\ net'[d] = net[d] /\ answer'[d] = answer[d]
<1> USE DEF Basic, TypeOK, Passes, Goto, sharedVars, threadVars, clientVars
<1>1. CASE Accept(c) \/ Receive(c) \/ ReceiveNothing(c) \/ ReceiveFails(c) \/ Send(c)
  BY <1>1 DEF Accept, Receive, ReceiveNothing, ReceiveFails, Send
<1>2. CASE LockTable(c) \/ UnlockTable(c) \/ LockStats(c) \/ UnlockStats(c)
  BY <1>2 DEF LockTable, UnlockTable, LockStats, UnlockStats
<1>3. CASE TableStep(c)
  BY <1>3 DEF TableStep, SizeOp, DelOp, GetOp, PutOp, PutStore, Measure, Fill, Finish
<1>4. CASE StatsStep(c)
  BY <1>4 DEF StatsStep, LoadTotal, StoreTotal, CountOp, CopyTotal, CopyCounters
<1>5. CASE Client(c)
  BY <1>5 DEF Client, Ask, TakeReply, Quit
<1> QED
  BY <1>1, <1>2, <1>3, <1>4, <1>5 DEF Step

(* A thread in the table that is not replacing data sees none that is freed. *)
LEMMA NothingFreed ==
  ASSUME IInv, NEW c \in Conns, pc[c] \in InTableLock, ~ At(c, "second", "put")
  PROVE  \A k \in Keys : table[k] # Freed
<1> SUFFICES ASSUME NEW k \in Keys, table[k] = Freed
             PROVE  FALSE
  OBVIOUS
<1>1. PICK d \in Conns : At(d, "second", "put")
  BY DEF IInv, FreedIsReplaced
<1>2. d # c
  BY <1>1
<1> QED
  BY <1>1, <1>2, ChangerAlone DEF IInv, At, InTableLock

LEMMA PassesNext == IInv /\ Passes /\ [Next]_vars => Passes'
<1> SUFFICES ASSUME IInv, Passes, [Next]_vars
             PROVE  Passes'
  OBVIOUS
<1>1. CASE UNCHANGED vars
  BY <1>1 DEF Passes, At, vars, sharedVars, threadVars, clientVars
<1>2. ASSUME NEW c \in Conns, Step(c)
      PROVE  Passes'
  <2>1. /\ Basic /\ pc \in [Conns -> PCs] /\ answer' = [d \in Conns |-> answer'[d]]
        /\ \A d \in Conns \ {c} : pc'[d] = pc[d] /\ req'[d] = req[d]
    BY <1>2, OthersStay DEF IInv, Basic, TypeOK
  <2>2. CASE ~ TableStep(c)
    <3>1. /\ UNCHANGED table
          /\ \/ pc'[c] # "second"
             \/ pc' = pc /\ req'[c] = req[c]
      BY <1>2, <2>1, <2>2, SocketShape, StatsStepShape, ClientShape
      DEF Step, LockTable, UnlockTable, LockStats, UnlockStats, Goto, InStatsLock, Quiet
    <3> QED
      BY <3>1, <2>1 DEF Passes, At
  <2>3. CASE TableStep(c)
    <3>1. req' = req /\ pc[c] \in InTableLock
      BY <2>3, TableStepShape DEF InTableLock
    <3>2. CASE SizeOp(c) \/ GetOp(c) \/ Fill(c)
      <4>1. table' = table /\ pc'[c] = "unlock"
        BY <3>2, <2>1 DEF SizeOp, GetOp, Fill, Finish, Goto, sharedVars
      <4> QED
        BY <4>1, <3>1, <2>1 DEF Passes, At
    <3>3. CASE Measure(c)
      <4>1. /\ table' = table /\ req[c].op \in {"keys", "print"}
            /\ req[c].op = "print" => pc' = pc \/ \A k \in Keys : table[k] # NoData
        BY <3>3 DEF Measure, sharedVars
      <4>2. pc[c] = "first"
        BY <3>3 DEF Measure
      <4> QED
        BY <4>1, <4>2, <3>1, <2>1 DEF Passes, At
    <3>4. CASE DelOp(c) \/ PutOp(c) \/ PutStore(c)
      <4>1. \A d \in Conns \ {c} : pc'[d] # "second"
        BY <3>4, <3>1, <2>1, ChangerAlone DEF DelOp, PutOp, PutStore, At, IInv, InTableLock
      <4>2. pc'[c] = "second" => req[c].op = "put" /\ table' = [table EXCEPT ![req[c].key] = Freed]
        BY <3>4, <2>1 DEF DelOp, PutOp, PutStore, At, Finish, Goto
      <4>3. req[c].op = "put" => req[c].key \in Keys
        BY RequestFields DEF IInv, Basic, TypeOK, AnyRequest
      <4>4. At(c, "second", "put")' => table'[req'[c].key] = Freed
        BY <4>2, <4>3, <3>1 DEF At, IInv, Basic, TypeOK
      <4> QED
        BY <4>1, <4>2, <4>4, <3>1, <2>1 DEF Passes, At
    <3> QED
      BY <2>3, <3>2, <3>3, <3>4 DEF TableStep
  <2> QED
    BY <2>2, <2>3
<1> QED
  BY <1>1, <1>2, NextIsStep

-----------------------------------------------------------------------------
\* The two functions of the refinement.
Map == [k \in Keys |->
          IF table[k] # Freed THEN table[k]
          ELSE req[CHOOSE c \in Conns : At(c, "second", "put") /\ req[c].key = k].val]
Pend == [c \in Conns |-> PendingOf(c)]

LEMMA OpOfRequest == \A r \in Requests : r.op \in Counted
  BY DEF Requests, Counted

(* With nothing freed the map is the table.                                 *)
LEMMA MapIsTable ==
  ASSUME TypeOK, \A k \in Keys : table[k] # Freed
  PROVE  Map = table
BY DEF Map, TypeOK

(* While data is freed, the map has what the thread is about to store.      *)
LEMMA MapWhileReplacing ==
  ASSUME IInv, NEW c \in Conns, At(c, "second", "put"), req[c].key \in Keys
  PROVE  Map = [table EXCEPT ![req[c].key] = IF @ = Freed THEN req[c].val ELSE @]
<1>1. \A d \in Conns : At(d, "second", "put") => d = c
  BY ChangerAlone DEF IInv, At, InTableLock
<1>2. \A k \in Keys : table[k] = Freed => k = req[c].key
  BY <1>1 DEF IInv, FreedIsReplaced
<1>3. (CHOOSE d \in Conns : At(d, "second", "put") /\ req[d].key = req[c].key) = c
  BY <1>1
<1>4. \A k \in Keys : Map[k] = IF table[k] = Freed THEN req[c].val ELSE table[k]
  <2> SUFFICES ASSUME NEW k \in Keys
               PROVE  Map[k] = IF table[k] = Freed THEN req[c].val ELSE table[k]
    OBVIOUS
  <2>1. CASE table[k] # Freed
    BY <2>1 DEF Map
  <2>2. CASE table[k] = Freed
    <3>1. k = req[c].key
      BY <1>2, <2>2
    <3>2. Map[k] = req[CHOOSE d \in Conns : At(d, "second", "put") /\ req[d].key = k].val
      BY <2>2 DEF Map
    <3> QED
      BY <1>3, <2>2, <3>1, <3>2
  <2> QED
    BY <2>1, <2>2
<1>5. table \in [Keys -> Values \union {Absent, Freed}]
  BY DEF IInv, Basic, TypeOK
<1>6. Map = [k \in Keys |-> IF table[k] = Freed THEN req[c].val ELSE table[k]]
  BY <1>4 DEF Map
<1> QED
  BY <1>2, <1>5, <1>6

(* The same after the step.                                                 *)
LEMMA MapIsTableNext ==
  ASSUME TypeOK', \A k \in Keys : table'[k] # Freed
  PROVE  Map' = table'
BY DEF Map, TypeOK

LEMMA MapWhileReplacingNext ==
  ASSUME IInv', NEW c \in Conns, At(c, "second", "put")', req'[c].key \in Keys
  PROVE  Map' = [table' EXCEPT ![req'[c].key] = IF @ = Freed THEN req'[c].val ELSE @]
<1>1. \A d \in Conns : At(d, "second", "put")' => d = c
  <2>1. \A d \in Conns : At(d, "second", "put")' => tableLock'[d] = "write"
    BY DEF IInv, Locks, LocksFit, At, InTableLock, TableMode
  <2> QED
    BY <2>1 DEF IInv, Locks, WriterAlone
<1>2. \A k \in Keys : table'[k] = Freed => k = req'[c].key
  BY <1>1 DEF IInv, FreedIsReplaced
<1>3. (CHOOSE d \in Conns : At(d, "second", "put")' /\ req'[d].key = req'[c].key) = c
  BY <1>1
<1>4. \A k \in Keys : Map'[k] = IF table'[k] = Freed THEN req'[c].val ELSE table'[k]
  <2> SUFFICES ASSUME NEW k \in Keys
               PROVE  Map'[k] = IF table'[k] = Freed THEN req'[c].val ELSE table'[k]
    OBVIOUS
  <2>1. CASE table'[k] # Freed
    BY <2>1 DEF Map
  <2>2. CASE table'[k] = Freed
    <3>1. k = req'[c].key
      BY <1>2, <2>2
    <3>2. Map'[k] = req'[CHOOSE d \in Conns : At(d, "second", "put")' /\ req'[d].key = k].val
      BY <2>2 DEF Map
    <3> QED
      BY <1>3, <2>2, <3>1, <3>2
  <2> QED
    BY <2>1, <2>2
<1>5. table' \in [Keys -> Values \union {Absent, Freed}]
  BY DEF IInv, Basic, TypeOK
<1>6. Map' = [k \in Keys |-> IF table'[k] = Freed THEN req'[c].val ELSE table'[k]]
  BY <1>4 DEF Map
<1> QED
  BY <1>2, <1>5, <1>6

(* A thread is asked, done or neither.                                      *)
LEMMA PendingIs ==
  ASSUME NEW c \in Conns
  PROVE  /\ req[c] \notin Requests => PendingOf(c) = Store!Nothing
         /\ req[c] \in Requests /\ IsAsked(c) => PendingOf(c) = Store!Asked(req[c])
         /\ req[c] \in Requests /\ IsDone(c) /\ ~ IsAsked(c) =>
              PendingOf(c) = Store!Done(req[c], IF pc[c] = "second" THEN [ok |-> TRUE]
                                                ELSE answer[c])
         /\ ~ IsAsked(c) /\ ~ IsDone(c) => PendingOf(c) = Store!Nothing
  BY DEF PendingOf, Store!Nothing, Store!Asked, Store!Done

LEMMA PendingIsNext ==
  ASSUME NEW c \in Conns
  PROVE  /\ req'[c] \notin Requests => PendingOf(c)' = Store!Nothing
         /\ req'[c] \in Requests /\ IsAsked(c)' => PendingOf(c)' = Store!Asked(req'[c])
         /\ req'[c] \in Requests /\ IsDone(c)' /\ ~ IsAsked(c)' =>
              PendingOf(c)' = Store!Done(req'[c], IF pc'[c] = "second" THEN [ok |-> TRUE]
                                                 ELSE answer'[c])
         /\ ~ IsAsked(c)' /\ ~ IsDone(c)' => PendingOf(c)' = Store!Nothing
  BY DEF PendingOf, Store!Nothing, Store!Asked, Store!Done

LEMMA OthersPending ==
  ASSUME Basic, Passes, NEW c \in Conns, Step(c)
  PROVE  Pend' = [Pend EXCEPT ![c] = PendingOf(c)']
<1>1. \A d \in Conns \ {c} : PendingOf(d)' = PendingOf(d)
  BY OthersStay DEF PendingOf, IsAsked, IsDone
<1> QED
  BY <1>1 DEF Pend

\* What a step of the store is in terms of Map and Pend.
LEMMA StoreStutters ==
  ASSUME Basic, Passes, NEW c \in Conns, Step(c), Map' = Map, PendingOf(c)' = PendingOf(c)
  PROVE  UNCHANGED Store!storeVars
<1>1. Pend' = Pend
  BY OthersPending DEF Pend
<1> QED
  BY <1>1 DEF Store!storeVars, Map, Pend

LEMMA StoreAsks ==
  ASSUME Basic, Passes, NEW c \in Conns, Step(c), Map' = Map,
         PendingOf(c) = Store!Nothing,
         NEW r \in Requests, PendingOf(c)' = Store!Asked(r)
  PROVE  Store!Next
<1>1. Pend' = [Pend EXCEPT ![c] = Store!Asked(r)] /\ Pend[c] = Store!Nothing
  BY OthersPending DEF Pend
<1>2. r \in Store!Requests
  BY DEF Requests, Store!Requests
<1>3. Pend'[c] = Store!Asked(r)
  BY <1>1 DEF Pend
<1>4. Pend'[c].state = "asked" /\ Pend'[c].req = r
  BY <1>3 DEF Store!Asked
<1>5. Store!Ask(c)
  BY <1>1, <1>2, <1>4 DEF Store!Ask, Map, Pend
<1> QED
  BY <1>5 DEF Store!Next

LEMMA StoreReturns ==
  ASSUME Basic, Passes, NEW c \in Conns, Step(c), Map' = Map,
         PendingOf(c).state = "done", PendingOf(c)' = Store!Nothing
  PROVE  Store!Next
<1>1. Pend' = [Pend EXCEPT ![c] = Store!Nothing] /\ Pend[c].state = "done"
  BY OthersPending DEF Pend
<1>2. Store!Return(c)
  BY <1>1 DEF Store!Return, Map, Pend
<1> QED
  BY <1>2 DEF Store!Next

LEMMA StoreTakesEffect ==
  ASSUME Basic, Passes, NEW c \in Conns, Step(c), NEW a,
         PendingOf(c) = Store!Asked(req[c]),
         Map' = After(Map, req[c]), IsAnswer(Map, req[c], a),
         PendingOf(c)' = Store!Done(req[c], a)
  PROVE  Store!Next
<1>1. /\ Pend' = [Pend EXCEPT ![c] = Store!Done(req[c], a)]
      /\ Pend[c] = Store!Asked(req[c])
      /\ Pend'[c] = Store!Done(req[c], a)
  BY OthersPending DEF Pend
<1>2. Map' = Store!After(Map, req[c]) /\ Store!IsAnswer(Map, req[c], a)
  <2>1. After(Map, req[c]) = Store!After(Map, req[c])
    BY DEF After, Store!After
  <2>2. Stored(Map) = Store!Stored(Map)
    BY DEF Stored, Store!Stored
  <2>3. IsAnswer(Map, req[c], a) = Store!IsAnswer(Map, req[c], a)
    BY <2>2 DEF IsAnswer, Store!IsAnswer
  <2> QED
    BY <2>1, <2>3
<1>3. /\ Pend[c].state = "asked" /\ Pend[c].req = req[c]
      /\ Pend'[c].state = "done" /\ Pend'[c].answer = a
  BY <1>1 DEF Store!Asked, Store!Done
<1>4. Store!TakeEffect(c)
  BY <1>1, <1>2, <1>3 DEF Store!TakeEffect, Map, Pend
<1> QED
  BY <1>4 DEF Store!Next

-----------------------------------------------------------------------------
\* The steps, one by one.

(* A step that leaves the table alone and is not about replacing data.      *)
LEMMA MapStays ==
  ASSUME IInv, Passes, NEW c \in Conns, Step(c), UNCHANGED table,
         ~ At(c, "second", "put"), ~ At(c, "second", "put")'
  PROVE  Map' = Map
<1>1. \A d \in Conns, k \in Keys : (At(d, "second", "put") /\ req[d].key = k)'
                                  <=> At(d, "second", "put") /\ req[d].key = k
  BY OthersStay DEF At, IInv
<1>2. \A d \in Conns : At(d, "second", "put") => req'[d] = req[d]
  BY OthersStay DEF At, IInv
<1>3. ASSUME NEW k \in Keys
      PROVE  Map'[k] = Map[k]
  <2>1. CASE table[k] # Freed
    BY <2>1 DEF Map
  <2>2. CASE table[k] = Freed
    <3> DEFINE d  == CHOOSE e \in Conns : At(e, "second", "put") /\ req[e].key = k
               dd == CHOOSE e \in Conns : (At(e, "second", "put") /\ req[e].key = k)'
    <3>1. d = dd
      BY <1>1
    <3>2. Map[k] = req[d].val /\ Map'[k] = req'[dd].val
      BY <2>2 DEF Map
    <3>3. d \in Conns /\ At(d, "second", "put")
      BY <2>2 DEF IInv, FreedIsReplaced
    <3> HIDE DEF d, dd
    <3> QED
      BY <1>2, <3>1, <3>2, <3>3
  <2> QED
    BY <2>1, <2>2
<1> QED
  BY <1>3 DEF Map

LEMMA StoreClient ==
  ASSUME IInv, Passes, NEW c \in Conns, Client(c)
  PROVE  [Store!Next]_(Store!storeVars)
<1>1. Basic /\ Step(c) /\ UNCHANGED <<table, pc, answer>> /\ TypeOK
  BY DEF IInv, Basic, Step, Client, Ask, TakeReply, Quit, sharedVars, threadVars
\* A client asks when it has nothing before the server.
<1>2. CASE \E r \in Asks : Ask(c, r)
  <2>1. PICK r \in Asks : Ask(c, r)
    BY <1>2
  <2>2. /\ pc[c] \in Quiet /\ net[c] = "empty"
        /\ net'[c] = "request" /\ req'[c] = r
        /\ \A d \in Conns \ {c} : req'[d] = req[d]
    BY <2>1, <1>1 DEF Ask, Basic, Synchronous, TypeOK
  <2>3. Map' = Map
    BY <2>2, <1>1, MapStays DEF At, Quiet
  <2>4. PendingOf(c) = Store!Nothing
    BY <2>2, PendingIs DEF IsAsked, IsDone, Quiet
  <2>5. CASE r \in Requests
    <3>1. PendingOf(c)' = Store!Asked(r)
      BY <2>2, <2>5, PendingIsNext DEF IsAsked
    <3> QED
      BY <2>3, <2>4, <2>5, <3>1, <1>1, StoreAsks
  <2>6. CASE r \notin Requests
    <3>1. PendingOf(c)' = Store!Nothing
      BY <2>2, <2>6, PendingIsNext
    <3> QED
      BY <2>3, <2>4, <3>1, <1>1, StoreStutters
  <2> QED
    BY <2>5, <2>6
\* A client takes its answer, or loses it, or leaves while it waits.
<1>3. CASE TakeReply(c) \/ Quit(c)
  <2>1. /\ UNCHANGED <<table, pc, req, answer>>
        /\ \/ net'[c] = net[c]
           \/ net[c] = "reply" /\ net'[c] = "empty"
    <3>1. CASE TakeReply(c)
      BY <1>1, <3>1 DEF TakeReply, TypeOK
    <3>2. CASE Quit(c)
      <4>1. net'[c] = IF net[c] = "reply" THEN "empty" ELSE net[c]
        BY <1>1, <3>2 DEF Quit, TypeOK
      <4>2. req' = req
        BY <3>2 DEF Quit
      <4> QED
        BY <4>1, <4>2, <1>1
    <3> QED
      BY <1>3, <3>1, <3>2
  <2>2. Map' = Map
    BY <2>1 DEF Map, At
  <2>3. CASE net'[c] = net[c] \/ req[c] \notin Requests
    <3>1. PendingOf(c)' = PendingOf(c)
      BY <2>1, <2>3, PendingIs, PendingIsNext DEF PendingOf, IsAsked, IsDone
    <3> QED
      BY <2>2, <3>1, <1>1, StoreStutters
  <2>4. CASE net[c] = "reply" /\ net'[c] = "empty" /\ req[c] \in Requests
    <3>1. pc[c] \in Quiet
      BY <2>4, <1>1 DEF Basic, Synchronous
    <3>2. PendingOf(c).state = "done"
      BY <2>4, <3>1, PendingIs DEF IsAsked, IsDone, Quiet, Store!Done
    <3>3. PendingOf(c)' = Store!Nothing
      BY <2>1, <2>4, <3>1, PendingIsNext DEF IsAsked, IsDone, Quiet
    <3> QED
      BY <2>2, <3>2, <3>3, <1>1, StoreReturns
  <2> QED
    BY <2>1, <2>3, <2>4
<1> QED
  BY <1>2, <1>3 DEF Client

LEMMA StoreSocket ==
  ASSUME IInv, Passes, NEW c \in Conns,
         Accept(c) \/ Receive(c) \/ ReceiveNothing(c) \/ ReceiveFails(c) \/ Send(c)
  PROVE  [Store!Next]_(Store!storeVars)
<1>1. /\ Basic /\ Step(c) /\ TypeOK /\ UNCHANGED <<table, req>>
      /\ Receive(c) \/ answer' = answer
      /\ pc'[c] \in {"receive", "lock", "slock", "send", "left", "spin", "closed"}
      /\ pc[c] \in {"unserved", "receive", "send"}
  BY SocketShape DEF IInv, Basic, Step, TypeOK, Accept, Receive, ReceiveNothing, ReceiveFails, Send
<1>2. Map' = Map
  BY <1>1, MapStays DEF At
<1>3. CASE Accept(c) \/ ReceiveNothing(c) \/ ReceiveFails(c)
  <2>1. net' = net /\ pc[c] \in Quiet /\ pc'[c] \in Quiet
    BY <1>1, <1>3 DEF Accept, ReceiveNothing, ReceiveFails, clientVars, Goto, Quiet, TypeOK
  <2>2. PendingOf(c)' = PendingOf(c)
    <3>1. answer' = answer
      BY <1>3 DEF Accept, ReceiveNothing, ReceiveFails
    <3> QED
      BY <2>1, <3>1, <1>1 DEF PendingOf, IsAsked, IsDone, Quiet
  <2> QED
    BY <2>2, <1>1, <1>2, StoreStutters
<1>4. CASE Receive(c)
  <2>1. net[c] = "request" /\ pc[c] = "receive" /\ net'[c] = "empty"
    BY <1>1, <1>4 DEF Receive, TypeOK
  <2>2. req[c] \in Requests => pc'[c] = "lock"
    BY <1>1, <1>4, OpOfRequest DEF Receive, Goto, TypeOK, Counted
  <2>3. PendingOf(c)' = PendingOf(c)
    BY <2>1, <2>2, <1>1, PendingIs, PendingIsNext DEF IsAsked
  <2> QED
    BY <2>3, <1>1, <1>2, StoreStutters
<1>5. CASE Send(c)
  <2>1. pc[c] = "send" /\ net[c] = "empty"
    BY <1>1, <1>5 DEF Send, Basic, Synchronous, Quiet, TypeOK
  <2>2. req[c] \in Requests => PendingOf(c) = Store!Done(req[c], answer[c])
    BY <2>1, PendingIs DEF IsAsked, IsDone
  <2>3. CASE net'[c] = "reply"
    <3>1. pc'[c] = "receive"
      BY <1>1, <1>5, <2>1, <2>3 DEF Send, Goto, TypeOK
    <3>2. answer' = answer
      BY <1>5 DEF Send
    <3>3. PendingOf(c)' = PendingOf(c)
      BY <2>2, <2>3, <3>1, <3>2, <1>1, PendingIs, PendingIsNext DEF IsAsked, IsDone
    <3> QED
      BY <3>3, <1>1, <1>2, StoreStutters
  <2>4. CASE net'[c] # "reply"
    <3>1. net'[c] = "empty" /\ pc'[c] \in {"receive", "closed"}
      BY <1>1, <1>5, <2>1, <2>4 DEF Send, Goto, TypeOK
    <3>2. PendingOf(c)' = Store!Nothing
      BY <3>1, PendingIsNext DEF IsAsked, IsDone
    <3>3. CASE req[c] \in Requests
      BY <2>2, <3>2, <3>3, <1>1, <1>2, StoreReturns DEF Store!Done
    <3>4. CASE req[c] \notin Requests
      BY <3>2, <3>4, <1>1, <1>2, PendingIs, StoreStutters
    <3> QED
      BY <3>3, <3>4
  <2> QED
    BY <2>3, <2>4
<1> QED
  BY <1>3, <1>4, <1>5

LEMMA StoreLocksStats ==
  ASSUME IInv, Passes, NEW c \in Conns,
         \/ LockTable(c) \/ UnlockTable(c) \/ LockStats(c) \/ UnlockStats(c)
         \/ StatsStep(c)
  PROVE  UNCHANGED Store!storeVars
<1>1. /\ Basic /\ Step(c) /\ TypeOK /\ UNCHANGED <<table, req, net>>
      /\ pc[c] \notin Quiet \union {"first", "second"} /\ pc'[c] # "second"
      /\ pc[c] = "lock" <=> pc'[c] = "first"
      /\ pc'[c] \notin Quiet \union {"lock"}
  BY DEF IInv, Basic, Step, TypeOK, LockTable, UnlockTable, LockStats, UnlockStats, Goto, Quiet,
         StatsStep, LoadTotal, StoreTotal, CountOp, CopyTotal, CopyCounters, clientVars, sharedVars
<1>2. Map' = Map
  BY <1>1, MapStays DEF At
<1>3. net[c] = "empty"
  BY <1>1 DEF Basic, Synchronous, TypeOK
<1>4. CASE req[c] \notin Requests
  BY <1>1, <1>2, <1>4, PendingIs, PendingIsNext, StoreStutters
<1>5. CASE req[c] \in Requests
  <2>1. pc[c] \notin {"copy1", "copy2"} /\ answer'[c] = answer[c]
    <3>1. req[c].op # "stats"
      BY <1>5, OpOfRequest DEF Counted
    <3>2. pc[c] \notin {"copy1", "copy2"}
      BY <3>1, <1>1 DEF Basic, PlacesFit
    <3> QED
      BY <3>2 DEF LockTable, UnlockTable, LockStats, UnlockStats,
                  StatsStep, LoadTotal, StoreTotal, CountOp, CopyTotal, CopyCounters
  <2>2. pc'[c] \notin {"copy1", "copy2"}
    <3>1. req[c].op # "stats"
      BY <1>5, OpOfRequest DEF Counted
    <3> QED
      BY <3>1, <2>1, <1>1 DEF LockTable, UnlockTable, LockStats, UnlockStats, Goto, TypeOK,
                  StatsStep, LoadTotal, StoreTotal, CountOp, CopyTotal, CopyCounters
  <2>3. pc[c] \in PCs /\ pc'[c] \in PCs
    BY <1>1 DEF TypeOK, LockTable, UnlockTable, LockStats, UnlockStats, Goto, PCs,
                  StatsStep, LoadTotal, StoreTotal, CountOp, CopyTotal, CopyCounters
  <2>4. PendingOf(c)' = PendingOf(c)
    <3>1. CASE pc[c] = "lock"
      BY <3>1, <1>1, <1>5, PendingIs, PendingIsNext DEF IsAsked
    <3>2. CASE pc[c] # "lock"
      <4>1. IsDone(c) /\ ~ IsAsked(c) /\ IsDone(c)' /\ ~ IsAsked(c)'
        BY <1>1, <1>3, <2>1, <2>2, <2>3, <3>2 DEF IsDone, IsAsked, PCs, Quiet
      <4> QED
        BY <4>1, <1>1, <1>5, <2>1, PendingIs, PendingIsNext
    <3> QED
      BY <3>1, <3>2
  <2> QED
    BY <2>4, <1>1, <1>2, StoreStutters
<1> QED
  BY <1>4, <1>5

(* A finite set can be listed, each of its elements once.                   *)
LEMMA ListOfSet ==
  ASSUME NEW S, IsFiniteSet(S)
  PROVE  /\ SetToSeq(S) \in Seq(S)
         /\ Len(SetToSeq(S)) = Cardinality(S)
         /\ {SetToSeq(S)[i] : i \in DOMAIN SetToSeq(S)} = S
<1> DEFINE n == Cardinality(S)
<1>1. n \in Nat
  BY FS_CardinalityType
<1>2. PICK f \in Bijection(1 .. n, S) : TRUE
  BY FS_CardinalityType DEF ExistsBijection
<1>3. f \in [1 .. n -> S] /\ IsInjective(f)
  BY <1>2 DEF Bijection, Injection, IsInjective
<1>4. SetToSeq(S) \in [1 .. n -> S] /\ IsInjective(SetToSeq(S))
  BY <1>3 DEF SetToSeq
<1> DEFINE g == SetToSeq(S)
<1>5. g \in [1 .. n -> S] /\ \A i, j \in 1 .. n : g[i] = g[j] => i = j
  BY <1>4 DEF IsInjective
<1> HIDE DEF g
<1>6. g \in Seq(S) /\ Len(g) = n
  BY <1>1, <1>5
<1>7. \A s \in S : \E i \in 1 .. n : g[i] = s
  <2>1. IsFiniteSet(1 .. n) /\ Cardinality(1 .. n) = n
    BY <1>1, FS_Interval
  <2>2. g \in Injection(1 .. n, S)
    BY <1>5 DEF Injection, IsInjective
  <2>3. g \in Surjection(1 .. n, S)
    BY <2>1, <2>2, FS_Injection
  <2> QED
    BY <2>3 DEF Surjection
<1>8. {g[i] : i \in DOMAIN g} = S
  BY <1>5, <1>7
<1> QED
  BY <1>6, <1>8 DEF g

\* What is assumed of the keys: so few that the one byte of the answer to SIZE
\* can count them.
FewKeys == IsFiniteSet(Keys) /\ Cardinality(Keys) < 256

(* An operation that reads the table in one step takes effect there.        *)
LEMMA StoreReads ==
  ASSUME FewKeys, IInv, Passes, NEW c \in Conns, SizeOp(c) \/ GetOp(c) \/ Fill(c)
  PROVE  Store!Next
<1>1. /\ Basic /\ Step(c) /\ TypeOK /\ pc[c] \in InTableLock
      /\ req' = req /\ table' = table /\ net' = net
      /\ pc'[c] = "unlock"
      /\ req[c].op \in {"size", "get", "keys", "print"}
      /\ pc[c] = "second" => req[c].op # "put"
  BY DEF IInv, Basic, Step, TableStep, TypeOK, SizeOp, GetOp, Fill, Finish, Goto, At, InTableLock,
         sharedVars, clientVars
<1>2. req[c] \in Requests
  BY <1>1, RequestFields DEF TypeOK, AnyRequest, Counted
<1>3. \A k \in Keys : table[k] # Freed
  BY <1>1, NothingFreed DEF At
<1>4. Map = table /\ Map' = Map
  BY <1>1, <1>3, MapIsTable, MapStays DEF At
<1>5. PendingOf(c) = Store!Asked(req[c])
  BY <1>1, <1>2, PendingIs DEF IsAsked, InTableLock, SizeOp, GetOp, Fill, At
<1>6. PendingOf(c)' = Store!Done(req[c], answer'[c])
  <2>1. net[c] = "empty"
    BY <1>1 DEF Basic, Synchronous, InTableLock, Quiet
  <2> QED
    BY <1>1, <1>2, <2>1, PendingIsNext DEF IsAsked, IsDone
<1>7. IsFiniteSet(Stored(table)) /\ Cardinality(Stored(table)) \in 0 .. 255
  <2>1. Stored(table) \subseteq Keys
    BY DEF Stored
  <2> QED
    <3>1. /\ IsFiniteSet(Stored(table)) /\ Cardinality(Stored(table)) \in Nat
          /\ Cardinality(Stored(table)) <= Cardinality(Keys) /\ Cardinality(Keys) \in Nat
      BY <2>1, FS_Subset, FS_CardinalityType DEF FewKeys
    <3> QED
      BY <3>1 DEF FewKeys
<1>8. IsAnswer(Map, req[c], answer'[c])
  <2>1. CASE SizeOp(c)
    <3>1. answer'[c] = [size |-> Cardinality(Stored(table))]
      BY <2>1, <1>7 DEF SizeOp, Finish, Passes
    <3> QED
      BY <2>1, <3>1, <1>4 DEF SizeOp, At, IsAnswer
  <2>2. CASE GetOp(c)
    <3>1. answer'[c] = [data |-> IF table[req[c].key] = Absent THEN NoData ELSE table[req[c].key]]
      BY <2>2 DEF GetOp, Finish, Passes
    <3> QED
      BY <2>2, <3>1, <1>4 DEF GetOp, At, IsAnswer
  <2>3. CASE Fill(c) /\ req[c].op = "keys"
    <3>1. answer'[c] = [keys |-> SetToSeq(Stored(table))]
      BY <2>3 DEF Fill, Finish, Passes
    <3>2. /\ DOMAIN answer'[c] = {"keys"}
          /\ answer'[c].keys = SetToSeq(Stored(table))
      BY <3>1
    <3> QED
      BY <2>3, <3>2, <1>4, <1>7, ListOfSet DEF IsAnswer
  <2>4. CASE Fill(c) /\ req[c].op = "print"
    <3>1. answer'[c] = [text |-> {<<k, table[k]>> : k \in Stored(table)}]
      BY <2>4 DEF Fill, Finish, Passes, Entries
    <3>2. \A k \in Stored(table) : table[k] # NoData
      BY <2>4 DEF Fill, At, Passes, Stored
    <3> QED
      BY <2>4, <3>1, <3>2, <1>4 DEF IsAnswer
  <2> QED
    BY <2>1, <2>2, <2>3, <2>4 DEF Fill
<1>9. Map' = After(Map, req[c])
  BY <1>1, <1>4 DEF After
<1> QED
  BY <1>1, <1>5, <1>6, <1>8, <1>9, StoreTakesEffect

(* DEL, and PUT of a new key, change the table at once.                     *)
LEMMA StoreChanges ==
  ASSUME IInv, IInv', Passes, NEW c \in Conns,
         DelOp(c) \/ (PutOp(c) /\ table[req[c].key] = Absent)
  PROVE  Store!Next
<1>1. /\ Basic /\ Step(c) /\ TypeOK /\ TypeOK' /\ pc[c] = "first"
      /\ req' = req /\ net' = net /\ pc'[c] = "unlock"
      /\ req[c].op \in {"put", "del"}
  BY DEF IInv, Basic, Step, TableStep, TypeOK, DelOp, PutOp, Finish, Goto, At, clientVars
<1>2. /\ req[c] \in Requests /\ req[c].key \in Keys
      /\ req[c].op = "put" => req[c].val \in Values
  BY <1>1, RequestFields DEF TypeOK, AnyRequest, Counted
<1>3. \A k \in Keys : table[k] # Freed
  BY <1>1, NothingFreed DEF At, InTableLock
<1>4. table' = After(table, req[c])
  BY ServerAssumption DEF DelOp, PutOp, At, After, Finish
<1>5. \A k \in Keys : table'[k] # Freed
  <2>1. \E v \in Values \union {Absent} : table' = [table EXCEPT ![req[c].key] = v]
    BY <1>2 DEF DelOp, PutOp, At
  <2> QED
    BY <2>1, <1>1, <1>3, ServerAssumption DEF TypeOK
<1>6. Map = table /\ Map' = table'
  BY <1>1, <1>3, <1>5, MapIsTable, MapIsTableNext
<1>7. PendingOf(c) = Store!Asked(req[c])
  BY <1>1, <1>2, PendingIs DEF IsAsked
<1>8. PendingOf(c)' = Store!Done(req[c], answer'[c])
  <2>1. net[c] = "empty"
    BY <1>1 DEF Basic, Synchronous, Quiet
  <2> QED
    BY <1>1, <1>2, <2>1, PendingIsNext DEF IsAsked, IsDone
<1>9. IsAnswer(Map, req[c], answer'[c])
  <2>1. CASE DelOp(c)
    <3>1. answer'[c] = [ok |-> table[req[c].key] # Absent]
      BY <2>1 DEF DelOp, Finish, Passes
    <3> QED
      BY <2>1, <3>1, <1>6 DEF DelOp, At, IsAnswer
  <2>2. CASE PutOp(c) /\ table[req[c].key] = Absent
    <3>1. answer'[c] = [ok |-> TRUE]
      BY <2>2 DEF PutOp, Finish, Passes
    <3> QED
      BY <2>2, <3>1 DEF PutOp, At, IsAnswer
  <2> QED
    BY <2>1, <2>2
<1> QED
  BY <1>1, <1>4, <1>6, <1>7, <1>8, <1>9, StoreTakesEffect

(* PUT of an old key takes effect where it frees the old data.              *)
LEMMA StoreReplaces ==
  ASSUME IInv, IInv', Passes, NEW c \in Conns,
         PutOp(c), table[req[c].key] # Absent
  PROVE  Store!Next
<1>1. /\ Basic /\ Step(c) /\ TypeOK /\ TypeOK' /\ pc[c] = "first" /\ req[c].op = "put"
      /\ req' = req /\ net' = net /\ pc'[c] = "second"
      /\ table' = [table EXCEPT ![req[c].key] = Freed]
  BY DEF IInv, Basic, Step, TableStep, TypeOK, PutOp, Finish, Goto, At, clientVars
<1>2. req[c] \in Requests /\ req[c].key \in Keys /\ req[c].val \in Values
  BY <1>1, RequestFields DEF TypeOK, AnyRequest, Counted
<1>3. \A k \in Keys : table[k] # Freed
  BY <1>1, NothingFreed DEF At, InTableLock
<1>4. Map = table
  BY <1>1, <1>3, MapIsTable
<1>5. Map' = [table EXCEPT ![req[c].key] = req[c].val]
  <2>1. Map' = [table' EXCEPT ![req[c].key] = IF @ = Freed THEN req[c].val ELSE @]
    BY <1>1, <1>2, MapWhileReplacingNext DEF At
  <2> QED
    BY <2>1, <1>1, <1>2 DEF TypeOK
<1>6. Map' = After(Map, req[c])
  BY <1>1, <1>4, <1>5 DEF After
<1>7. PendingOf(c) = Store!Asked(req[c])
  BY <1>1, <1>2, PendingIs DEF IsAsked
<1>8. PendingOf(c)' = Store!Done(req[c], [ok |-> TRUE])
  <2>1. net[c] = "empty"
    BY <1>1 DEF Basic, Synchronous, Quiet
  <2> QED
    BY <1>1, <1>2, <2>1, PendingIsNext DEF IsAsked, IsDone
<1>9. IsAnswer(Map, req[c], [ok |-> TRUE])
  BY <1>1 DEF IsAnswer
<1> QED
  BY <1>1, <1>6, <1>7, <1>8, <1>9, StoreTakesEffect

(* Where it stores the new data nothing is to be seen, nor where the table  *)
(* is measured.                                                             *)
LEMMA StorePutStore ==
  ASSUME IInv, IInv', Passes, NEW c \in Conns, PutStore(c)
  PROVE  UNCHANGED Store!storeVars
<1>1. /\ Basic /\ Step(c) /\ TypeOK /\ TypeOK' /\ pc[c] = "second" /\ req[c].op = "put"
      /\ req' = req /\ net' = net /\ pc'[c] = "unlock"
      /\ table' = [table EXCEPT ![req[c].key] = req[c].val]
      /\ answer'[c] = [ok |-> TRUE]
  BY DEF IInv, Basic, Step, TableStep, TypeOK, PutStore, Finish, Goto, At, clientVars, Passes
<1>2. req[c] \in Requests /\ req[c].key \in Keys /\ req[c].val \in Values
  BY <1>1, RequestFields DEF TypeOK, AnyRequest, Counted
<1>3. At(c, "second", "put") /\ table[req[c].key] = Freed
  BY <1>1 DEF At, Passes
<1>4. Map = [table EXCEPT ![req[c].key] = req[c].val]
  BY <1>1, <1>2, <1>3, MapWhileReplacing DEF TypeOK
<1>5. \A k \in Keys : table'[k] # Freed
  <2>1. \A d \in Conns \ {c} : ~ At(d, "second", "put")
    BY <1>1, ChangerAlone DEF IInv, At, InTableLock
  <2>2. \A k \in Keys \ {req[c].key} : table[k] # Freed
    BY <2>1 DEF IInv, FreedIsReplaced
  <2> QED
    BY <2>2, <1>1, <1>2, ServerAssumption DEF TypeOK
<1>6. Map' = Map
  BY <1>1, <1>4, <1>5, MapIsTableNext
<1>7. net[c] = "empty"
  BY <1>1 DEF Basic, Synchronous, Quiet
<1>8. PendingOf(c)' = PendingOf(c)
  BY <1>1, <1>2, <1>7, PendingIs, PendingIsNext DEF IsAsked, IsDone
<1> QED
  BY <1>1, <1>6, <1>8, StoreStutters

LEMMA StoreMeasure ==
  ASSUME IInv, Passes, NEW c \in Conns, Measure(c)
  PROVE  UNCHANGED Store!storeVars
<1>1. /\ Basic /\ Step(c) /\ TypeOK /\ pc[c] = "first" /\ pc'[c] \in {"first", "second"}
      /\ req[c].op \in {"keys", "print"} /\ req' = req /\ net' = net /\ table' = table
  BY DEF IInv, Basic, Step, TableStep, TypeOK, Measure, Goto, clientVars, sharedVars
<1>2. req[c] \in Requests
  BY <1>1, RequestFields DEF TypeOK, AnyRequest, Counted
<1>3. Map' = Map
  BY <1>1, MapStays DEF At
<1>4. PendingOf(c)' = PendingOf(c)
  BY <1>1, <1>2, PendingIs, PendingIsNext DEF IsAsked
<1> QED
  BY <1>1, <1>3, <1>4, StoreStutters

-----------------------------------------------------------------------------
LEMMA StoreStep ==
  ASSUME FewKeys, IInv, IInv', Passes, [Next]_vars
  PROVE  [Store!Next]_(Store!storeVars)
<1>1. CASE UNCHANGED vars
  BY <1>1 DEF vars, sharedVars, threadVars, clientVars, Store!storeVars, PendingOf, IsAsked, IsDone,
              At
<1>2. ASSUME NEW c \in Conns, Step(c)
      PROVE  [Store!Next]_(Store!storeVars)
  <2>1. CASE TableStep(c)
    BY <2>1, StoreReads, StoreChanges, StoreReplaces, StorePutStore, StoreMeasure DEF TableStep
  <2>2. CASE ~ TableStep(c)
    BY <1>2, <2>2, StoreClient, StoreSocket, StoreLocksStats DEF Step
  <2> QED
    BY <2>1, <2>2
<1> QED
  BY <1>1, <1>2, NextIsStep

(* table_skel.c, network_server.c: the clients see one map that changes     *)
(* atomically.  Every request that a client sends takes effect once, after  *)
(* it was sent and before its answer is back, and is answered as table.h    *)
(* promises; with 256 keys or more the answer to SIZE would be wrong.       *)
THEOREM ServerIsAStore ==
  ASSUME FewKeys
  PROVE  Spec => ImplementsKVStore
<1>1. Init => Store!Init
  <2> SUFFICES ASSUME Init
               PROVE  Store!Init
    OBVIOUS
  <2>1. Map = Empty
    BY ServerAssumption DEF Init, Map, Empty
  <2>2. \A c \in Conns : PendingOf(c) = Store!Nothing
    BY PendingIs DEF Init, IsAsked, IsDone
  <2> QED
    BY <2>1, <2>2 DEF Store!Init, Map, Empty, Store!Empty
<1>2. Spec => [](IInv /\ Passes)
  <2>1. IInv /\ Passes /\ [Next]_vars => Passes'
    BY PassesNext
  <2> QED
    BY <2>1, InductiveInvariant, PassesInit, PTL DEF Spec
<1>3. IInv /\ IInv' /\ Passes /\ [Next]_vars => [Store!Next]_(Store!storeVars)
  BY StoreStep
<1> QED
  BY <1>1, <1>2, <1>3, PTL DEF Spec, ImplementsKVStore, Store!Spec

-----------------------------------------------------------------------------
\* Sums over a finite set, as numbers of units: element x of S stands for f[x]
\* pairs.
Units(f, S) == UNION {{x} \X (1 .. f[x]) : x \in S}

\* What MapThenSumSet computes: the sum of each subset of S.
AddsUp(g, f, S) ==
  g = [s \in SUBSET S |->
         IF s = {} THEN 0
         ELSE LET x == CHOOSE x \in s : TRUE IN f[x] + g[s \ {x}]]

LEMMA UnitsAre == \A f, S : Units(f, S) = {u \in S \X Int : u[2] \in 1 .. f[u[1]]}
  BY DEF Units

(* Natural induction, over a set.                                           *)
LEMMA NatInduct ==
  ASSUME NEW A, 0 \in A, \A n \in Nat : n \in A => n + 1 \in A
  PROVE  Nat \subseteq A
<1> SUFFICES ASSUME Nat \ A # {}
             PROVE  FALSE
  OBVIOUS
<1> DEFINE R == OpToRel(<, Nat)
<1>1. IsWellFoundedOn(R, Nat)
  BY NatLessThanWellFounded
<1>2. \A x, y \in Nat : y < x => <<y, x>> \in R
  BY DEF OpToRel
<1> HIDE DEF R
<1>3. PICK x \in Nat \ A : \A y \in Nat \ A : ~ (<<y, x>> \in R)
  BY <1>1, WFMin
<1>4. x # 0 /\ x - 1 \in Nat /\ x - 1 < x
  BY <1>3
<1>5. x - 1 \in A
  BY <1>2, <1>3, <1>4
<1>6. x - 1 + 1 = x
  BY <1>3
<1> QED
  BY <1>3, <1>4, <1>5, <1>6

LEMMA UnitsFinite ==
  ASSUME NEW S, IsFiniteSet(S), NEW f \in [S -> Nat], NEW T \in SUBSET S
  PROVE  IsFiniteSet(Units(f, T)) /\ Cardinality(Units(f, T)) \in Nat
<1> DEFINE h == [x \in T |-> {x} \X (1 .. f[x])]
           H == {{x} \X (1 .. f[x]) : x \in T}
<1>1. IsFiniteSet(T)
  BY FS_Subset
<1>2. h \in Surjection(T, H)
  BY DEF Surjection
<1>3. IsFiniteSet(H)
  BY <1>1, <1>2, FS_Surjection
<1>4. \A x \in T : IsFiniteSet({x} \X (1 .. f[x]))
  <2> SUFFICES ASSUME NEW x \in T
               PROVE  IsFiniteSet({x} \X (1 .. f[x]))
    OBVIOUS
  <2>1. IsFiniteSet({x})
    BY FS_Singleton
  <2>2. f[x] \in Int
    OBVIOUS
  <2>3. IsFiniteSet(1 .. f[x])
    BY <2>2, FS_Interval
  <2> QED
    BY <2>1, <2>3, FS_Product
<1>5. IsFiniteSet(UNION H)
  BY <1>3, <1>4, FS_UNION
<1> QED
  BY <1>5, FS_CardinalityType DEF Units

(* One element more adds its number of units.                               *)
LEMMA UnitsOfOneMore ==
  ASSUME NEW S, IsFiniteSet(S), NEW f \in [S -> Nat], NEW T \in SUBSET S, NEW x \in T
  PROVE  Cardinality(Units(f, T)) = f[x] + Cardinality(Units(f, T \ {x}))
<1> DEFINE U == {x} \X (1 .. f[x])
           V == Units(f, T \ {x})
<1>1. Units(f, T) = U \union V
  BY DEF Units
<1>2. U \intersect V = {}
  BY UnitsAre
<1>3. IsFiniteSet(U) /\ Cardinality(U) = f[x]
  <2>1. IsFiniteSet({x}) /\ Cardinality({x}) = 1
    BY FS_Singleton
  <2>2. f[x] \in Nat
    OBVIOUS
  <2>3. IsFiniteSet(1 .. f[x]) /\ Cardinality(1 .. f[x]) = f[x]
    BY <2>2, FS_Interval
  <2>4. IsFiniteSet(U) /\ Cardinality(U) = 1 * Cardinality(1 .. f[x])
    BY <2>1, <2>3, FS_Product
  <2> QED
    BY <2>2, <2>3, <2>4
<1>4. IsFiniteSet(V) /\ Cardinality(V) \in Nat
  BY UnitsFinite
<1> HIDE DEF U, V
<1>5. Cardinality(U \union V) = Cardinality(U) + Cardinality(V) - Cardinality(U \intersect V)
  BY <1>3, <1>4, FS_Union
<1>6. f[x] \in Nat
  OBVIOUS
<1>7. Cardinality(U \union V) = f[x] + Cardinality(V)
  <2>1. Cardinality(U \intersect V) = 0
    BY <1>2, FS_EmptySet
  <2> QED
    BY <2>1, <1>3, <1>4, <1>5, <1>6
<1> QED
  BY <1>1, <1>7 DEF V

LEMMA SumExists ==
  ASSUME NEW S, IsFiniteSet(S), NEW f \in [S -> Nat]
  PROVE  \E g : AddsUp(g, f, S)
<1> DEFINE g == [s \in SUBSET S |-> Cardinality(Units(f, s))]
<1>1. Units(f, {}) = {}
  BY DEF Units
<1>2. ASSUME NEW s \in SUBSET S, NEW x \in s
      PROVE  Cardinality(Units(f, s)) = f[x] + Cardinality(Units(f, s \ {x}))
  BY UnitsOfOneMore
<1>3. ASSUME NEW s \in SUBSET S
      PROVE  g[s] = IF s = {} THEN 0
                    ELSE LET x == CHOOSE x \in s : TRUE IN f[x] + g[s \ {x}]
  BY <1>1, <1>2, FS_EmptySet
<1> QED
  BY <1>3 DEF AddsUp

LEMMA SumIsCount ==
  ASSUME NEW S, IsFiniteSet(S), NEW f \in [S -> Nat], NEW g, AddsUp(g, f, S)
  PROVE  g[S] = Cardinality(Units(f, S))
<1> DEFINE A == {n \in Nat : \A T \in SUBSET S : Cardinality(T) = n => g[T] = Cardinality(Units(f, T))}
<1>0. \A T \in SUBSET S : IsFiniteSet(T) /\ Cardinality(T) \in Nat
  BY FS_Subset, FS_CardinalityType
<1>1. 0 \in A
  <2> SUFFICES ASSUME NEW T \in SUBSET S, Cardinality(T) = 0
               PROVE  g[T] = Cardinality(Units(f, T))
    OBVIOUS
  <2>1. T = {}
    BY <1>0, FS_EmptySet
  <2>2. Units(f, {}) = {} /\ g[{}] = 0
    BY DEF Units, AddsUp
  <2> QED
    BY <2>1, <2>2, FS_EmptySet
<1>2. ASSUME NEW n \in Nat, n \in A
      PROVE  n + 1 \in A
  <2> SUFFICES ASSUME NEW T \in SUBSET S, Cardinality(T) = n + 1
               PROVE  g[T] = Cardinality(Units(f, T))
    OBVIOUS
  <2> DEFINE x == CHOOSE x \in T : TRUE
  <2>1. T # {}
    BY FS_EmptySet
  <2>2. g[T] = f[x] + g[T \ {x}]
    BY <2>1 DEF AddsUp
  <2>3. x \in T
    BY <2>1
  <2> HIDE DEF x
  <2>4. Cardinality(T \ {x}) = n
    BY <1>0, <2>3, FS_RemoveElement
  <2>5. g[T \ {x}] = Cardinality(Units(f, T \ {x}))
    BY <1>2, <2>4
  <2> QED
    BY <2>2, <2>3, <2>5, UnitsOfOneMore
<1> HIDE DEF A
<1>3. Nat \subseteq A
  BY <1>1, <1>2, NatInduct
<1> QED
  BY <1>0, <1>3 DEF A


\* The sums of EveryOpCountedOnce and StatsAnswerConsistent.
LEMMA SumOfExecuted ==
  ASSUME IsFiniteSet(Conns), NEW e \in [Conns -> [Counted -> Nat]], NEW o \in Counted
  PROVE  MapThenSumSet(LAMBDA c : e[c][o], Conns)
           = Cardinality(Units([c \in Conns |-> e[c][o]], Conns))
<1> DEFINE f == [c \in Conns |-> e[c][o]]
           F(h) == [s \in SUBSET Conns |->
                   IF s = {} THEN 0
                   ELSE e[CHOOSE x \in s : TRUE][o] + h[s \ {CHOOSE x \in s : TRUE}]]
           h == CHOOSE h : h = F(h)
<1>1. MapThenSumSet(LAMBDA c : e[c][o], Conns) = h[Conns]
  BY DEF MapThenSumSet, MapThenFoldSet
<1>2. \A g : AddsUp(g, f, Conns) <=> g = F(g)
  <2> SUFFICES ASSUME NEW g
               PROVE  AddsUp(g, f, Conns) <=> g = F(g)
    OBVIOUS
  <2>1. [s \in SUBSET Conns |-> IF s = {} THEN 0
                                ELSE f[CHOOSE x \in s : TRUE] + g[s \ {CHOOSE x \in s : TRUE}]] = F(g)
    <3>1. \A s \in SUBSET Conns : s # {} => f[CHOOSE x \in s : TRUE] = e[CHOOSE x \in s : TRUE][o]
      OBVIOUS
    <3> HIDE DEF f
    <3> QED
      BY <3>1
  <2> QED
    BY <2>1 DEF AddsUp
<1>3. f \in [Conns -> Nat]
  OBVIOUS
<1> HIDE DEF F, f
<1>4. h = F(h)
  BY <1>2, <1>3, SumExists
<1>5. AddsUp(h, f, Conns)
  BY <1>2, <1>4
<1> HIDE DEF h
<1>6. h[Conns] = Cardinality(Units(f, Conns))
  BY <1>3, <1>5, SumIsCount
<1> QED
  BY <1>1, <1>6 DEF f

LEMMA CountedFinite == IsFiniteSet(Counted)
<1>1. \A x : IsFiniteSet({x})
  BY FS_Singleton
<1>2. \A S, x : IsFiniteSet(S) => IsFiniteSet(S \union {x})
  BY FS_AddElement
<1>3. Counted = {"size"} \union {"del"} \union {"get"} \union {"put"} \union {"keys"} \union {"print"}
  BY DEF Counted
<1> QED
  BY <1>1, <1>2, <1>3

LEMMA SumOfCounters ==
  ASSUME NEW n \in [Counted -> Nat]
  PROVE  MapThenSumSet(LAMBDA o : n[o], Counted) = Cardinality(Units(n, Counted))
<1> DEFINE F(h) == [s \in SUBSET Counted |->
                   IF s = {} THEN 0
                   ELSE n[CHOOSE x \in s : TRUE] + h[s \ {CHOOSE x \in s : TRUE}]]
           h == CHOOSE h : h = F(h)
<1>1. MapThenSumSet(LAMBDA o : n[o], Counted) = h[Counted]
  BY DEF MapThenSumSet, MapThenFoldSet
<1>2. \A g : AddsUp(g, n, Counted) <=> g = F(g)
  BY DEF AddsUp
<1>3. IsFiniteSet(Counted)
  BY CountedFinite
<1> HIDE DEF F
<1>4. h = F(h)
  BY <1>2, <1>3, SumExists
<1>5. AddsUp(h, n, Counted)
  BY <1>2, <1>4
<1> HIDE DEF h
<1> QED
  BY <1>1, <1>3, <1>5, SumIsCount

-----------------------------------------------------------------------------
\* The statistics.
Executed(o) == [c \in Conns |-> executed[c][o]]
Counting == {c \in Conns : pc[c] = "count"}

\* What a thread has copied of the total is the total, until it has used it.
SeenTotal == \A c \in Conns : pc[c] \in {"store", "copy2"} => seen[c].total = stats.total

\* The two sums of EveryOpCountedOnce.
OpsCounted ==
  \A o \in Counted :
    Cardinality(Units(Executed(o), Conns)) = stats.counter[o] + Cardinality(Uncounted(o))
TotalCounted ==
  stats.total = Cardinality(Units(stats.counter, Counted)) + Cardinality(Counting)

\* Of the operations of one thread the last alone may be missing.
OwnCounted ==
  \A c \in Conns, o \in Counted :
    executed[c][o] <= stats.counter[o] + (IF c \in Uncounted(o) THEN 1 ELSE 0)

StatsAnswered ==
  \A c \in Conns :
    pc[c] \in {"sunlock", "send"} /\ req[c].op = "stats" /\ answer[c] # Refused =>
      /\ answer[c].counter \in [Counted -> Nat]
      /\ answer[c].total = Cardinality(Units(answer[c].counter, Counted))
      /\ \A o \in Counted : answer[c].counter[o] >= executed[c][o]

CountInv == SeenTotal /\ OpsCounted /\ TotalCounted /\ OwnCounted /\ StatsAnswered

(* A thread in update_stats is alone in stats_mutex.                        *)
LEMMA UpdaterAlone ==
  ASSUME IInv, NEW c \in Conns, pc[c] \in {"load", "store", "count"}
  PROVE  \A d \in Conns \ {c} : pc[d] \notin InStatsLock
<1>1. statsLock[c] = "write"
  BY DEF IInv, Basic, PlacesFit, Locks, LocksFit, InStatsLock, StatsMode, Counted
<1>2. \A d \in Conns \ {c} : statsLock[d] = "none"
  BY <1>1 DEF IInv, Locks, WriterAlone
<1> QED
  BY <1>2 DEF IInv, Locks, LocksFit, StatsMode

(* A thread in the memcpy of OP_STATS has no updater beside it.             *)
LEMMA ReaderSeesNoUpdate ==
  ASSUME IInv, NEW c \in Conns, pc[c] \in InStatsLock
  PROVE  \A d \in Conns \ {c} : pc[d] \notin {"load", "store", "count"}
  BY UpdaterAlone

(* One unit more for each sum.                                              *)
LEMMA OneUnitMore ==
  ASSUME NEW S, IsFiniteSet(S), NEW f \in [S -> Nat], NEW x \in S,
         NEW g, g = [f EXCEPT ![x] = @ + 1]
  PROVE  Cardinality(Units(g, S)) = Cardinality(Units(f, S)) + 1
<1>1. /\ g \in [S -> Nat] /\ g[x] = f[x] + 1 /\ f[x] \in Nat
      /\ \A y \in S \ {x} : g[y] = f[y]
  OBVIOUS
<1>2. Units(g, S) = Units(f, S) \union {<<x, f[x] + 1>>}
  <2>1. \A y \in S, i \in Int : i \in 1 .. g[y] <=> i \in 1 .. f[y] \/ (y = x /\ i = f[x] + 1)
    BY <1>1
  <2>2. <<x, f[x] + 1>> \in S \X Int
    BY <1>1
  <2>3. ASSUME NEW u \in S \X Int
        PROVE  u[2] \in 1 .. g[u[1]] <=> u[2] \in 1 .. f[u[1]] \/ u = <<x, f[x] + 1>>
    <3>1. u = <<u[1], u[2]>> /\ u[1] \in S /\ u[2] \in Int
      OBVIOUS
    <3>2. u = <<x, f[x] + 1>> <=> u[1] = x /\ u[2] = f[x] + 1
      BY <3>1
    <3> QED
      BY <3>1, <3>2, <2>1
  <2>4. /\ \A u : u \in Units(g, S) <=> u \in S \X Int /\ u[2] \in 1 .. g[u[1]]
        /\ \A u : u \in Units(f, S) <=> u \in S \X Int /\ u[2] \in 1 .. f[u[1]]
    BY UnitsAre
  <2> QED
    BY <2>2, <2>3, <2>4
<1>3. <<x, f[x] + 1>> \notin Units(f, S)
  BY <1>1, UnitsAre
<1>4. IsFiniteSet(Units(f, S))
  BY UnitsFinite
<1> QED
  BY <1>2, <1>3, <1>4, FS_AddElement

LEMMA CountInit == IsFiniteSet(Conns) /\ Init => CountInv
<1> SUFFICES ASSUME IsFiniteSet(Conns), Init
             PROVE  CountInv
  OBVIOUS
<1>1. \A S, f : (\A x \in S : f[x] = 0) => Units(f, S) = {}
  BY DEF Units
<1>2. \A o \in Counted : Uncounted(o) = {}
  BY DEF Init, Uncounted
<1>3. Counting = {}
  BY DEF Init, Counting
<1>4. OpsCounted /\ TotalCounted
  <2>1. \A o \in Counted : Units(Executed(o), Conns) = {}
    BY <1>1 DEF Init, Executed
  <2>2. Units(stats.counter, Counted) = {}
    BY <1>1 DEF Init
  <2>3. stats.total = 0 /\ \A o \in Counted : stats.counter[o] = 0
    BY DEF Init
  <2> QED
    BY <2>1, <2>2, <2>3, <1>2, <1>3, FS_EmptySet DEF OpsCounted, TotalCounted
<1> QED
  BY <1>2, <1>4 DEF Init, CountInv, SeenTotal, OwnCounted, StatsAnswered

(* A step that counts nothing and executes nothing.                         *)
LEMMA CountKept ==
  ASSUME IInv, CountInv, UNCHANGED <<executed, stats>>,
         \A c \in Conns, o \in Counted : c \in Uncounted(o)' <=> c \in Uncounted(o),
         \A c \in Conns : pc'[c] = "count" <=> pc[c] = "count"
  PROVE  OpsCounted' /\ TotalCounted' /\ OwnCounted'
<1>1. \A o \in Counted : Uncounted(o)' = Uncounted(o)
  BY DEF Uncounted
<1>2. Counting' = Counting
  BY DEF Counting
<1>3. \A o : Executed(o)' = Executed(o)
  BY DEF Executed
<1> QED
  BY <1>1, <1>2, <1>3 DEF CountInv, OpsCounted, TotalCounted, OwnCounted

\* What a step leaves alone of what the other threads have seen.
LEMMA OthersSeen ==
  ASSUME IInv, NEW c \in Conns, Step(c)
  PROVE  \A d \in Conns \ {c} : seen'[d] = seen[d] /\ executed'[d] = executed[d]
<1> USE DEF IInv, Basic, TypeOK, sharedVars, threadVars, clientVars, Forget
<1>1. CASE Accept(c) \/ Receive(c) \/ ReceiveNothing(c) \/ ReceiveFails(c) \/ Send(c)
  BY <1>1 DEF Accept, Receive, ReceiveNothing, ReceiveFails, Send
<1>2. CASE LockTable(c) \/ UnlockTable(c) \/ LockStats(c) \/ UnlockStats(c)
  BY <1>2 DEF LockTable, UnlockTable, LockStats, UnlockStats
<1>3. CASE TableStep(c)
  BY <1>3 DEF TableStep, SizeOp, DelOp, GetOp, PutOp, PutStore, Measure, Fill, Finish
<1>4. CASE StatsStep(c)
  BY <1>4 DEF StatsStep, LoadTotal, StoreTotal, CountOp, CopyTotal, CopyCounters
<1>5. CASE Client(c)
  BY <1>5 DEF Client, Ask, TakeReply, Quit
<1> QED
  BY <1>1, <1>2, <1>3, <1>4, <1>5 DEF Step

(* An operation that is done is one more to be counted.                     *)
LEMMA CountFinish ==
  ASSUME IsFiniteSet(Conns), IInv, CountInv, NEW c \in Conns, NEW a, Finish(c, a),
         req[c].op \in Counted, pc[c] \in {"first", "second"}, UNCHANGED <<stats, req>>
  PROVE  OpsCounted' /\ TotalCounted' /\ OwnCounted'
<1>0. PICK p \in Counted : p = req[c].op
  OBVIOUS
<1>1. /\ pc \in [Conns -> PCs] /\ pc' = [pc EXCEPT ![c] = "unlock"]
      /\ executed \in [Conns -> [Counted -> Nat]]
      /\ executed' = [executed EXCEPT ![c] = [executed[c] EXCEPT ![p] = @ + 1]]
      /\ stats.counter \in [Counted -> Nat]
  BY <1>0 DEF Finish, Goto, IInv, Basic, TypeOK
<1>2. /\ Uncounted(p)' = Uncounted(p) \union {c} /\ c \notin Uncounted(p)
      /\ \A o \in Counted \ {p} : Uncounted(o)' = Uncounted(o)
      /\ Counting' = Counting
  BY <1>0, <1>1 DEF Uncounted, Counting
<1>3. /\ Executed(p) \in [Conns -> Nat]
      /\ Executed(p)' = [Executed(p) EXCEPT ![c] = @ + 1]
      /\ \A o \in Counted \ {p} : Executed(o)' = Executed(o)
  BY <1>1 DEF Executed
<1>4. OpsCounted'
  <2>1. Cardinality(Units(Executed(p)', Conns)) = Cardinality(Units(Executed(p), Conns)) + 1
    BY <1>3, OneUnitMore
  <2>2. IsFiniteSet(Uncounted(p))
    BY FS_Subset DEF Uncounted
  <2>3. Cardinality(Uncounted(p)') = Cardinality(Uncounted(p)) + 1 /\ Cardinality(Uncounted(p)) \in Nat
    BY <2>2, <1>2, FS_AddElement, FS_CardinalityType
  <2>4. stats.counter[p] \in Nat
    BY <1>1
  <2> SUFFICES ASSUME NEW o \in Counted
               PROVE  Cardinality(Units(Executed(o)', Conns))
                        = stats.counter[o] + Cardinality(Uncounted(o)')
    BY DEF OpsCounted
  <2>5. Cardinality(Units(Executed(o), Conns)) = stats.counter[o] + Cardinality(Uncounted(o))
    BY DEF CountInv, OpsCounted
  <2>6. CASE o = p
    <3>1. Cardinality(Units(Executed(o)', Conns)) = Cardinality(Units(Executed(o), Conns)) + 1
      BY <2>1, <2>6
    <3>2. Cardinality(Uncounted(o)') = Cardinality(Uncounted(o)) + 1 /\ Cardinality(Uncounted(o)) \in Nat
      BY <2>3, <2>6
    <3>3. stats.counter[o] \in Nat
      BY <2>4, <2>6
    <3> QED
      BY <3>1, <3>2, <3>3, <2>5
  <2>7. CASE o # p
    BY <2>5, <2>7, <1>2, <1>3
  <2> QED
    BY <2>6, <2>7
<1>5. TotalCounted'
  BY <1>2 DEF CountInv, TotalCounted
<1>6. OwnCounted'
  <2> SUFFICES ASSUME NEW d \in Conns, NEW o \in Counted
               PROVE  executed'[d][o] <= stats.counter[o] + (IF d \in Uncounted(o)' THEN 1 ELSE 0)
    BY DEF OwnCounted
  <2>1. /\ executed[d][o] <= stats.counter[o] + (IF d \in Uncounted(o) THEN 1 ELSE 0)
        /\ executed[d][o] \in Nat /\ stats.counter[o] \in Nat
    BY <1>1 DEF CountInv, OwnCounted
  <2>2. CASE d = c /\ o = p
    <3>1. executed'[d][o] = executed[d][o] + 1
      BY <2>2, <1>1
    <3> QED
      BY <3>1, <2>1, <2>2, <1>2
  <2>3. CASE d # c \/ o # p
    <3>1. executed'[d][o] = executed[d][o]
      BY <2>3, <1>1
    <3>2. d \in Uncounted(o) => d \in Uncounted(o)'
      BY <1>2
    <3> QED
      BY <3>1, <3>2, <2>1
  <2> QED
    BY <2>2, <2>3
<1> QED
  BY <1>4, <1>5, <1>6

(* update_stats adds to the total, and then to the counter.                 *)
LEMMA CountStoreTotal ==
  ASSUME IsFiniteSet(Conns), IInv, CountInv, NEW c \in Conns, StoreTotal(c)
  PROVE  OpsCounted' /\ TotalCounted' /\ OwnCounted'
<1>1. /\ pc \in [Conns -> PCs] /\ pc[c] = "store" /\ pc' = [pc EXCEPT ![c] = "count"]
      /\ UNCHANGED <<executed, req>>
      /\ stats'.counter = stats.counter /\ stats'.total = stats.total + 1
      /\ stats.total \in Nat
  BY DEF StoreTotal, Goto, clientVars, IInv, Basic, TypeOK, CountInv, SeenTotal
<1>2. \A o \in Counted : Uncounted(o)' = Uncounted(o) /\ Executed(o)' = Executed(o)
  BY <1>1 DEF Uncounted, Executed
<1>3. Counting' = Counting \union {c} /\ c \notin Counting
  BY <1>1 DEF Counting
<1>4. IsFiniteSet(Counting)
  BY FS_Subset DEF Counting
<1>5. TotalCounted'
  <2>1. Cardinality(Counting') = Cardinality(Counting) + 1 /\ Cardinality(Counting) \in Nat
    BY <1>3, <1>4, FS_AddElement, FS_CardinalityType
  <2>2. stats.counter \in [Counted -> Nat]
    BY DEF IInv, Basic, TypeOK
  <2>3. Cardinality(Units(stats.counter, Counted)) \in Nat
    BY <2>2, CountedFinite, UnitsFinite
  <2> QED
    BY <1>1, <2>1, <2>3 DEF CountInv, TotalCounted
<1> QED
  BY <1>1, <1>2, <1>5 DEF CountInv, OpsCounted, OwnCounted

LEMMA CountCountOp ==
  ASSUME IsFiniteSet(Conns), IInv, CountInv, NEW c \in Conns, CountOp(c)
  PROVE  OpsCounted' /\ TotalCounted' /\ OwnCounted'
<1>0. PICK p \in Counted : p = req[c].op
  BY DEF CountOp, IInv, Basic, PlacesFit
<1>1. /\ pc \in [Conns -> PCs] /\ pc[c] = "count" /\ pc' = [pc EXCEPT ![c] = "sunlock"]
      /\ UNCHANGED <<executed, req>>
      /\ stats'.counter = [stats.counter EXCEPT ![p] = @ + 1] /\ stats'.total = stats.total
      /\ stats.counter \in [Counted -> Nat] /\ stats.total \in Nat
      /\ executed \in [Conns -> [Counted -> Nat]]
  BY <1>0 DEF CountOp, Goto, clientVars, IInv, Basic, TypeOK
<1>2. /\ Uncounted(p)' = Uncounted(p) \ {c} /\ c \in Uncounted(p)
      /\ \A o \in Counted \ {p} : Uncounted(o)' = Uncounted(o)
      /\ \A o \in Counted : Executed(o)' = Executed(o)
      /\ Counting' = Counting \ {c} /\ c \in Counting
  BY <1>0, <1>1 DEF Uncounted, Executed, Counting
<1>3. IsFiniteSet(Uncounted(p)) /\ IsFiniteSet(Counting)
  BY FS_Subset DEF Uncounted, Counting
<1>4. OpsCounted'
  <2>1. Cardinality(Uncounted(p)') = Cardinality(Uncounted(p)) - 1 /\ Cardinality(Uncounted(p)) \in Nat
    <3>1. Cardinality(Uncounted(p) \ {c}) = Cardinality(Uncounted(p)) - 1
      BY <1>2, <1>3, FS_RemoveElement
    <3> QED
      BY <3>1, <1>2, <1>3, FS_CardinalityType
  <2>2. stats'.counter[p] = stats.counter[p] + 1 /\ stats.counter[p] \in Nat
    BY <1>0, <1>1
  <2>3. \A o \in Counted \ {p} : stats'.counter[o] = stats.counter[o]
    BY <1>1
  <2> SUFFICES ASSUME NEW o \in Counted
               PROVE  Cardinality(Units(Executed(o)', Conns))
                        = stats'.counter[o] + Cardinality(Uncounted(o)')
    BY DEF OpsCounted
  <2>4. Cardinality(Units(Executed(o), Conns)) = stats.counter[o] + Cardinality(Uncounted(o))
    BY DEF CountInv, OpsCounted
  <2>5. CASE o = p
    <3>1. /\ Cardinality(Uncounted(o)') = Cardinality(Uncounted(o)) - 1
          /\ Cardinality(Uncounted(o)) \in Nat
      BY <2>1, <2>5
    <3>2. stats'.counter[o] = stats.counter[o] + 1 /\ stats.counter[o] \in Nat
      BY <2>2, <2>5
    <3>3. Executed(o)' = Executed(o)
      BY <1>2
    <3> QED
      BY <3>1, <3>2, <3>3, <2>4
  <2>6. CASE o # p
    BY <2>3, <2>4, <2>6, <1>2
  <2> QED
    BY <2>5, <2>6
<1>5. TotalCounted'
  <2>1. Cardinality(Counting') = Cardinality(Counting) - 1 /\ Cardinality(Counting) \in Nat
    BY <1>2, <1>3, FS_RemoveElement, FS_CardinalityType
  <2>2. /\ Cardinality(Units(stats'.counter, Counted)) = Cardinality(Units(stats.counter, Counted)) + 1
        /\ Cardinality(Units(stats.counter, Counted)) \in Nat
    <3>1. Cardinality(Units(stats'.counter, Counted)) = Cardinality(Units(stats.counter, Counted)) + 1
      BY <1>1, CountedFinite, OneUnitMore
    <3> QED
      BY <3>1, <1>1, CountedFinite, UnitsFinite
  <2> QED
    BY <1>1, <2>1, <2>2 DEF CountInv, TotalCounted
<1>6. OwnCounted'
  <2> SUFFICES ASSUME NEW d \in Conns, NEW o \in Counted
               PROVE  executed[d][o] <= stats'.counter[o] + (IF d \in Uncounted(o)' THEN 1 ELSE 0)
    BY <1>1 DEF OwnCounted
  <2>1. /\ executed[d][o] <= stats.counter[o] + (IF d \in Uncounted(o) THEN 1 ELSE 0)
        /\ executed[d][o] \in Nat /\ stats.counter[o] \in Nat
    BY <1>1 DEF CountInv, OwnCounted
  <2>2. CASE o = p
    BY <2>1, <2>2, <1>1, <1>2
  <2>3. CASE o # p
    BY <2>1, <2>3, <1>1, <1>2
  <2> QED
    BY <2>2, <2>3
<1> QED
  BY <1>4, <1>5, <1>6

(* What a thread has seen of the total.                                     *)
LEMMA SeenTotalNext ==
  ASSUME IInv, CountInv, NEW c \in Conns, Step(c)
  PROVE  SeenTotal'
<1> SUFFICES ASSUME NEW d \in Conns, pc'[d] \in {"store", "copy2"}
             PROVE  seen'[d].total = stats'.total
  BY DEF SeenTotal
<1>1. pc \in [Conns -> PCs] /\ seen \in [Conns -> Locals] /\ Basic
      /\ stats \in [total : Nat, counter : [Counted -> Nat]]
  BY DEF IInv, Basic, TypeOK, Locals
<1>2. CASE ~ StatsStep(c)
  <2>1. /\ pc'[d] = pc[d]
        /\ seen'[d] = seen[d] /\ stats' = stats
    <3>1. CASE Client(c)
      BY <3>1, <1>1, ClientShape
    <3>2. CASE Accept(c) \/ Receive(c) \/ ReceiveNothing(c) \/ ReceiveFails(c) \/ Send(c)
      BY <3>2, <1>1, SocketShape
    <3>3. CASE LockTable(c) \/ UnlockTable(c) \/ LockStats(c) \/ UnlockStats(c)
      BY <3>3, <1>1 DEF LockTable, UnlockTable, LockStats, UnlockStats, Goto
    <3>4. CASE TableStep(c)
      <4>1. d # c
        BY <3>4, <1>1, TableStepShape
      <4> QED
        BY <3>4, <4>1, <1>1, TableStepShape, OthersSeen DEF Step
    <3> QED
      BY <1>2, <3>1, <3>2, <3>3, <3>4 DEF Step
  <2> QED
    BY <2>1 DEF CountInv, SeenTotal
<1>3. CASE LoadTotal(c) \/ CopyTotal(c)
  <2>1. stats' = stats /\ seen' = [seen EXCEPT ![c] = [seen[c] EXCEPT !.total = stats.total]]
        /\ \A e \in Conns \ {c} : pc'[e] = pc[e]
    BY <1>1, <1>3 DEF LoadTotal, CopyTotal, Goto, sharedVars
  <2> QED
    BY <2>1, <1>1 DEF CountInv, SeenTotal, Locals
<1>4. CASE StoreTotal(c)
  <2>1. d # c /\ pc'[d] = pc[d]
    BY <1>1, <1>4 DEF StoreTotal, Goto
  <2> QED
    BY <2>1, <1>4, UpdaterAlone DEF StoreTotal, InStatsLock
<1>5. CASE CountOp(c) \/ CopyCounters(c)
  <2>1. /\ d # c /\ pc'[d] = pc[d] /\ stats'.total = stats.total
        /\ \A e \in Conns \ {c} : seen'[e] = seen[e]
    BY <1>1, <1>5 DEF CountOp, CopyCounters, Goto, Forget, sharedVars
  <2> QED
    BY <2>1 DEF CountInv, SeenTotal
<1> QED
  BY <1>2, <1>3, <1>4, <1>5 DEF StatsStep

(* What STATS has answered.                                                 *)
LEMMA StatsAnsweredNext ==
  ASSUME IInv, Passes, CountInv, NEW c \in Conns, Step(c)
  PROVE  StatsAnswered'
<1> SUFFICES ASSUME NEW d \in Conns, pc'[d] \in {"sunlock", "send"}, req'[d].op = "stats",
                    answer'[d] # Refused
             PROVE  /\ answer'[d].counter \in [Counted -> Nat]
                    /\ answer'[d].total = Cardinality(Units(answer'[d].counter, Counted))
                    /\ \A o \in Counted : answer'[d].counter[o] >= executed'[d][o]
  BY DEF StatsAnswered, Refused
<1>1. /\ pc \in [Conns -> PCs] /\ Basic /\ stats.counter \in [Counted -> Nat]
      /\ executed \in [Conns -> [Counted -> Nat]]
  BY DEF IInv, Basic, TypeOK
<1>2. CASE d # c
  <2>1. pc'[d] = pc[d] /\ req'[d] = req[d] /\ answer'[d] = answer[d] /\ executed'[d] = executed[d]
    BY <1>1, <1>2, OthersStay, OthersSeen
  <2> QED
    BY <2>1 DEF CountInv, StatsAnswered
<1>3. CASE d = c /\ CopyCounters(c)
  <2>1. /\ answer'[c] = [total |-> seen[c].total, counter |-> stats.counter]
        /\ executed' = executed /\ pc[c] = "copy2"
    BY <1>3 DEF CopyCounters, Passes
  <2>2. Counting = {}
    BY <2>1, ReaderSeesNoUpdate DEF Counting, InStatsLock
  <2>3. stats.total = Cardinality(Units(stats.counter, Counted))
    <3>1. Cardinality(Counting) = 0
      BY <2>2, FS_EmptySet
    <3>2. Cardinality(Units(stats.counter, Counted)) \in Nat
      BY <1>1, CountedFinite, UnitsFinite
    <3> QED
      BY <3>1, <3>2 DEF CountInv, TotalCounted
  <2>4. seen[c].total = stats.total
    BY <2>1 DEF CountInv, SeenTotal
  <2>5. \A o \in Counted : stats.counter[o] >= executed[c][o]
    <3> SUFFICES ASSUME NEW o \in Counted
                 PROVE  stats.counter[o] >= executed[c][o]
      OBVIOUS
    <3>1. c \notin Uncounted(o)
      BY <2>1 DEF Uncounted
    <3>2. executed[c][o] \in Nat /\ stats.counter[o] \in Nat
      BY <1>1
    <3> QED
      BY <3>1, <3>2 DEF CountInv, OwnCounted
  <2> QED
    BY <1>1, <1>3, <2>1, <2>3, <2>4, <2>5
\* Besides, a thread with a STATS goes to the place where it sends, no more.
<1>4. CASE d = c /\ ~ CopyCounters(c)
  <2>1. /\ pc[c] \in {"sunlock", "send"} /\ req'[c] = req[c]
        /\ answer'[c] = answer[c] /\ executed'[c] = executed[c]
    <3>1. CASE Client(c)
      <4>1. pc' = pc
        BY <3>1, <1>1, ClientShape
      <4>2. answer' = answer /\ executed' = executed
        BY <3>1 DEF Client, Ask, TakeReply, Quit, threadVars
      <4> QED
        BY <1>4, <4>1, <4>2, <3>1, <1>1, ClientShape DEF Quiet
    <3>2. CASE Accept(c) \/ Receive(c) \/ ReceiveNothing(c) \/ ReceiveFails(c) \/ Send(c)
      <4>1. req' = req /\ pc[c] \in {"unserved", "receive", "send"}
        BY <3>2, <1>1, SocketShape
      <4>2. CASE Receive(c)
        <5>1. pc'[c] = "send" /\ answer' = [answer EXCEPT ![c] = Refused]
          BY <1>1, <1>4, <4>1, <4>2 DEF Receive, Goto
        <5> QED
          BY <5>1, <1>4 DEF Passes
      <4>3. CASE Accept(c) \/ ReceiveNothing(c) \/ ReceiveFails(c) \/ Send(c)
        BY <1>4, <4>1, <4>3, <1>1 DEF Accept, ReceiveNothing, ReceiveFails, Send, Goto
      <4> QED
        BY <3>2, <4>2, <4>3
    <3>3. CASE LockTable(c) \/ UnlockTable(c) \/ LockStats(c) \/ UnlockStats(c)
      BY <1>4, <3>3, <1>1 DEF LockTable, UnlockTable, LockStats, UnlockStats, Goto, clientVars
    <3>4. CASE TableStep(c)
      BY <1>4, <3>4, <1>1, TableStepShape
    <3>5. CASE StatsStep(c)
      <4>1. req' = req
        BY <3>5, <1>1, StatsStepShape
      <4>2. pc[c] \notin {"load", "store", "count"}
        BY <1>4, <4>1 DEF Basic, IInv, PlacesFit, Counted
      <4> QED
        BY <1>4, <4>1, <4>2, <3>5, <1>1
        DEF StatsStep, LoadTotal, StoreTotal, CountOp, CopyTotal, Goto
    <3> QED
      BY <3>1, <3>2, <3>3, <3>4, <3>5 DEF Step
  <2> QED
    BY <1>4, <2>1 DEF CountInv, StatsAnswered
<1> QED
  BY <1>2, <1>3, <1>4

LEMMA CountNext ==
  ASSUME IsFiniteSet(Conns), IInv, Passes, CountInv, [Next]_vars
  PROVE  CountInv'
<1>1. CASE UNCHANGED vars
  BY <1>1 DEF vars, sharedVars, threadVars, clientVars, CountInv, SeenTotal, OpsCounted,
              TotalCounted, OwnCounted, StatsAnswered, Uncounted, Counting, Executed
<1>2. ASSUME NEW c \in Conns, Step(c)
      PROVE  CountInv'
  <2>1. pc \in [Conns -> PCs] /\ Basic
    BY DEF IInv, Basic, TypeOK
  <2>2. SUFFICES OpsCounted' /\ TotalCounted' /\ OwnCounted'
    BY <1>2, SeenTotalNext, StatsAnsweredNext DEF CountInv
  <2> USE DEF Uncounted
  <2>3. CASE Client(c)
    <3>1. executed' = executed /\ stats' = stats /\ pc' = pc
      BY <2>1, <2>3, ClientShape DEF Client, Ask, TakeReply, Quit
    <3>2. \A d \in Conns : pc[d] \notin Quiet => req'[d] = req[d]
      BY <2>1, <2>3, ClientShape
    <3> QED
      BY <3>1, <3>2, CountKept DEF Quiet
  <2>4. CASE Accept(c) \/ Receive(c) \/ ReceiveNothing(c) \/ ReceiveFails(c) \/ Send(c)
    <3>1. /\ executed' = executed /\ stats' = stats /\ req' = req
          /\ pc[c] \in {"unserved", "receive", "send"}
          /\ \A d \in Conns \ {c} : pc'[d] = pc[d]
          /\ pc'[c] \in {"receive", "lock", "slock", "send", "left", "spin", "closed"}
      BY <2>1, <2>4, SocketShape DEF Accept, Receive, ReceiveNothing, ReceiveFails, Send
    <3>2. pc'[c] \in {"slock", "send"} => req[c].op = "stats"
      BY <2>1, <2>4 DEF Accept, Receive, ReceiveNothing, ReceiveFails, Send, Goto
    <3> QED
      BY <3>1, <3>2, CountKept DEF Counted
  <2>5. CASE LockTable(c) \/ UnlockTable(c) \/ LockStats(c) \/ UnlockStats(c)
    <3>1. /\ executed' = executed /\ stats' = stats /\ req' = req
          /\ \A d \in Conns \ {c} : pc'[d] = pc[d]
          /\ \/ pc[c] = "lock" /\ pc'[c] = "first"
             \/ pc[c] = "unlock" /\ pc'[c] = "slock"
             \/ pc[c] = "slock" /\ pc'[c] = IF req[c].op = "stats" THEN "copy1" ELSE "load"
             \/ pc[c] = "sunlock" /\ pc'[c] = "send"
      BY <2>1, <2>5 DEF LockTable, UnlockTable, LockStats, UnlockStats, Goto, clientVars
    <3> QED
      BY <3>1, CountKept DEF Counted
  <2>6. CASE TableStep(c)
    <3>1. /\ pc[c] \in {"first", "second"} /\ stats' = stats /\ req' = req
          /\ req[c].op \in Counted
      BY <2>1, <2>6, TableStepShape DEF Basic, PlacesFit, InTableLock
    <3>2. CASE \E a : Finish(c, a)
      BY <3>1, <3>2, CountFinish
    <3>3. CASE /\ executed' = executed /\ pc'[c] \in {"first", "second"}
               /\ \A d \in Conns \ {c} : pc'[d] = pc[d]
      BY <3>1, <3>3, CountKept
    <3> QED
      BY <2>1, <2>6, <3>2, <3>3 DEF TableStep, SizeOp, DelOp, GetOp, PutOp, PutStore, Measure, Fill, Goto
  <2>7. CASE StoreTotal(c)
    BY <2>7, CountStoreTotal
  <2>8. CASE CountOp(c)
    BY <2>8, CountCountOp
  <2>9. CASE LoadTotal(c) \/ CopyTotal(c) \/ CopyCounters(c)
    <3>1. /\ executed' = executed /\ stats' = stats /\ req' = req
          /\ \A d \in Conns \ {c} : pc'[d] = pc[d]
          /\ \/ pc[c] = "load" /\ pc'[c] = "store"
             \/ pc[c] = "copy1" /\ pc'[c] = "copy2"
             \/ pc[c] = "copy2" /\ pc'[c] = "sunlock"
      BY <2>1, <2>9 DEF LoadTotal, CopyTotal, CopyCounters, Goto, clientVars, sharedVars
    <3> QED
      BY <3>1, CountKept
  <2> QED
    BY <1>2, <2>3, <2>4, <2>5, <2>6, <2>7, <2>8, <2>9 DEF Step, StatsStep
<1> QED
  BY <1>1, <1>2, NextIsStep

LEMMA CountInvariant ==
  ASSUME IsFiniteSet(Conns)
  PROVE  Spec => [](CountInv /\ IInv)
<1>1. Init => IInv /\ Passes /\ CountInv
  BY IInvInit, PassesInit, CountInit
<1>2. IInv /\ Passes /\ CountInv /\ [Next]_vars => Passes' /\ CountInv'
  BY PassesNext, CountNext
<1> QED
  BY <1>1, <1>2, InductiveInvariant, PTL DEF Spec

(* stats.c:25-29, table_skel.c:187-196: whichever threads run update_stats, *)
(* every operation is counted once: a counter lags behind what was executed *)
(* by the threads on their way to it, and the total by those in between.    *)
THEOREM NoOpIsLost ==
  ASSUME IsFiniteSet(Conns)
  PROVE  Spec => []EveryOpCountedOnce
<1>1. CountInv /\ IInv => EveryOpCountedOnce
  <2> SUFFICES ASSUME CountInv, IInv
               PROVE  EveryOpCountedOnce
    OBVIOUS
  <2>1. executed \in [Conns -> [Counted -> Nat]] /\ stats.counter \in [Counted -> Nat]
    BY DEF IInv, Basic, TypeOK
  <2>2. ASSUME NEW o \in Counted
        PROVE  MapThenSumSet(LAMBDA c : executed[c][o], Conns)
                 = stats.counter[o] + Cardinality(Uncounted(o))
    BY <2>1, SumOfExecuted DEF CountInv, OpsCounted, Executed
  <2>3. MapThenSumSet(LAMBDA o : stats.counter[o], Counted)
          = Cardinality(Units(stats.counter, Counted))
    BY <2>1, SumOfCounters
  <2> QED
    BY <2>2, <2>3 DEF CountInv, TotalCounted, Counting, EveryOpCountedOnce
<1> QED
  BY <1>1, CountInvariant, PTL

(* table_skel.c:150-173: an answer to STATS is the statistics of one        *)
(* moment, and has every operation the client was answered before.          *)
THEOREM StatsAnswersAgree ==
  ASSUME IsFiniteSet(Conns)
  PROVE  Spec => []StatsAnswerConsistent
<1>1. CountInv => StatsAnswerConsistent
  <2> SUFFICES ASSUME CountInv, NEW c \in Conns,
                      pc[c] \in {"sunlock", "send"}, req[c].op = "stats",
                      answer[c] # Refused
               PROVE  /\ answer[c].total = MapThenSumSet(LAMBDA o : answer[c].counter[o], Counted)
                      /\ \A o \in Counted : answer[c].counter[o] >= executed[c][o]
    BY DEF StatsAnswerConsistent
  <2>1. MapThenSumSet(LAMBDA o : answer[c].counter[o], Counted)
          = Cardinality(Units(answer[c].counter, Counted))
    BY SumOfCounters DEF CountInv, StatsAnswered
  <2> QED
    BY <2>1 DEF CountInv, StatsAnswered
<1> QED
  BY <1>1, CountInvariant, PTL
=============================================================================
