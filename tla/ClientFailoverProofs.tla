------------------------- MODULE ClientFailoverProofs -------------------------
(***************************************************************************)
(* Proofs about ClientFailover, for every set of addresses, any number of  *)
(* changes and whatever malloc left in the buffer: no news of a new        *)
(* primary is lost, at most one command goes to a server that has been     *)
(* replaced, and the watch stays set as long as the znode and the session  *)
(* stay.                                                                   *)
(***************************************************************************)
EXTENDS ClientFailover, TLAPS

\* The thread of the library is not between the first byte of a new address and
\* the flag that announces it.
AtRest == zpc \in {"idle", "get", "copy1"}

\* What the main thread has taken out of the buffer is what the buffer holds,
\* or it will look again.  It holds too little to be wrong at "clear" and "port".
NewsInv ==
  AtRest =>
    /\ pc \in {"check", "prompt", "send"} => new \/ conn = Parse(buf)
    /\ pc = "host" => new \/ port = PortIn(buf)

LEMMA NewsInit == Init => NewsInv
  BY DEF Init, NewsInv

(* The library's thread: it comes to rest with the flag set, or with the    *)
(* buffer untouched.                                                        *)
LEMMA NewsWatcher == NewsInv /\ Watcher => NewsInv'
<1> SUFFICES ASSUME NewsInv, Watcher
             PROVE  NewsInv'
  OBVIOUS
<1> USE DEF NewsInv, AtRest, mainVars, sharedVars
<1>1. CASE Deliver
  BY <1>1 DEF Deliver
<1>2. CASE Fetch
  BY <1>2 DEF Fetch
<1>3. CASE CopyHost
  BY <1>3 DEF CopyHost
<1>4. CASE CopyPort
  BY <1>4 DEF CopyPort
<1>5. CASE SetNew
  BY <1>5 DEF SetNew
<1> QED
  BY <1>1, <1>2, <1>3, <1>4, <1>5 DEF Watcher

(* The main thread: the flag is cleared before the buffer is read.          *)
LEMMA NewsMain == NewsInv /\ Main => NewsInv'
<1> SUFFICES ASSUME NewsInv, Main
             PROVE  NewsInv'
  OBVIOUS
<1> USE DEF NewsInv, AtRest, sharedVars, watchVars
<1>1. CASE StartWatcher
  BY <1>1 DEF StartWatcher
<1>2. CASE Announce
  BY <1>2 DEF Announce
<1>3. CASE CheckNew
  BY <1>3 DEF CheckNew
<1>4. CASE ClearNew
  BY <1>4 DEF ClearNew
<1>5. CASE ReadPort
  BY <1>5 DEF ReadPort
<1>6. CASE ReadHostAndConnect
  BY <1>6 DEF ReadHostAndConnect, Parse
<1>7. CASE TypeCommand
  BY <1>7 DEF TypeCommand
<1>8. CASE SendCommand
  BY <1>8 DEF SendCommand
<1> QED
  BY <1>1, <1>2, <1>3, <1>4, <1>5, <1>6, <1>7, <1>8 DEF Main

LEMMA NewsNext == NewsInv /\ [Next]_vars => NewsInv'
<1> SUFFICES ASSUME NewsInv, [Next]_vars
             PROVE  NewsInv'
  OBVIOUS
<1>1. CASE Environment
  BY <1>1 DEF Environment, Publish, CrashServer, Delete, Connect, Disconnect, TypeQuit,
     NewsInv, AtRest, watchVars, sharedVars, mainVars
<1>2. CASE UNCHANGED vars
  BY <1>2 DEF vars, NewsInv, AtRest, watchVars, sharedVars, mainVars
<1> QED
  BY <1>1, <1>2, NewsWatcher, NewsMain DEF Next

(* client_redundancy.c:95: when the buffer holds another address than the   *)
(* client's connection, the flag is set.                                    *)
THEOREM NoNewsIsLost == Spec => []NewsNotLost
<1>1. NewsInv => NewsNotLost
  BY DEF NewsInv, AtRest, NewsNotLost
<1> QED
  BY <1>1, NewsInit, NewsNext, PTL DEF Spec

-----------------------------------------------------------------------------
\* The watch.

\* While the znode and the session stay: once the client has started, the
\* watch is set, or its notification is on its way, or being answered.
WatchInv ==
  ZooKeeperStays =>
    /\ event \in {"none", "changed"}
    /\ pc = "wait" => zpc = "idle" /\ event = "none" /\ ~ armed
    /\ pc \notin {"wait", "exited"} =>
         /\ connected /\ znode # NoAddress
         /\ armed \/ event = "changed" \/ zpc = "get"

LEMMA FaultsStay == [Next]_vars => faults' = faults
<1>1. Watcher => faults' = faults
  BY DEF Watcher, Deliver, Fetch, CopyHost, CopyPort, SetNew
<1>2. Main => faults' = faults
  BY DEF Main, StartWatcher, Announce, CheckNew, ClearNew, ReadPort, ReadHostAndConnect,
     TypeCommand, SendCommand
<1>3. Environment => faults' = faults
  BY DEF Environment, Publish, CrashServer, Delete, Connect, Disconnect, TypeQuit
<1> QED
  BY <1>1, <1>2, <1>3 DEF Next, vars

LEMMA WatchNext == WatchInv /\ [Next]_vars => WatchInv'
<1> SUFFICES ASSUME WatchInv, [Next]_vars, ZooKeeperStays'
             PROVE  WatchInv'
  BY DEF WatchInv
<1>1. ZooKeeperStays
  BY FaultsStay DEF ZooKeeperStays
<1> USE DEF WatchInv, zkVars, watchVars, mainVars
<1>2. CASE Watcher
  BY <1>1, <1>2 DEF Watcher, Deliver, Fetch, CopyHost, CopyPort, SetNew
<1>3. CASE StartWatcher
  BY <1>1, <1>3 DEF StartWatcher, ZooKeeperStays
<1>4. CASE \/ Announce \/ CheckNew \/ ClearNew \/ ReadPort
           \/ ReadHostAndConnect \/ TypeCommand \/ SendCommand
  BY <1>1, <1>4 DEF Announce, CheckNew, ClearNew, ReadPort, ReadHostAndConnect, TypeCommand, SendCommand
<1>5. CASE Environment
  <2>1. ASSUME NEW a \in Addresses, Publish(a)
        PROVE  WatchInv'
    BY <1>1, <2>1, FailoverAssumption DEF Publish
  <2>2. ASSUME NEW a \in Addresses, CrashServer(a)
        PROVE  WatchInv'
    BY <1>1, <2>2 DEF CrashServer
  <2>3. ~ Delete /\ ~ Disconnect
    BY <1>1 DEF Delete, Disconnect, ZooKeeperStays
  <2>4. CASE Connect
    BY <1>1, <2>4 DEF Connect
  <2>5. CASE TypeQuit
    BY <1>1, <2>5 DEF TypeQuit
  <2> QED
    BY <1>5, <2>1, <2>2, <2>3, <2>4, <2>5 DEF Environment
<1>6. CASE UNCHANGED vars
  BY <1>1, <1>6 DEF vars
<1> QED
  BY <1>2, <1>3, <1>4, <1>5, <1>6 DEF Next, Main

(* client_redundancy.c:32: the watch is set again with every change.        *)
THEOREM WatchIsNotLost == Spec => []WatchStaysSet
<1>1. Init => WatchInv
  BY DEF Init, WatchInv
<1>2. WatchInv => WatchStaysSet
  BY DEF WatchInv, WatchStaysSet, Running
<1> QED
  BY <1>1, <1>2, WatchNext, PTL DEF Spec

-----------------------------------------------------------------------------
\* The late command.

\* After the one command that went elsewhere the main thread looks at new, and
\* does not send the next one before it is connected to what the buffer names.
LateInv ==
  /\ late \in {0, 1}
  /\ zpc \notin {"idle", "get"} => late = 0
  /\ pc = "wait" => late = 0
  /\ late = 1 /\ pc = "host" => port = PortIn(buf)
  /\ late = 1 /\ pc \in {"prompt", "send"} => conn = Parse(buf)

LEMMA LateNext ==
  ASSUME NewsInv, LateInv, [Next]_vars
  PROVE  LateInv'
<1> USE DEF LateInv, zkVars, watchVars, sharedVars, mainVars
<1>2. CASE Deliver
  BY <1>2 DEF Deliver
<1>3. CASE Fetch
  BY <1>3 DEF Fetch
<1>4. CASE CopyHost
  BY <1>4 DEF CopyHost
<1>5. CASE CopyPort
  BY <1>5 DEF CopyPort
<1>6. CASE SetNew
  BY <1>6 DEF SetNew
<1>7. CASE StartWatcher
  BY <1>7 DEF StartWatcher
<1>8. CASE Announce
  BY <1>8 DEF Announce
<1>9. CASE CheckNew
  BY <1>9 DEF CheckNew, NewsInv, AtRest
<1>10. CASE ClearNew
  BY <1>10 DEF ClearNew
<1>11. CASE ReadPort
  BY <1>11 DEF ReadPort
<1>12. CASE ReadHostAndConnect
  BY <1>12 DEF ReadHostAndConnect, Parse
<1>13. CASE TypeCommand
  BY <1>13 DEF TypeCommand
<1>14. CASE SendCommand
  BY <1>14 DEF SendCommand
<1>15. CASE Environment
  BY <1>15 DEF Environment, Publish, CrashServer, Delete, Connect, Disconnect, TypeQuit
<1>16. CASE UNCHANGED vars
  BY <1>16 DEF vars
<1> QED
  BY <1>2, <1>3, <1>4, <1>5, <1>6, <1>7, <1>8, <1>9, <1>10, <1>11, <1>12, <1>13,
     <1>14, <1>15, <1>16 DEF Next, Watcher, Main

(* table_client.c:61: whatever the addresses and whatever malloc left in the *)
(* buffer, at most one command goes to another server than the one the       *)
(* buffer names, once data_watcher is done with a change.                    *)
THEOREM AtMostOneLate == Spec => []OneLateCommand
<1>1. Init => NewsInv /\ LateInv
  <2>1. Init => LateInv
    BY DEF Init, LateInv
  <2> QED
    BY <2>1, NewsInit
<1>2. NewsInv /\ LateInv /\ [Next]_vars => NewsInv' /\ LateInv'
  BY NewsNext, LateNext
<1>3. LateInv => OneLateCommand
  BY DEF LateInv, OneLateCommand
<1> QED
  BY <1>1, <1>2, <1>3, PTL DEF Spec

-----------------------------------------------------------------------------
\* The types.

\* data_watcher copies addresses only.
TypeInv ==
  /\ TypeOK
  /\ fetched \in Addresses \union {NoAddress}
  /\ zpc \in {"copy1", "copy2"} => fetched \in Addresses

LEMMA MinIs ==
  ASSUME NEW S \in SUBSET Int, NEW k \in S, \A x \in S : k <= x
  PROVE  Min(S) = k
<1>1. \E x \in S : \A y \in S : x <= y
  OBVIOUS
<1>2. Min(S) \in S /\ \A y \in S : Min(S) <= y
  BY <1>1, Zenon DEF Min
<1> DEFINE m == Min(S)
<1>3. m \in Int /\ k \in Int /\ m <= k /\ k <= m
  BY <1>2
<1> HIDE DEF m
<1>4. m = k
  BY <1>3
<1> QED
  BY <1>4 DEF m

LEMMA MinOfTwo ==
  ASSUME NEW x \in 1 .. BufLen, NEW y \in 1 .. BufLen
  PROVE  Min({x, y}) \in 1 .. BufLen
<1> BufLen \in Nat
  BY FailoverAssumption
<1>1. CASE x <= y
  <2>1. Min({x, y}) = x
    BY <1>1, MinIs
  <2> QED
    BY <2>1
<1>2. CASE y <= x
  <2>1. Min({x, y}) = y
    BY <1>2, MinIs
  <2> QED
    BY <2>1
<1> QED
  BY <1>1, <1>2

LEMMA TypeNext == TypeInv /\ [Next]_vars => TypeInv'
<1> SUFFICES ASSUME TypeInv, [Next]_vars
             PROVE  TypeInv'
  OBVIOUS
<1>1. /\ NoAddress \notin Addresses
      /\ \A a \in Addresses : Len(a) \in 1 .. BufLen
  BY FailoverAssumption
<1> USE <1>1 DEF TypeInv, TypeOK, Copy, zkVars, watchVars, sharedVars, mainVars
<1>2. CASE Deliver
  BY <1>2 DEF Deliver
<1>3. CASE Fetch
  BY <1>3 DEF Fetch
<1>4. CASE CopyHost
  BY <1>4 DEF CopyHost
<1>5. CASE CopyPort
  <2>1. Min({len, Len(fetched)}) \in 1 .. BufLen
    BY <1>5, MinOfTwo DEF CopyPort
  <2> QED
    BY <1>5, <2>1 DEF CopyPort
<1>6. CASE SetNew
  BY <1>6 DEF SetNew
<1>7. CASE StartWatcher
  <2>1. znode # NoAddress => Min({len, Len(znode)}) \in 1 .. BufLen
    BY MinOfTwo
  <2> QED
    BY <1>7, <2>1 DEF StartWatcher
<1>8. CASE \/ Announce \/ CheckNew \/ ClearNew \/ ReadPort \/ TypeCommand \/ SendCommand
  BY <1>8 DEF Announce, CheckNew, ClearNew, ReadPort, TypeCommand, SendCommand
<1>9. CASE ReadHostAndConnect
  BY <1>9 DEF ReadHostAndConnect, CanConnect
<1>10. CASE Environment
  BY <1>10 DEF Environment, Publish, CrashServer, Delete, Connect, Disconnect, TypeQuit
<1>11. CASE UNCHANGED vars
  BY <1>11 DEF vars
<1> QED
  BY <1>2, <1>3, <1>4, <1>5, <1>6, <1>7, <1>8, <1>9, <1>10, <1>11 DEF Next, Watcher, Main

(* Every variable has its type, server_info_len always inside the buffer:   *)
(* zoo_wget shortens it and never makes it longer.                          *)
THEOREM TypeCorrect == Spec => []TypeOK
<1>1. Init => TypeInv
  BY FailoverAssumption DEF Init, TypeInv, TypeOK
<1>2. TypeInv => TypeOK
  BY DEF TypeInv
<1> QED
  BY <1>1, <1>2, TypeNext, PTL DEF Spec
=============================================================================
