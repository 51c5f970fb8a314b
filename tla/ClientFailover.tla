---------------------------- MODULE ClientFailover ----------------------------
(***************************************************************************)
(* How the client finds the primary server and follows it when it changes: *)
(* the main thread (table_client.c), the thread of the ZooKeeper library   *)
(* that calls data_watcher (client_redundancy.c), and the memory they      *)
(* share without a lock: server_info_buf, server_info_len and new.         *)
(*                                                                         *)
(* ZooKeeper is external: a znode, a watch that fires once, and zoo_wget,  *)
(* which copies no more bytes than the length it is given, adds no NUL,    *)
(* sets that length to what it copied, and sets the watch again unless it  *)
(* fails.  An address is a sequence: the host (with its colon) and the     *)
(* digits of the port.                                                     *)
(***************************************************************************)
EXTENDS Integers, SequencesExt, FiniteSetsExt

CONSTANTS
  Addresses,    \* the addresses servers may have
  Digits,       \* the cells of an address that are digits of the port
  Nul,          \* a cell that ends the string
  BufLen,       \* ZDATALEN
  Junk,         \* what malloc may leave in a cell of the buffer
  NoAddress,    \* the znode does not exist, or the client has no connection
  FaultSets,    \* what may go wrong in one behaviour: sets of faults
  MaxChanges    \* bound: how often the znode changes

ASSUME FailoverAssumption ==
  /\ BufLen \in Nat \ {0}
  /\ \A a \in Addresses :
       /\ a = [i \in 1 .. Len(a) |-> a[i]]
       /\ Len(a) \in 2 .. BufLen
       /\ \A i \in 2 .. Len(a) : a[i] \in Digits
  /\ Nul \notin Digits
  /\ NoAddress \notin Addresses
  /\ FaultSets \subseteq SUBSET {"delete", "disconnect", "crash", "descriptors"}

VARIABLES
  faults,       \* what may go wrong in this behaviour
  znode,        \* the data of /kvstore/primary
  armed,        \* ZooKeeper has a watch of this client on it
  event,        \* a notification on its way: "none", "changed" or "deleted"
  changes,      \* how often the znode has changed
  connected,    \* connected: the session with ZooKeeper
  zpc,          \* where the library's thread is in data_watcher
  fetched,      \* the data of the last zoo_wget that did not fail
  buf, len,     \* server_info_buf and server_info_len
  new,          \* new: set by data_watcher, cleared by is_new
  pc,           \* where the main thread is
  port,         \* the port rtable_connect has parsed
  conn,         \* the server the rtable is connected to
  alive,        \* the servers that run
  result,       \* what the last command did, and what it said
  late          \* history: the commands sent elsewhere than to the server the
                \* buffer names, since data_watcher last was done with it

zkVars     == <<znode, armed, event, changes>>
watchVars  == <<zpc, fetched>>
sharedVars == <<buf, len, new>>
mainVars   == <<pc, port, conn, result>>
vars == <<faults, zkVars, connected, watchVars, sharedVars, mainVars, alive, late>>

Init ==
  /\ faults \in FaultSets
  /\ znode \in Addresses \union {NoAddress}
  /\ armed = FALSE /\ event = "none" /\ changes = 0
  /\ connected = FALSE
  /\ zpc = "idle" /\ fetched = NoAddress
  /\ \E j \in Junk : buf = [i \in 1 .. BufLen |-> j]
  /\ len = BufLen
  /\ new = FALSE
  /\ pc = "wait" /\ port = <<>> /\ conn = NoAddress
  /\ alive = Addresses
  /\ result = "none" /\ late = 0

\* The digits after the colon, as atoi reads them: up to the first cell that
\* is no digit, whoever wrote it there.
PortIn(b) ==
  LET stop == {i \in 2 .. BufLen : b[i] \notin Digits} \union {BufLen + 1}
  IN  SubSeq(b, 2, Min(stop) - 1)

Parse(b) == <<b[1]>> \o PortIn(b)

\* The cells first..n of the buffer are overwritten with the data.
Copy(b, data, first, n) ==
  [i \in 1 .. BufLen |-> IF i \in first .. n THEN data[i] ELSE b[i]]

-----------------------------------------------------------------------------
\* ZooKeeper and the servers.

\* The znode is written with the address of a running server.  A watch fires
\* once.
Publish(a) ==
  /\ changes < MaxChanges
  /\ a \in alive /\ znode # a
  /\ znode' = a
  /\ changes' = changes + 1
  /\ armed' = FALSE
  /\ event' = IF armed THEN "changed" ELSE event
  /\ UNCHANGED <<faults, connected, watchVars, sharedVars, mainVars, alive, late>>

Delete ==
  /\ "delete" \in faults
  /\ changes < MaxChanges
  /\ znode # NoAddress
  /\ znode' = NoAddress
  /\ changes' = changes + 1
  /\ armed' = FALSE
  /\ event' = IF armed THEN "deleted" ELSE event
  /\ UNCHANGED <<faults, connected, watchVars, sharedVars, mainVars, alive, late>>

\* connection_watcher: a session event.
Connect ==
  /\ ~ connected
  /\ connected' = TRUE
  /\ UNCHANGED <<faults, zkVars, watchVars, sharedVars, mainVars, alive, late>>

Disconnect ==
  /\ "disconnect" \in faults
  /\ connected
  /\ connected' = FALSE
  /\ UNCHANGED <<faults, zkVars, watchVars, sharedVars, mainVars, alive, late>>

CrashServer(a) ==
  /\ "crash" \in faults
  /\ a \in alive
  /\ alive' = alive \ {a}
  /\ UNCHANGED <<faults, zkVars, connected, watchVars, sharedVars, mainVars, late>>

-----------------------------------------------------------------------------
\* data_watcher, on the thread of the library.

\* Only a change of the data is looked at.
Deliver ==
  /\ zpc = "idle" /\ event # "none"
  /\ event' = "none"
  /\ zpc' = IF event = "changed" THEN "get" ELSE "idle"
  /\ UNCHANGED <<faults, znode, armed, changes, connected, fetched, sharedVars, mainVars, alive, late>>

\* Faulty: zoo_get in the place of zoo_wget.
FetchOnce ==
  /\ zpc = "get"
  /\ IF connected /\ znode # NoAddress
     THEN fetched' = znode /\ zpc' = "copy1"
     ELSE zpc' = "flag" /\ UNCHANGED fetched
  /\ late' = 0
  /\ UNCHANGED <<faults, zkVars, connected, sharedVars, mainVars, alive>>

\* zoo_wget gets the data and sets the watch, or fails and does neither; its
\* return value is not looked at.
Fetch ==
  /\ zpc = "get"
  /\ IF connected /\ znode # NoAddress
     THEN armed' = TRUE /\ fetched' = znode /\ zpc' = "copy1"
     ELSE zpc' = "flag" /\ UNCHANGED <<armed, fetched>>
  /\ late' = 0
  /\ UNCHANGED <<faults, znode, event, changes, connected, sharedVars, mainVars, alive>>

\* The memcpy into server_info_buf, which the main thread may be reading.
CopyHost ==
  /\ zpc = "copy1"
  /\ buf' = Copy(buf, fetched, 1, 1)
  /\ zpc' = "copy2"
  /\ UNCHANGED <<faults, zkVars, connected, fetched, len, new, mainVars, alive, late>>

CopyPort ==
  /\ zpc = "copy2"
  /\ len' = Min({len, Len(fetched)})
  /\ buf' = Copy(buf, fetched, 2, len')
  /\ zpc' = "flag"
  /\ UNCHANGED <<faults, zkVars, connected, fetched, new, mainVars, alive, late>>

SetNew ==
  /\ zpc = "flag"
  /\ new' = TRUE
  /\ zpc' = "idle"
  /\ late' = 0
  /\ UNCHANGED <<faults, zkVars, connected, fetched, buf, len, mainVars, alive>>

-----------------------------------------------------------------------------
\* The main thread.

\* init_redundancy_manager, the busy wait for is_connected, and start_watcher
\* up to the return of its zoo_wget.  It gives up when there is no znode, or
\* when the session went down since is_connected.
StartWatcher ==
  /\ pc = "wait" /\ connected
  /\ \/ /\ znode # NoAddress
        /\ armed' = TRUE
        /\ fetched' = znode
        /\ len' = Min({len, Len(znode)})
        /\ buf' = Copy(buf, znode, 1, len')
        /\ pc' = "announce"
     \/ /\ znode = NoAddress \/ "disconnect" \in faults
        /\ pc' = "exited"
        /\ UNCHANGED <<armed, fetched, len, buf>>
  /\ UNCHANGED <<faults, znode, event, changes, connected, zpc, new, port, conn, result, alive, late>>

Announce ==
  /\ pc = "announce"
  /\ new' = TRUE
  /\ pc' = "check"
  /\ UNCHANGED <<faults, zkVars, connected, watchVars, buf, len, port, conn, result, alive, late>>

\* is_new, called by update_rtable_t.
CheckNew ==
  /\ pc = "check"
  /\ pc' = IF new THEN "clear" ELSE "prompt"
  /\ UNCHANGED <<faults, zkVars, connected, watchVars, sharedVars, port, conn, result, alive, late>>

\* is_new clears the flag before the buffer is read.
ClearNew ==
  /\ pc = "clear"
  /\ new' = FALSE
  /\ pc' = "port"
  /\ UNCHANGED <<faults, zkVars, connected, watchVars, buf, len, port, conn, result, alive, late>>

\* Faulty: the port is parsed once.
ReadPortOnce ==
  /\ pc = "port"
  /\ port' = IF port = <<>> THEN PortIn(buf) ELSE port
  /\ pc' = "host"
  /\ UNCHANGED <<faults, zkVars, connected, watchVars, sharedVars, conn, result, alive, late>>

\* rtable_connect parses the port, then copies the host.
ReadPort ==
  /\ pc = "port"
  /\ port' = PortIn(buf)
  /\ pc' = "host"
  /\ UNCHANGED <<faults, zkVars, connected, watchVars, sharedVars, conn, result, alive, late>>

\* Faulty: the flag is cleared once the buffer has been read.
ReadHostThenClear ==
  /\ pc = "host"
  /\ new' = FALSE
  /\ LET a == <<buf[1]>> \o port
     IN  IF a \in alive THEN conn' = a /\ pc' = "prompt"
         ELSE pc' = "exited" /\ UNCHANGED conn
  /\ UNCHANGED <<faults, zkVars, connected, watchVars, buf, len, port, result, alive, late>>

\* Faulty: the result of connect is not looked at.
ConnectUnchecked ==
  /\ pc = "host"
  /\ conn' = <<buf[1]>> \o port
  /\ pc' = "prompt"
  /\ UNCHANGED <<faults, zkVars, connected, watchVars, sharedVars, port, result, alive, late>>

\* network_connect.
CanConnect(a) == a \in alive

\* The old rtable is overwritten and its socket stays open, so that one day
\* socket fails.  main returns when there is no connection.
ReadHostAndConnect ==
  /\ pc = "host"
  /\ LET a == <<buf[1]>> \o port
     IN  \/ CanConnect(a) /\ conn' = a /\ pc' = "prompt"
         \/ /\ ~ CanConnect(a) \/ "descriptors" \in faults
            /\ pc' = "exited"
            /\ UNCHANGED conn
  /\ UNCHANGED <<faults, zkVars, connected, watchVars, sharedVars, port, result, alive, late>>

\* fgets returns: a command, or quit.
TypeCommand ==
  /\ pc = "prompt"
  /\ pc' = "send"
  /\ UNCHANGED <<faults, zkVars, connected, watchVars, sharedVars, port, conn, result, alive, late>>

TypeQuit ==
  /\ pc = "prompt"
  /\ pc' = "exited"
  /\ UNCHANGED <<faults, zkVars, connected, watchVars, sharedVars, port, conn, result, alive, late>>

\* network_send_receive.  There may be no memory, or the connection is broken,
\* with the server gone or not: then the write fails or kills the client
\* (SIGPIPE), or the size that read_all did not receive is what malloc left:
\* zero gives an empty message, which is taken for an answer; any other size
\* an error or a loop without end.  Nor is there an end of the wait for the
\* answer of a server that has no thread for the connection.
SendCommand ==
  /\ pc = "send"
  /\ \/ conn \in alive /\ result' = "done" /\ pc' = "check"
     \/ result' \in {"claimed", "error"} /\ pc' = "check"
     \/ pc' \in {"spin", "exited"} /\ UNCHANGED result
  /\ late' = IF conn # Parse(buf) /\ zpc \in {"idle", "get"} THEN late + 1 ELSE late
  /\ UNCHANGED <<faults, zkVars, connected, watchVars, sharedVars, port, conn, alive>>

-----------------------------------------------------------------------------
Watcher == Deliver \/ Fetch \/ CopyHost \/ CopyPort \/ SetNew

Main ==
  \/ StartWatcher \/ Announce
  \/ CheckNew \/ ClearNew \/ ReadPort \/ ReadHostAndConnect
  \/ TypeCommand \/ SendCommand

Environment ==
  \/ \E a \in Addresses : Publish(a) \/ CrashServer(a)
  \/ Delete
  \/ Connect \/ Disconnect
  \/ TypeQuit

Next == Watcher \/ Main \/ Environment

\* Both threads run, the session comes up, and the user goes on typing: the
\* client looks at new once per command only.
Fairness == WF_vars(Watcher) /\ WF_vars(Main) /\ WF_vars(Connect)

Spec == Init /\ [][Next]_vars /\ Fairness

-----------------------------------------------------------------------------
Running == pc \notin {"wait", "announce", "exited", "spin"}

TypeOK ==
  /\ znode \in Addresses \union {NoAddress}
  /\ event \in {"none", "changed", "deleted"}
  /\ zpc \in {"idle", "get", "copy1", "copy2", "flag"}
  /\ len \in 1 .. BufLen
  /\ DOMAIN buf = 1 .. BufLen
  /\ pc \in {"wait", "announce", "check", "clear", "port", "host", "prompt",
             "send", "exited", "spin"}
  /\ conn \in Addresses \union {NoAddress}
  /\ alive \subseteq Addresses
  /\ faults \in FaultSets

(* No news is lost, although new is read and cleared without a lock: when   *)
(* the buffer holds another address than the one the client is connected    *)
(* to, and nobody is at work on it, new is set, and the next call of        *)
(* update_rtable_t reconnects.                                              *)
NewsNotLost ==
  pc \in {"check", "prompt", "send"} /\ zpc \in {"idle", "get", "copy1"} =>
    new \/ conn = Parse(buf)

(* main looks for a new primary and then waits for a line, for as long as   *)
(* the user likes, and rtable_connect reads the port and the host while      *)
(* data_watcher may write them: so a command may go to the old server, or to *)
(* one whose host and port come from two addresses.  But only one: once      *)
(* data_watcher is done with a change, at most one more command goes to a    *)
(* server other than the one the buffer names.                               *)
OneLateCommand == late <= 1

(* client_redundancy.h:26 has the server details gotten from ZooKeeper and  *)
(* placed in the server's buffer: what can be parsed from the buffer is the *)
(* address that was fetched, once it is copied.  It is not: no NUL is        *)
(* written behind the address, the cells are not cleared, neither by malloc  *)
(* nor for a shorter address, and server_info_len never grows again.         *)
BufferHoldsAddress ==
  fetched # NoAddress /\ zpc \notin {"copy1", "copy2"} => Parse(buf) = fetched

(* As long as the znode stays and the session is up, whatever servers end.  *)
ZooKeeperStays == faults \subseteq {"crash"}

(* client_redundancy.c:32, "Get the updated data and reset the watch": when *)
(* no notification is being handled, the watch is set.  Not so when the     *)
(* znode is deleted: that event is not looked at.                           *)
WatchStaysSet ==
  ZooKeeperStays =>
    (Running /\ zpc \in {"idle", "copy1"} /\ event = "none" => armed)

(* When the changes have ended, a client that neither stopped nor hangs has *)
(* in the end, and for good, fetched the primary of the znode and connected  *)
(* to what it reads of it in the buffer.                                     *)
FollowsPrimary ==
  <>[](ZooKeeperStays =>
         \/ pc \in {"exited", "spin"}
         \/ fetched = znode /\ conn = Parse(buf))
=============================================================================
