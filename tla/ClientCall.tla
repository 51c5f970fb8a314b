------------------------------ MODULE ClientCall ------------------------------
(***************************************************************************)
(* A client and its server: the loop of main (table_client.c), the calls   *)
(* of client_stub.c over network_send_receive (network_client.c), and the  *)
(* thread of the server that serves them, which executes a request and     *)
(* sends the answer.  The connection may have no thread, its thread may    *)
(* end, and the connection may break, at any moment.                       *)
(*                                                                         *)
(* Framing models how a message crosses the connection; here it is one     *)
(* step.  ClientFailover models the change to another server; here the     *)
(* client goes on with the connection it has.                              *)
(***************************************************************************)
EXTENDS Naturals, SequencesExt

CONSTANTS
  Ops,        \* the commands the user types
  MaxCalls    \* bound: the calls of the client

ASSUME CallAssumption ==
  /\ Ops \subseteq {"put", "del", "get", "size", "keys", "print", "stats"}
  /\ MaxCalls \in Nat \ {0}

VARIABLES
  pc,         \* the client: at the "prompt", in the "write" or the "read" of
              \* a call; it "exited", "crashed", or is in a "spin"
  call, cmd,  \* the number and the command of the last call
  said,       \* said[n]: what the client printed of call n
  up, down,   \* the requests and the answers in the connection
  conn,       \* the connection: "whole" or "broken"
  thread,     \* the thread of the server: it "serves", or there is "none"
  work,       \* the answer the thread is about to send, if any
  executed,   \* history: the calls the server executed, with their answers
  heard,      \* history: the calls that read the answer to their own request
  skewed      \* history: a call came back and left the answer to be read

clientVars == <<pc, call, cmd, said, heard, skewed>>
netVars    == <<up, down, conn>>
serverVars == <<thread, work, executed>>
vars == <<clientVars, netVars, serverVars>>

Calls == 1 .. MaxCalls
Answer == [call : Calls, ok : BOOLEAN]

\* The server accepts connections that it then has no thread for.
Init ==
  /\ pc = "prompt" /\ call = 0 /\ cmd = "none"
  /\ said = [n \in Calls |-> "nothing"]
  /\ up = <<>> /\ down = <<>> /\ conn = "whole"
  /\ thread \in {"serves", "none"} /\ work = <<>>
  /\ executed = <<>> /\ heard = {} /\ skewed = FALSE

-----------------------------------------------------------------------------
\* The server's thread, and the connection.

\* invoke: DEL and GET answer with an error for a key that is not there, STATS
\* for want of memory.
Refusable == {"del", "get", "stats"}

Execute ==
  /\ thread = "serves" /\ work = <<>> /\ up # <<>>
  /\ \E ok \in IF Head(up).op \in Refusable THEN BOOLEAN ELSE {TRUE} :
       LET a == [call |-> Head(up).call, ok |-> ok]
       IN  work' = <<a>> /\ executed' = Append(executed, a)
  /\ up' = Tail(up)
  /\ UNCHANGED <<clientVars, down, conn, thread>>

\* What is sent on a broken connection is lost.
Answers ==
  /\ thread = "serves" /\ work # <<>>
  /\ down' = IF conn = "whole" THEN down \o work ELSE down
  /\ work' = <<>>
  /\ UNCHANGED <<clientVars, up, conn, thread, executed>>

\* dispatch_thread ends, for want of memory or because the process does.  When
\* it leaves the socket open the client does not notice.
ThreadEnds ==
  /\ thread = "serves"
  /\ thread' = "none" /\ work' = <<>>
  /\ UNCHANGED <<clientVars, netVars, executed>>

\* The thread closes the socket, the process ends, or the network resets the
\* connection.  What was sent before may still arrive, or not.
Break ==
  /\ conn = "whole"
  /\ conn' = "broken"
  /\ \E k \in 0 .. Len(up) : up' = SubSeq(up, 1, k)
  /\ \E k \in 0 .. Len(down) : down' = SubSeq(down, 1, k)
  /\ UNCHANGED <<clientVars, serverVars>>

-----------------------------------------------------------------------------
\* The loop of main.

Type(op) ==
  /\ pc = "prompt" /\ call < MaxCalls
  /\ call' = call + 1 /\ cmd' = op
  /\ pc' = "write"
  /\ UNCHANGED <<said, heard, skewed, netVars, serverVars>>

\* The client stops, and its last call was an earlier one.
StopAt(p) ==
  /\ pc = "prompt" /\ pc' = p
  /\ UNCHANGED <<call, cmd, said, heard, skewed, netVars, serverVars>>

\* A del, get or put without its operands: strdup or strlen of NULL.
TypeIncomplete == StopAt("crashed")

\* The end of the input, which fgets reports and nobody looks at: an empty
\* line for ever, and each time a NUL is written before the start of com.
TypeEnd == \E p \in {"spin", "crashed"} : StopAt(p)

TypeQuit == StopAt("exited")

\* Faulty: the opcode of an answer is not looked at.
OutcomeUnchecked(op, resp) == IF resp = "null" THEN "failed" ELSE "done"

\* What the functions of client_stub.c make of what network_send_receive
\* returned - "ok", "error", NULL, or an "empty" message, whose opcode is
\* OP_BAD and whose buffer is NULL - and what main then prints.
Outcome(op, resp) ==
  CASE op \in {"put", "del"} -> IF resp \in {"null", "error"} THEN "failed" ELSE "done"
    [] op \in {"get", "stats"} -> IF resp = "ok" THEN "done" ELSE "failed"
    [] op = "size" -> CASE resp = "ok" -> "done" [] resp = "null" -> "failed" [] OTHER -> "crashed"
    [] op \in {"keys", "print"} -> IF resp = "null" THEN "crashed" ELSE "done"

Show(o) ==
  IF o = "crashed" THEN pc' = "crashed" /\ UNCHANGED said
                   ELSE pc' = "prompt" /\ said' = [said EXCEPT ![call] = o]

Finish(resp) == Show(Outcome(cmd, resp))

-----------------------------------------------------------------------------
\* network_send_receive.

\* Faulty: a put does not wait for its answer.
WriteAndGo ==
  /\ pc = "write" /\ conn = "whole"
  /\ up' = Append(up, [call |-> call, op |-> cmd])
  /\ IF cmd = "put" THEN Finish("ok") ELSE pc' = "read" /\ UNCHANGED said
  /\ UNCHANGED <<call, cmd, heard, skewed, down, conn, serverVars>>

Write ==
  /\ pc = "write" /\ conn = "whole"
  /\ up' = Append(up, [call |-> call, op |-> cmd])
  /\ pc' = "read"
  /\ UNCHANGED <<call, cmd, said, heard, skewed, down, conn, serverVars>>

\* There is no memory for the request.  Or the connection is broken: the first
\* write to a socket that was closed still succeeds, another one fails or kills
\* the client, which does not ignore SIGPIPE.
WriteFails ==
  /\ pc = "write"
  /\ \/ Finish("null")
     \/ conn = "broken" /\ pc' \in {"read", "crashed"} /\ UNCHANGED said
  /\ UNCHANGED <<call, cmd, heard, skewed, netVars, serverVars>>

\* Faulty: the request is written again when nothing was read for a while.
ReadOrRepeat ==
  /\ pc = "read"
  /\ \/ /\ down # <<>>
        /\ Finish(IF Head(down).ok THEN "ok" ELSE "error")
        /\ down' = Tail(down)
        /\ UNCHANGED up
     \/ /\ down = <<>> /\ conn = "whole" /\ Len(up) < 2
        /\ up' = Append(up, [call |-> call, op |-> cmd])
        /\ UNCHANGED <<pc, said, down>>
  /\ UNCHANGED <<call, cmd, heard, skewed, conn, serverVars>>

\* read_all takes the answer that came first.  One that was not meant for this
\* call need not have what the call looks for.  message_t__unpack may have no
\* memory for it.
ReadAnswer ==
  /\ pc = "read" /\ down # <<>>
  /\ LET a == Head(down)
     IN  \/ /\ a.call = call
            /\ Finish(IF a.ok THEN "ok" ELSE "error")
            /\ heard' = heard \union {call}
         \/ /\ a.call # call
            /\ \E o \in {"done", "failed", "crashed"} : Show(o)
            /\ UNCHANGED heard
         \/ Finish("null") /\ UNCHANGED heard
  /\ down' = Tail(down)
  /\ UNCHANGED <<call, cmd, skewed, up, conn, serverVars>>

\* The connection is broken and there is no answer.  read_all does not look at
\* what the read of the size returned: the size is what malloc left there.
\* With zero the message is empty; with another size read_all fails, or hangs.
ReadNothing ==
  /\ pc = "read" /\ down = <<>> /\ conn = "broken"
  /\ \/ \E resp \in {"empty", "null"} : Finish(resp)
     \/ pc' = "spin" /\ UNCHANGED said
  /\ UNCHANGED <<call, cmd, heard, skewed, netVars, serverVars>>

\* read_all has no memory for the size and gives up before it reads.  The answer
\* is left in the connection, or still to come.
ReadNoMemory ==
  /\ pc = "read"
  /\ Finish("null")
  /\ skewed' = TRUE
  /\ UNCHANGED <<call, cmd, heard, netVars, serverVars>>

-----------------------------------------------------------------------------
Server == Execute \/ Answers \/ ThreadEnds
Call == Write \/ WriteFails \/ ReadAnswer \/ ReadNothing \/ ReadNoMemory

Next ==
  \/ Server \/ Break
  \/ Call
  \/ \E op \in Ops : Type(op)
  \/ TypeIncomplete \/ TypeEnd \/ TypeQuit

\* Nothing has to happen: the server need not have a thread for the connection,
\* and the client has no timeout.
Spec == Init /\ [][Next]_vars

-----------------------------------------------------------------------------
(* A call takes the answer to its own request, never one that an earlier    *)
(* call has left in the connection, also after calls that failed.  Once one  *)
(* failed for want of memory (message.c:19-21) this is lost for good: the    *)
(* next call takes its answer.                                               *)
AnswerIsMine == ~ skewed /\ pc = "read" /\ down # <<>> => Head(down).call = call

(* No request is executed twice, and they are executed in the order of the  *)
(* calls: nothing is sent again after an error, which may have come before  *)
(* the request was executed or after, and what is executed late, when its   *)
(* call is long over, is not overtaken.                                     *)
ExecutedOnce ==
  \A i, j \in DOMAIN executed : i < j => executed[i].call < executed[j].call

Succeeded(n) == \E i \in DOMAIN executed : executed[i] = [call |-> n, ok |-> TRUE]

(* A call that read the answer to its request says done if and only if the  *)
(* server executed it with success, whatever happened to the connection and *)
(* to other calls before or after.                                          *)
AnswersAreShown == \A n \in heard : said[n] = "done" <=> Succeeded(n)

(* client_stub.h:30-33: rtable_put returns 0 when the entry was added or     *)
(* replaced and -1 for problems.  So a call that says done was executed, and *)
(* with success.                                                             *)
DoneMeansExecuted == \A n \in Calls : said[n] = "done" => Succeeded(n)
=============================================================================
