------------------------------- MODULE Framing --------------------------------
(***************************************************************************)
(* read_all and write_all (message.c): messages on a stream socket, each   *)
(* one a header with its size and then its body.  The writer is a client   *)
(* that sends requests, the reader the dispatch_thread that receives them. *)
(*                                                                         *)
(* A stream keeps the order of its cells and forgets which of them were    *)
(* written together: a read returns any number of cells from 1 up, zero    *)
(* when the peer has closed, -1 after a reset.  A cell stands for some     *)
(* bytes of a header or of a body.                                         *)
(***************************************************************************)
EXTENDS Integers, FiniteSetsExt, SequencesExt

CONSTANTS
  Sizes,        \* the sizes messages may have
  HeadLen,      \* UNSIGNED_SIZE, in cells
  MaxMessages   \* bound: the messages sent

ASSUME FramingAssumption ==
  /\ Sizes # {} /\ Sizes \subseteq Nat \ {0}
  /\ HeadLen \in Nat \ {0}
  /\ MaxMessages \in Nat \ {0}

VARIABLES
  sizes,    \* sizes[n]: the size of message n, in the order of sending
  wpc,      \* the writer: "idle", in the "body" of a message, or "ended"
  sent,     \* sent: the cells of the body written so far
  stream,   \* the cells written and not yet read
  link,     \* "open", "closed" by the writer, or "reset", by the reader or by
            \* the network
  rpc,      \* the reader: at the "head" or in the "body" of a message; or it
            \* has "closed" the socket, "left" it open, or is in a "spin"
  size,     \* what the reader takes for the size of the message
  data,     \* the cells of the body read so far
  got,      \* the messages received: their numbers, 0 for what nobody sent
  whole     \* history: no read of a header returned less than the header

writer == <<sizes, wpc, sent>>
reader == <<rpc, size, data, got, whole>>
vars == <<writer, stream, link, reader>>

Cells(n, part, first, last) ==
  [i \in 1 .. last - first + 1 |-> [msg |-> n, part |-> part, at |-> first + i - 1]]

\* What size may be when malloc, or other bytes than a header, filled it.
Junk == -1 .. Max(Sizes)

Init ==
  /\ sizes = <<>> /\ wpc = "idle" /\ sent = 0
  /\ stream = <<>> /\ link = "open"
  /\ rpc = "head" /\ size = 0 /\ data = <<>> /\ got = <<>>
  /\ whole = TRUE

-----------------------------------------------------------------------------
\* write_all.

WriteHeader(s) ==
  /\ wpc = "idle" /\ link = "open" /\ Len(sizes) < MaxMessages
  /\ sizes' = Append(sizes, s)
  /\ stream' = stream \o Cells(Len(sizes'), "head", 1, HeadLen)
  /\ wpc' = "body" /\ sent' = 0
  /\ UNCHANGED <<link, reader>>

\* The loop: a write takes some of the cells that are left.
WriteBody ==
  /\ wpc = "body" /\ link = "open"
  /\ \E k \in sent + 1 .. Last(sizes) :
       /\ stream' = stream \o Cells(Len(sizes), "body", sent + 1, k)
       /\ sent' = k
       /\ wpc' = IF k = Last(sizes) THEN "idle" ELSE "body"
  /\ UNCHANGED <<sizes, link, reader>>

\* The writer closes the connection, or ends, in the middle of anything.
Close ==
  /\ link = "open"
  /\ link' = "closed" /\ wpc' = "ended"
  /\ UNCHANGED <<sizes, sent, stream, reader>>

\* The connection breaks: what has not arrived is lost.
Reset ==
  /\ link = "open"
  /\ link' = "reset" /\ wpc' = "ended"
  /\ \E k \in 0 .. Len(stream) : stream' = SubSeq(stream, 1, k)
  /\ UNCHANGED <<sizes, sent, reader>>

-----------------------------------------------------------------------------
\* read_all.  A message of size zero is the empty message, whose opcode is
\* OP_BAD: invoke refuses it and the thread ends.
Begin(s) ==
  /\ size' = s
  /\ data' = <<>>
  /\ rpc' = IF s = 0 THEN "left" ELSE "body"

\* The read of the header takes what there is of it, and its result is not
\* looked at: with less than the whole the rest of the size is what malloc
\* left there.
ReadHeader ==
  /\ rpc = "head" /\ stream # <<>>
  /\ \E k \in 1 .. Min({HeadLen, Len(stream)}) :
       /\ whole' = (whole /\ k = HeadLen)
       /\ stream' = SubSeq(stream, k + 1, Len(stream))
       /\ LET n == stream[1].msg
          IN  IF SubSeq(stream, 1, k) = Cells(n, "head", 1, HeadLen)
              THEN Begin(sizes[n])
              ELSE \E s \in Junk : Begin(s)
  /\ UNCHANGED <<writer, link, got>>

\* The same with nothing to read: it returns 0, or -1.
ReadNoHeader ==
  /\ rpc = "head" /\ stream = <<>> /\ link # "open"
  /\ \E s \in Junk : Begin(s)
  /\ UNCHANGED <<writer, stream, link, got, whole>>

\* message_t__unpack of the cells, and the thread's way back to read_all.
\* Cells that are not a message give NULL, or a message nobody sent; of that
\* the opcode may be bad or not.
Unpack(cells) ==
  \/ \E n \in DOMAIN sizes :
       /\ cells = Cells(n, "body", 1, sizes[n])
       /\ got' = Append(got, n)
       /\ rpc' = "head"
  \/ /\ \A n \in DOMAIN sizes : cells # Cells(n, "body", 1, sizes[n])
     /\ \/ got' = got /\ rpc' = "left"
        \/ got' = Append(got, 0) /\ rpc' \in {"head", "left"}

\* Faulty: one read for the whole body.
ReadBodyOnce ==
  /\ rpc = "body" /\ size > 0 /\ stream # <<>>
  /\ \E k \in 1 .. Min({size - Len(data), Len(stream)}) :
       /\ stream' = SubSeq(stream, k + 1, Len(stream))
       /\ data' = <<>>
       /\ Unpack(data \o SubSeq(stream, 1, k))
  /\ UNCHANGED <<writer, link, size, whole>>

\* Faulty: every read of the loop asks for the whole size again.
ReadBodyAgain ==
  /\ rpc = "body" /\ size > 0 /\ stream # <<>>
  /\ \E k \in 1 .. Min({size, Len(stream)}) :
       /\ stream' = SubSeq(stream, k + 1, Len(stream))
       /\ LET cells == data \o SubSeq(stream, 1, k)
          IN  IF Len(cells) = size
              THEN data' = <<>> /\ Unpack(cells)
              ELSE data' = cells /\ UNCHANGED <<rpc, got>>
  /\ UNCHANGED <<writer, link, size, whole>>

\* The loop: a read takes some of the cells that are left.
ReadBody ==
  /\ rpc = "body" /\ size > 0 /\ stream # <<>>
  /\ \E k \in 1 .. Min({size - Len(data), Len(stream)}) :
       /\ stream' = SubSeq(stream, k + 1, Len(stream))
       /\ LET cells == data \o SubSeq(stream, 1, k)
          IN  IF Len(cells) = size
              THEN data' = <<>> /\ Unpack(cells)
              ELSE data' = cells /\ UNCHANGED <<rpc, got>>
  /\ UNCHANGED <<writer, link, size, whole>>

\* Faulty: the loop ends when a read returns 0.
ReadEndStops ==
  /\ rpc = "body" /\ size > 0 /\ stream = <<>> /\ link # "open"
  /\ data' = <<>>
  /\ Unpack(data)
  /\ UNCHANGED <<writer, stream, link, size, whole>>

\* A read that returns 0 leaves the loop where it was, for ever; -1 ends
\* read_all, and network_receive closes the socket.
ReadEnd ==
  /\ rpc = "body" /\ size > 0 /\ stream = <<>> /\ link # "open"
  /\ rpc' \in {"spin"} \union {p \in {"closed"} : link = "reset"}
  /\ UNCHANGED <<writer, stream, link, size, data, got, whole>>

\* A negative size, as the count of read, is refused by the kernel.
ReadRefused ==
  /\ rpc = "body" /\ size < 0
  /\ rpc' = "closed"
  /\ UNCHANGED <<writer, stream, link, size, data, got, whole>>

\* There is no memory for the header, or for the body, whose malloc is not
\* looked at, so that the read is refused.  read_all returns -1 before it has
\* read anything, and network_receive closes the socket.
ReadNoMemory ==
  /\ rpc = "head" \/ (rpc = "body" /\ data = <<>>)
  /\ rpc' = "closed"
  /\ link' = "reset" /\ wpc' = "ended" /\ stream' = <<>>
  /\ UNCHANGED <<sizes, sent, size, data, got, whole>>

-----------------------------------------------------------------------------
Reader == ReadHeader \/ ReadNoHeader \/ ReadBody \/ ReadEnd \/ ReadRefused

Next ==
  \/ \E s \in Sizes : WriteHeader(s)
  \/ WriteBody
  \/ Close \/ Reset \/ ReadNoMemory
  \/ Reader

\* A write_all that has begun goes on, and so does the reader's thread.
Spec == Init /\ [][Next]_vars /\ WF_vars(WriteBody) /\ WF_vars(Reader)

-----------------------------------------------------------------------------
TypeOK ==
  /\ sizes \in Seq(Sizes) /\ Len(sizes) <= MaxMessages
  /\ wpc \in {"idle", "body", "ended"}
  /\ sent \in 0 .. Max(Sizes)
  /\ link \in {"open", "closed", "reset"}
  /\ rpc \in {"head", "body", "closed", "left", "spin"}
  /\ size \in Junk
  /\ Len(data) <= Max(Sizes)
  /\ got \in Seq(0 .. MaxMessages)
  /\ whole \in BOOLEAN

(* network_server.h:27-30: network_receive reads the bytes of a client and  *)
(* builds the message with the request.  As long as every header came out   *)
(* of one read, what is received is what was sent, in that order, each      *)
(* message once and none from half of its bytes, wherever the bodies were   *)
(* cut into reads and the connection ended.                                 *)
ReceivedIsSent == whole => IsPrefix(got, [n \in DOMAIN sizes |-> n])

(* The loop of read_all tests alreadyRead != size and not <: whatever the    *)
(* size is made of, and however the reads are cut, alreadyRead must meet it *)
(* exactly, or the loop writes past its buffer.                             *)
BufferNotOverrun == rpc = "body" /\ size > 0 => Len(data) < size

(* message.c is a channel of messages until a header comes in pieces, and   *)
(* every message that was begun arrives if the connection stays: the reader *)
(* closes it when it has no memory for one.                                 *)
Channel == INSTANCE MessageChannel WITH
  sent <- [n \in DOMAIN sizes |-> n],
  state <- CASE ~ whole                  -> "garbled"
             [] whole /\ link = "open"  -> "open"
             [] whole /\ link # "open"  -> "ended"

ImplementsChannel == Channel!Spec
=============================================================================
