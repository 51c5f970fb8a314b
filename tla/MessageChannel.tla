---------------------------- MODULE MessageChannel ----------------------------
(***************************************************************************)
(* What message.c is for: whole messages, in the order in which they were  *)
(* sent, each once, until the connection ends.  Once the stream is garbled *)
(* nothing is promised any more.                                           *)
(***************************************************************************)
EXTENDS Naturals, Sequences

VARIABLES
  sent,   \* the messages handed to write_all
  got,    \* the messages that came out of read_all
  state   \* "open", "ended", or "garbled"

vars == <<sent, got, state>>

Init == sent = <<>> /\ got = <<>> /\ state = "open"

\* Messages are told apart by their number.
Send ==
  /\ state = "open"
  /\ sent' = Append(sent, Len(sent) + 1)
  /\ UNCHANGED <<got, state>>

\* What was sent before the end may still arrive, or be lost.
Receive ==
  /\ state # "garbled" /\ Len(got) < Len(sent)
  /\ got' = Append(got, sent[Len(got) + 1])
  /\ UNCHANGED <<sent, state>>

End ==
  /\ state = "open" /\ state' = "ended"
  /\ UNCHANGED <<sent, got>>

Garble == state' = "garbled"

Next == Send \/ Receive \/ End \/ Garble

Spec == Init /\ [][Next]_vars /\ WF_vars(state = "open" /\ Receive)
=============================================================================
