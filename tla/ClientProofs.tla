----------------------------- MODULE ClientProofs -----------------------------
(***************************************************************************)
(* Proofs about ClientCall and ClientProgram, for every set of commands    *)
(* and of lines and every number of calls, with connections that break and *)
(* threads that end at any moment.  A call: as long as no call failed for  *)
(* want of memory an answer goes to the call that asked for it; no request *)
(* is executed twice; and a call that read its answer shows it as it was.  *)
(* The program: its steps are steps of ClientCall, or leave the call       *)
(* alone, so all of that holds whatever lines are typed and however they   *)
(* are read; and a line that fits into com is taken as typed.              *)
(***************************************************************************)
EXTENDS ClientProgram, SequenceTheorems, WellFoundedInduction, TLAPS

Request == [call : Calls, op : Ops]

TypeInv ==
  /\ pc \in {"prompt", "write", "read", "exited", "crashed", "spin"}
  /\ call \in 0 .. MaxCalls
  /\ said \in [Calls -> {"nothing", "done", "failed"}]
  /\ up \in Seq(Request) /\ down \in Seq(Answer)
  /\ work \in Seq(Answer) /\ Len(work) <= 1
  /\ conn \in {"whole", "broken"}
  /\ executed \in Seq(Answer)
  /\ heard \subseteq Calls

\* A call that has been typed.
CallInHand == pc \in {"write", "read"} => call \in Calls /\ cmd \in Ops

\* What was executed and what still may be is in the order of the calls.
InOrder ==
  /\ ExecutedOnce
  /\ \A i \in DOMAIN executed, j \in DOMAIN up : executed[i].call < up[j].call
  /\ \A i, j \in DOMAIN up : i < j => up[i].call < up[j].call

\* It was all sent by the calls so far.
Sent(n) == n <= call /\ (pc = "write" => n < call)

UpToNow ==
  /\ \A i \in DOMAIN executed : Sent(executed[i].call)
  /\ \A i \in DOMAIN up : Sent(up[i].call)

\* An answer is one the server gave, and only some commands are refused.
Genuine(a) ==
  /\ \E i \in DOMAIN executed : executed[i] = a
  /\ a.call = call => a.ok \/ cmd \in Refusable

AllGenuine ==
  /\ \A i \in DOMAIN up : up[i].call = call => up[i].op = cmd
  /\ \A i \in DOMAIN work : Genuine(work[i])
  /\ \A i \in DOMAIN down : Genuine(down[i])

\* As long as every call has taken its answer there is at most one to come, that
\* of the call under way.  A broken connection may still have requests in it
\* that the server will execute, but no answer to them.
OneUnderWay ==
  ~ skewed =>
    /\ down # <<>> => pc = "read" /\ Len(down) = 1 /\ down[1].call = call
    /\ conn = "whole" =>
         /\ up # <<>> => pc = "read" /\ Len(up) = 1 /\ up[1].call = call
                         /\ work = <<>> /\ down = <<>>
         /\ work # <<>> => pc = "read" /\ work[1].call = call /\ down = <<>>

\* What the calls that read their answers have shown.
HeardShown ==
  \A n \in heard :
    /\ n <= call /\ (pc \in {"write", "read"} => n # call)
    /\ \E i \in DOMAIN executed : executed[i].call = n
    /\ said[n] = "done" <=> Succeeded(n)

IInv ==
  /\ TypeInv /\ CallInHand
  /\ InOrder /\ UpToNow
  /\ AllGenuine /\ OneUnderWay
  /\ HeardShown

LEMMA IInvInit == Init => IInv
<1> SUFFICES ASSUME Init
             PROVE  IInv
  OBVIOUS
<1>1. TypeInv
  BY CallAssumption DEF Init, TypeInv, Calls
<1>2. CallInHand /\ InOrder /\ UpToNow /\ AllGenuine /\ OneUnderWay /\ HeardShown
  BY DEF Init, CallInHand, InOrder, ExecutedOnce, UpToNow, AllGenuine, OneUnderWay, HeardShown
<1> QED
  BY <1>1, <1>2 DEF IInv

(* The calls of the requests and of what was executed are numbers.          *)
LEMMA CallsAreNumbers ==
  ASSUME TypeInv
  PROVE  /\ \A i \in DOMAIN executed : executed[i] \in Answer /\ executed[i].call \in Nat
         /\ \A i \in DOMAIN up : up[i] \in Request /\ up[i].call \in Nat
         /\ call \in Nat
<1>1. Calls \subseteq Nat
  BY CallAssumption DEF Calls
<1>2. \A i \in DOMAIN executed : executed[i] \in Answer
  BY DEF TypeInv
<1>3. \A i \in DOMAIN up : up[i] \in Request
  BY DEF TypeInv
<1>4. call \in Nat
  BY CallAssumption DEF TypeInv
<1> QED
  BY <1>1, <1>2, <1>3, <1>4 DEF Answer, Request

(* The first elements of a sequence, and all but the first.                 *)
LEMMA FirstOf ==
  ASSUME NEW S, NEW s \in Seq(S), NEW k \in 0 .. Len(s)
  PROVE  /\ SubSeq(s, 1, k) \in Seq(S) /\ Len(SubSeq(s, 1, k)) = k
         /\ DOMAIN SubSeq(s, 1, k) \subseteq DOMAIN s
         /\ \A i \in DOMAIN SubSeq(s, 1, k) : SubSeq(s, 1, k)[i] = s[i]
  OBVIOUS

LEMMA RestOf ==
  ASSUME NEW S, NEW s \in Seq(S), s # <<>>
  PROVE  /\ Tail(s) \in Seq(S) /\ Len(Tail(s)) = Len(s) - 1 /\ Len(s) \in Nat \ {0}
         /\ Head(s) = s[1] /\ 1 \in DOMAIN s /\ s[1] \in S
         /\ \A i \in DOMAIN Tail(s) : i \in Nat /\ i + 1 \in DOMAIN s /\ i + 1 > 1 /\ Tail(s)[i] = s[i + 1]
  OBVIOUS

LEMMA OneBehind ==
  ASSUME NEW S, NEW s \in Seq(S), NEW w \in Seq(S), w # <<>>, Len(w) <= 1
  PROVE  /\ Len(w) = 1 /\ s \o w \in Seq(S) /\ 1 \in DOMAIN w
         /\ \A i \in DOMAIN (s \o w) : \/ i \in DOMAIN s /\ (s \o w)[i] = s[i]
                                      \/ (s \o w)[i] = w[1]
<1>1. Len(w) \in Nat \ {0}
  BY RestOf
<1>2. Len(w) = 1
  <2>1. \A n \in Nat \ {0} : n <= 1 => n = 1
    OBVIOUS
  <2> QED
    BY <1>1, <2>1, Zenon
<1>3. /\ Len(s \o w) = Len(s) + 1 /\ s \o w \in Seq(S)
      /\ \A i \in 1 .. Len(s) + 1 : (s \o w)[i] = IF i <= Len(s) THEN s[i] ELSE w[i - Len(s)]
  BY <1>2, ConcatProperties
<1>4. Len(s) \in Nat /\ \A i \in 1 .. Len(s) + 1 : i > Len(s) => i - Len(s) = 1
  OBVIOUS
<1> QED
  BY <1>2, <1>3, <1>4

-----------------------------------------------------------------------------
\* The server.

(* The request is taken from the front: its call is later than all that were *)
(* executed and earlier than those behind it.                                *)
LEMMA ExecuteKeeps == IInv /\ Execute => IInv'
<1> SUFFICES ASSUME IInv, Execute
             PROVE  IInv'
  OBVIOUS
<1>1. TypeInv /\ up \in Seq(Request) /\ up # <<>> /\ work = <<>> /\ up' = Tail(up)
  BY DEF IInv, TypeInv, Execute
<1>2. /\ UNCHANGED <<clientVars, down, conn, thread>>
      /\ UNCHANGED <<pc, call, cmd, said, heard, skewed>>
  BY DEF Execute, clientVars
<1> DEFINE r == up[1]
<1>3. r \in Request /\ Head(up) = r /\ 1 \in DOMAIN up
  BY <1>1, RestOf
<1>4. PICK a \in Answer :
        /\ work' = <<a>> /\ executed' = Append(executed, a)
        /\ a.call = r.call
        /\ a.ok \/ r.op \in Refusable
  <2>1. PICK ok \in IF r.op \in Refusable THEN BOOLEAN ELSE {TRUE} :
          work' = <<[call |-> r.call, ok |-> ok]>>
            /\ executed' = Append(executed, [call |-> r.call, ok |-> ok])
    BY <1>3 DEF Execute
  <2>2. [call |-> r.call, ok |-> ok] \in Answer /\ (ok \/ r.op \in Refusable)
    BY <1>3 DEF Answer, Request
  <2> QED
    BY <2>1, <2>2
<1>5. /\ executed' \in Seq(Answer)
      /\ DOMAIN executed' = DOMAIN executed \union {Len(executed) + 1}
      /\ \A i \in DOMAIN executed : executed'[i] = executed[i]
      /\ executed'[Len(executed) + 1] = a
      /\ DOMAIN executed = 1 .. Len(executed) /\ Len(executed) \in Nat
  BY <1>1, <1>4 DEF TypeInv
<1>6. /\ up' \in Seq(Request)
      /\ \A i \in DOMAIN up' : i \in Nat /\ i + 1 \in DOMAIN up /\ i + 1 > 1 /\ up'[i] = up[i + 1]
  BY <1>1, RestOf
<1> HIDE DEF r
<1>7. TypeInv'
  BY <1>1, <1>2, <1>4, <1>5, <1>6 DEF TypeInv
<1>8. CallInHand'
  BY <1>2 DEF IInv, CallInHand
<1>9. \A i \in DOMAIN executed : executed[i].call < a.call
  BY <1>3, <1>4 DEF IInv, InOrder, r
<1>10. \A j \in DOMAIN up' : a.call < up'[j].call
  BY <1>3, <1>4, <1>6 DEF IInv, InOrder, r
<1>11. InOrder'
  <2>1. ExecutedOnce'
    BY <1>5, <1>9 DEF IInv, InOrder, ExecutedOnce
  <2>2. \A i \in DOMAIN executed', j \in DOMAIN up' : executed'[i].call < up'[j].call
    BY <1>5, <1>6, <1>10 DEF IInv, InOrder
  <2>3. \A i, j \in DOMAIN up' : i < j => up'[i].call < up'[j].call
    BY <1>6 DEF IInv, InOrder
  <2> QED
    BY <2>1, <2>2, <2>3 DEF InOrder
<1>12. UpToNow'
  <2>1. Sent(a.call)
    BY <1>3, <1>4 DEF IInv, UpToNow, r
  <2> QED
    BY <2>1, <1>2, <1>5, <1>6 DEF IInv, UpToNow, Sent
<1>13. AllGenuine'
  <2>1. Genuine(a)'
    BY <1>2, <1>3, <1>4, <1>5 DEF IInv, AllGenuine, Genuine, r
  <2>2. \A i \in DOMAIN down' : Genuine(down[i])'
    BY <1>2, <1>5 DEF IInv, AllGenuine, Genuine
  <2>3. \A i \in DOMAIN work' : work'[i] = a
    BY <1>4
  <2> QED
    BY <2>1, <2>2, <2>3, <1>2, <1>6 DEF IInv, AllGenuine
<1>14. OneUnderWay'
  <2>1. Len(up) = 1 => up' = <<>>
    BY <1>1
  <2>2. work'[1] = a
    BY <1>4
  <2> QED
    BY <2>1, <2>2, <1>1, <1>2, <1>4 DEF IInv, OneUnderWay, r
<1>15. HeardShown'
  <2> SUFFICES ASSUME NEW n \in heard
               PROVE  /\ n <= call /\ (pc \in {"write", "read"} => n # call)
                      /\ \E i \in DOMAIN executed' : executed'[i].call = n
                      /\ said[n] = "done" <=> Succeeded(n)'
    BY <1>2 DEF HeardShown
  <2>1. PICK i \in DOMAIN executed : executed[i].call = n
    BY DEF IInv, HeardShown
  <2>2. a.call # n
    BY <2>1, <1>1, <1>9, CallsAreNumbers
  <2>3. \A x \in {[call |-> n, ok |-> TRUE]} : a # x
    BY <2>2
  <2>4. Succeeded(n)' <=> Succeeded(n)
    BY <2>3, <1>5 DEF Succeeded
  <2> QED
    BY <2>1, <2>4, <1>5 DEF IInv, HeardShown
<1> QED
  BY <1>7, <1>8, <1>11, <1>12, <1>13, <1>14, <1>15 DEF IInv

(* The answer of a thread goes to a client that waits for it, unless an      *)
(* earlier one was left behind.                                              *)
LEMMA AnswersKeeps == IInv /\ Answers => IInv'
<1> SUFFICES ASSUME IInv, Answers
             PROVE  IInv'
  OBVIOUS
<1>0. work # <<>> /\ work \in Seq(Answer) /\ down \in Seq(Answer) /\ Len(work) <= 1
  BY DEF IInv, TypeInv, Answers
<1>1. /\ work \in Seq(Answer) /\ down \in Seq(Answer) /\ Len(work) = 1 /\ work # <<>>
      /\ work' = <<>>
      /\ down' = IF conn = "whole" THEN down \o work ELSE down
      /\ UNCHANGED <<pc, call, cmd, said, heard, skewed, up, conn, executed>>
  BY <1>0, OneBehind DEF Answers, clientVars
<1>2. /\ down' \in Seq(Answer)
      /\ \A i \in DOMAIN down' : \/ i \in DOMAIN down /\ down'[i] = down[i]
                                \/ down'[i] = work[1]
      /\ 1 \in DOMAIN work
  <2>1. CASE conn = "whole"
    <3>1. down' = down \o work
      BY <2>1, <1>1
    <3>2. /\ down \o work \in Seq(Answer)
          /\ \A i \in DOMAIN (down \o work) : \/ i \in DOMAIN down /\ (down \o work)[i] = down[i]
                                             \/ (down \o work)[i] = work[1]
          /\ 1 \in DOMAIN work
      BY <1>0, OneBehind
    <3> QED
      BY <3>1, <3>2, Zenon
  <2>2. CASE conn # "whole"
    BY <2>2, <1>1
  <2> QED
    BY <2>1, <2>2
<1>3. TypeInv' /\ CallInHand'
  BY <1>1, <1>2 DEF IInv, TypeInv, CallInHand
<1>4. InOrder' /\ UpToNow' /\ HeardShown'
  BY <1>1 DEF IInv, InOrder, ExecutedOnce, UpToNow, Sent, HeardShown, Succeeded
<1>5. AllGenuine'
  BY <1>1, <1>2 DEF IInv, AllGenuine, Genuine
<1>6. OneUnderWay'
  <2>1. CASE conn = "whole" /\ ~ skewed
    <3>1. pc = "read" /\ work[1].call = call /\ down = <<>> /\ up = <<>>
      BY <2>1, <1>1 DEF IInv, OneUnderWay
    <3>2. down' = work
      BY <3>1, <2>1, <1>1, ConcatEmptySeq
    <3> QED
      BY <3>1, <3>2, <1>1 DEF OneUnderWay
  <2>2. CASE ~ (conn = "whole" /\ ~ skewed)
    BY <2>2, <1>1 DEF IInv, OneUnderWay
  <2> QED
    BY <2>1, <2>2
<1> QED
  BY <1>3, <1>4, <1>5, <1>6 DEF IInv

LEMMA ThreadEndsKeeps == IInv /\ ThreadEnds => IInv'
<1> SUFFICES ASSUME IInv, ThreadEnds
             PROVE  IInv'
  OBVIOUS
<1>1. work' = <<>> /\ UNCHANGED <<pc, call, cmd, said, heard, skewed, up, down, conn, executed>>
  BY DEF ThreadEnds, clientVars, netVars
<1>2. TypeInv' /\ CallInHand' /\ OneUnderWay'
  BY <1>1 DEF IInv, TypeInv, CallInHand, OneUnderWay
<1>3. InOrder' /\ UpToNow' /\ AllGenuine' /\ HeardShown'
  BY <1>1 DEF IInv, InOrder, ExecutedOnce, UpToNow, Sent, AllGenuine, Genuine, HeardShown, Succeeded
<1> QED
  BY <1>2, <1>3 DEF IInv

(* What is left in a broken connection is what was in it first.              *)
LEMMA BreakKeeps == IInv /\ Break => IInv'
<1> SUFFICES ASSUME IInv, Break
             PROVE  IInv'
  OBVIOUS
<1>1. /\ conn' = "broken"
      /\ UNCHANGED <<pc, call, cmd, said, heard, skewed, work, executed>>
  BY DEF Break, clientVars, serverVars
<1>2. /\ up' \in Seq(Request) /\ DOMAIN up' \subseteq DOMAIN up
      /\ \A i \in DOMAIN up' : up'[i] = up[i]
  <2>1. PICK k \in 0 .. Len(up) : up' = SubSeq(up, 1, k)
    BY DEF Break
  <2> QED
    BY <2>1, FirstOf DEF IInv, TypeInv
<1>3. PICK k \in 0 .. Len(down) : down' = SubSeq(down, 1, k)
  BY DEF Break
<1>4. /\ down' \in Seq(Answer) /\ DOMAIN down' \subseteq DOMAIN down /\ Len(down') = k
      /\ \A i \in DOMAIN down' : down'[i] = down[i]
  BY <1>3, FirstOf DEF IInv, TypeInv
<1>5. TypeInv' /\ CallInHand'
  BY <1>1, <1>2, <1>4 DEF IInv, TypeInv, CallInHand
<1>6. InOrder'
  BY <1>1, <1>2 DEF IInv, InOrder, ExecutedOnce
<1>7. UpToNow' /\ HeardShown'
  BY <1>1, <1>2 DEF IInv, UpToNow, Sent, HeardShown, Succeeded
<1>8. AllGenuine'
  BY <1>1, <1>2, <1>4 DEF IInv, AllGenuine, Genuine
<1>9. OneUnderWay'
  <2> SUFFICES ASSUME ~ skewed, down' # <<>>
               PROVE  pc = "read" /\ Len(down') = 1 /\ down'[1].call = call
    BY <1>1 DEF OneUnderWay
  <2>1. k # 0 /\ down # <<>> /\ down \in Seq(Answer)
    BY <1>3, <1>4 DEF IInv, TypeInv
  <2>2. pc = "read" /\ Len(down) = 1 /\ down[1].call = call
    BY <2>1 DEF IInv, OneUnderWay
  <2>3. k = 1
    BY <2>1, <2>2, <1>3
  <2> QED
    BY <2>1, <2>2, <2>3, <1>4
<1> QED
  BY <1>5, <1>6, <1>7, <1>8, <1>9 DEF IInv

-----------------------------------------------------------------------------
\* The client.

(* Nothing that is under way belongs to the call that begins.                *)
LEMMA TypeKeeps == ASSUME IInv, NEW op \in Ops, Type(op) PROVE IInv'
<1>1. /\ pc = "prompt" /\ call < MaxCalls /\ call' = call + 1 /\ cmd' = op /\ pc' = "write"
      /\ UNCHANGED <<said, heard, skewed, up, down, conn, work, executed>>
  BY DEF Type, netVars, serverVars
<1>2. call \in Nat /\ call' \in Calls
  BY <1>1, CallAssumption, CallsAreNumbers DEF IInv, Calls
<1>3. TypeInv' /\ CallInHand'
  BY <1>1, <1>2, CallAssumption DEF IInv, TypeInv, CallInHand, Calls
<1>4. /\ \A i \in DOMAIN executed : executed[i].call \in Nat /\ executed[i].call <= call
      /\ \A i \in DOMAIN up : up[i].call \in Nat /\ up[i].call <= call
  BY CallsAreNumbers DEF IInv, UpToNow, Sent
<1>5. InOrder'
  BY <1>1 DEF IInv, InOrder, ExecutedOnce
<1>6. UpToNow'
  BY <1>1, <1>2, <1>4 DEF UpToNow, Sent
<1>7. AllGenuine'
  <2>1. ASSUME NEW a, Genuine(a)
        PROVE  Genuine(a)'
    BY <2>1, <1>1, <1>2, <1>4 DEF Genuine
  <2>2. \A i \in DOMAIN up : up[i].call # call'
    BY <1>1, <1>2, <1>4
  <2> QED
    BY <2>1, <2>2, <1>1 DEF IInv, AllGenuine
<1>8. OneUnderWay'
  BY <1>1 DEF IInv, OneUnderWay
<1>9. HeardShown'
  <2>1. \A n \in heard : n \in Nat /\ n <= call
    BY CallAssumption DEF IInv, TypeInv, HeardShown, Calls
  <2> QED
    BY <2>1, <1>1, <1>2 DEF IInv, HeardShown, Succeeded
<1> QED
  BY <1>3, <1>5, <1>6, <1>7, <1>8, <1>9 DEF IInv

LEMMA StopKeeps == IInv /\ (TypeIncomplete \/ TypeEnd \/ TypeQuit) => IInv'
<1> SUFFICES ASSUME IInv, TypeIncomplete \/ TypeEnd \/ TypeQuit
             PROVE  IInv'
  OBVIOUS
<1>1. /\ pc = "prompt" /\ pc' \in {"crashed", "spin", "exited"}
      /\ UNCHANGED <<call, cmd, said, heard, skewed, up, down, conn, work, executed>>
  BY DEF TypeIncomplete, TypeEnd, TypeQuit, StopAt, netVars, serverVars
<1>2. TypeInv' /\ CallInHand' /\ OneUnderWay'
  BY <1>1 DEF IInv, TypeInv, CallInHand, OneUnderWay
<1>3. InOrder' /\ UpToNow' /\ AllGenuine' /\ HeardShown'
  BY <1>1 DEF IInv, InOrder, ExecutedOnce, UpToNow, Sent, AllGenuine, Genuine, HeardShown, Succeeded
<1> QED
  BY <1>2, <1>3 DEF IInv

(* A request is sent after those of all earlier calls.                       *)
LEMMA WriteKeeps == IInv /\ Write => IInv'
<1> SUFFICES ASSUME IInv, Write
             PROVE  IInv'
  OBVIOUS
<1> DEFINE r == [call |-> call, op |-> cmd]
<1>1. /\ pc = "write" /\ conn = "whole" /\ pc' = "read" /\ up' = Append(up, r)
      /\ UNCHANGED <<call, cmd, said, heard, skewed, down, conn, work, executed>>
      /\ call \in Calls /\ cmd \in Ops /\ up \in Seq(Request)
  BY DEF Write, serverVars, IInv, CallInHand, TypeInv
<1>2. r \in Request /\ r.call = call /\ r.op = cmd
  BY <1>1 DEF Request
<1> HIDE DEF r
<1>3. /\ up' \in Seq(Request)
      /\ DOMAIN up' = DOMAIN up \union {Len(up) + 1}
      /\ \A i \in DOMAIN up : up'[i] = up[i]
      /\ up'[Len(up) + 1] = r
      /\ DOMAIN up = 1 .. Len(up) /\ Len(up) \in Nat
  BY <1>1, <1>2
<1>4. TypeInv' /\ CallInHand'
  BY <1>1, <1>3 DEF IInv, TypeInv, CallInHand
<1>5. /\ \A i \in DOMAIN executed : executed[i].call < call
      /\ \A i \in DOMAIN up : up[i].call < call
  BY <1>1 DEF IInv, UpToNow, Sent
<1>6. InOrder'
  <2>1. ExecutedOnce'
    BY <1>1 DEF IInv, InOrder, ExecutedOnce
  <2>2. \A i \in DOMAIN executed', j \in DOMAIN up' : executed'[i].call < up'[j].call
    BY <1>1, <1>2, <1>3, <1>5 DEF IInv, InOrder
  <2>3. \A i, j \in DOMAIN up' : i < j => up'[i].call < up'[j].call
    BY <1>2, <1>3, <1>5 DEF IInv, InOrder
  <2> QED
    BY <2>1, <2>2, <2>3 DEF InOrder
<1>7. UpToNow'
  BY <1>1, <1>2, <1>3, CallsAreNumbers DEF IInv, UpToNow, Sent
<1>8. AllGenuine'
  BY <1>1, <1>2, <1>3 DEF IInv, AllGenuine, Genuine
<1>9. OneUnderWay'
  <2> SUFFICES ASSUME ~ skewed
               PROVE  OneUnderWay'
    BY <1>1 DEF OneUnderWay
  <2>1. up = <<>> /\ work = <<>> /\ down = <<>>
    BY <1>1 DEF IInv, OneUnderWay
  <2>2. Len(up') = 1 /\ up'[1] = r
    BY <2>1, <1>1
  <2> QED
    BY <2>1, <2>2, <1>1, <1>2 DEF OneUnderWay
<1>10. HeardShown'
  BY <1>1 DEF IInv, HeardShown, Succeeded
<1> QED
  BY <1>4, <1>6, <1>7, <1>8, <1>9, <1>10 DEF IInv

\* What a call that comes back leaves alone.
LEMMA ShowKeepsType ==
  ASSUME IInv, pc \in {"write", "read"}, NEW o \in {"done", "failed", "crashed"}, Show(o)
  PROVE  /\ pc' \in {"prompt", "crashed"}
         /\ said' \in [Calls -> {"nothing", "done", "failed"}]
         /\ \A n \in heard : said'[n] = said[n]
         /\ o # "crashed" => pc' = "prompt" /\ said'[call] = o
  BY DEF Show, IInv, TypeInv, CallInHand, HeardShown

LEMMA OutcomeType ==
  ASSUME cmd \in Ops, NEW resp \in {"ok", "error", "null", "empty"}
  PROVE  /\ Outcome(cmd, resp) \in {"done", "failed", "crashed"}
         /\ resp = "ok" => Outcome(cmd, resp) = "done"
         /\ resp = "error" /\ cmd \in Refusable => Outcome(cmd, resp) = "failed"
<1>1. cmd \in {"put", "del", "get", "size", "keys", "print", "stats"}
  BY CallAssumption
<1> QED
  BY <1>1 DEF Outcome, Refusable

(* A call that ends or goes on to read, and takes nothing out of the        *)
(* connection: either it leaves nothing behind, or it is the one that skews *)
(* the connection.                                                          *)
LEMMA NoAnswerKeeps == IInv /\ (WriteFails \/ ReadNothing \/ ReadNoMemory) => IInv'
<1> SUFFICES ASSUME IInv, WriteFails \/ ReadNothing \/ ReadNoMemory
             PROVE  IInv'
  OBVIOUS
<1>1. /\ pc \in {"write", "read"} /\ call \in Calls /\ cmd \in Ops
      /\ UNCHANGED <<call, cmd, heard, up, down, conn, work, executed>>
  BY DEF WriteFails, ReadNothing, ReadNoMemory, netVars, serverVars, IInv, CallInHand
<1>2. /\ pc' \in {"prompt", "read", "crashed", "spin"}
      /\ said' \in [Calls -> {"nothing", "done", "failed"}]
      /\ \A n \in heard : said'[n] = said[n]
  <2>1. CASE \E resp \in {"empty", "null"} : Finish(resp)
    BY <2>1, <1>1, ShowKeepsType, OutcomeType DEF Finish
  <2>2. CASE pc' \in {"read", "crashed", "spin"} /\ UNCHANGED said
    BY <2>2 DEF IInv, TypeInv
  <2> QED
    BY <2>1, <2>2 DEF WriteFails, ReadNothing, ReadNoMemory
<1>3. TypeInv' /\ CallInHand'
  BY <1>1, <1>2 DEF IInv, TypeInv, CallInHand
<1>4. InOrder' /\ UpToNow' /\ AllGenuine'
  BY <1>1, <1>2 DEF IInv, InOrder, ExecutedOnce, UpToNow, Sent, AllGenuine, Genuine
<1>5. HeardShown'
  BY <1>1, <1>2 DEF IInv, HeardShown, Succeeded
<1>6. OneUnderWay'
  <2>1. CASE ReadNoMemory
    BY <2>1 DEF ReadNoMemory, OneUnderWay
  <2>2. CASE WriteFails \/ ReadNothing
    <3>1. /\ skewed' = skewed
          /\ \/ pc = "write"
             \/ down = <<>> /\ conn = "broken"
      BY <2>2 DEF WriteFails, ReadNothing
    <3> QED
      BY <3>1, <1>1 DEF IInv, OneUnderWay
  <2> QED
    BY <2>1, <2>2
<1> QED
  BY <1>3, <1>4, <1>5, <1>6 DEF IInv

(* A call that reads its answer shows what was executed: only some commands  *)
(* are refused, and those look at the refusal.                               *)
LEMMA ReadAnswerKeeps == IInv /\ ReadAnswer => IInv'
<1> SUFFICES ASSUME IInv, ReadAnswer
             PROVE  IInv'
  OBVIOUS
<1> DEFINE a == down[1]
<1>1. /\ pc = "read" /\ down # <<>> /\ down \in Seq(Answer) /\ down' = Tail(down)
      /\ UNCHANGED <<call, cmd, skewed, up, conn, work, executed>>
      /\ call \in Calls /\ cmd \in Ops
  BY DEF ReadAnswer, serverVars, IInv, TypeInv, CallInHand
<1>2. /\ Head(down) = a /\ a \in Answer /\ 1 \in DOMAIN down
      /\ down' \in Seq(Answer)
      /\ \A i \in DOMAIN down' : i + 1 \in DOMAIN down /\ down'[i] = down[i + 1]
  BY <1>1, RestOf
<1>3. Genuine(a)
  BY <1>2 DEF IInv, AllGenuine
<1>4. \/ /\ a.call = call /\ Finish(IF a.ok THEN "ok" ELSE "error")
         /\ heard' = heard \union {call}
      \/ /\ \E o \in {"done", "failed", "crashed"} : Show(o)
         /\ heard' = heard
  <2>1. Outcome(cmd, "null") \in {"done", "failed", "crashed"}
    BY <1>1, OutcomeType
  <2> QED
    BY <2>1, <1>2 DEF ReadAnswer, Finish
<1> HIDE DEF a
<1>5. PICK o \in {"done", "failed", "crashed"} :
        /\ Show(o)
        /\ \/ heard' = heard
           \/ /\ heard' = heard \union {call} /\ a.call = call
              /\ o = IF a.ok THEN "done" ELSE "failed"
  <2>1. a.call = call /\ ~ a.ok => cmd \in Refusable
    BY <1>3 DEF Genuine
  <2> QED
    BY <2>1, <1>1, <1>4, OutcomeType DEF Finish
<1>6. /\ pc' \in {"prompt", "crashed"}
      /\ said' \in [Calls -> {"nothing", "done", "failed"}]
      /\ \A n \in heard : said'[n] = said[n]
      /\ o # "crashed" => pc' = "prompt" /\ said'[call] = o
  BY <1>1, <1>5, ShowKeepsType
<1>7. TypeInv' /\ CallInHand'
  BY <1>1, <1>2, <1>5, <1>6 DEF IInv, TypeInv, CallInHand
<1>8. InOrder' /\ UpToNow'
  BY <1>1, <1>6 DEF IInv, InOrder, ExecutedOnce, UpToNow, Sent
<1>9. AllGenuine'
  BY <1>1, <1>2 DEF IInv, AllGenuine, Genuine
<1>10. OneUnderWay'
  <2> SUFFICES ASSUME ~ skewed
               PROVE  OneUnderWay'
    BY <1>1 DEF OneUnderWay
  <2>1. Len(down) = 1 /\ (conn = "whole" => up = <<>> /\ work = <<>>)
    BY <1>1 DEF IInv, OneUnderWay
  <2>2. down' = <<>>
    BY <2>1, <1>1
  <2> QED
    BY <2>1, <2>2, <1>1 DEF OneUnderWay
<1>11. HeardShown'
  <2> SUFFICES ASSUME NEW n \in heard'
               PROVE  /\ n <= call
                      /\ \E i \in DOMAIN executed : executed[i].call = n
                      /\ said'[n] = "done" <=> Succeeded(n)
    BY <1>1, <1>6 DEF HeardShown, Succeeded
  <2>1. CASE n \in heard
    BY <2>1, <1>6 DEF IInv, HeardShown
  <2>2. CASE n \notin heard
    <3>1. /\ n = call /\ a.call = call /\ call <= call
          /\ said'[n] = "done" <=> a.ok
      BY <2>2, <1>5, <1>6, CallsAreNumbers DEF IInv
    <3>2. PICK i \in DOMAIN executed : executed[i] = a
      BY <1>3 DEF Genuine
    <3>3. \A j \in DOMAIN executed : executed[j].call = call => j = i
      <4> SUFFICES ASSUME NEW j \in DOMAIN executed, executed[j].call = call, j # i
                   PROVE  FALSE
        OBVIOUS
      <4>1. executed[i].call = call
        BY <3>1, <3>2
      <4>2. i \in Nat /\ j \in Nat /\ call \in Nat
        BY <3>2, CallsAreNumbers DEF IInv, TypeInv
      <4>3. CASE i < j
        BY <4>1, <4>2, <4>3 DEF IInv, InOrder, ExecutedOnce
      <4>4. CASE j < i
        BY <4>1, <4>2, <4>4 DEF IInv, InOrder, ExecutedOnce
      <4> QED
        BY <4>2, <4>3, <4>4
    <3>4. a = [call |-> call, ok |-> a.ok]
      BY <3>1, <1>2 DEF Answer
    <3>5. Succeeded(n) <=> a.ok
      BY <3>1, <3>2, <3>3, <3>4 DEF Succeeded
    <3> QED
      BY <3>1, <3>2, <3>5
  <2> QED
    BY <2>1, <2>2
<1> QED
  BY <1>7, <1>8, <1>9, <1>10, <1>11 DEF IInv

-----------------------------------------------------------------------------
LEMMA IInvNext == IInv /\ [Next]_vars => IInv'
<1> SUFFICES ASSUME IInv, [Next]_vars
             PROVE  IInv'
  OBVIOUS
<1>1. CASE Server
  BY <1>1, ExecuteKeeps, AnswersKeeps, ThreadEndsKeeps DEF Server
<1>2. CASE Break
  BY <1>2, BreakKeeps
<1>3. CASE Call
  BY <1>3, WriteKeeps, NoAnswerKeeps, ReadAnswerKeeps DEF Call
<1>4. CASE \E op \in Ops : Type(op)
  BY <1>4, TypeKeeps
<1>5. CASE TypeIncomplete \/ TypeEnd \/ TypeQuit
  BY <1>5, StopKeeps
<1>6. CASE UNCHANGED vars
  BY <1>6 DEF IInv, TypeInv, CallInHand, InOrder, ExecutedOnce, UpToNow, Sent, AllGenuine, Genuine,
              OneUnderWay, HeardShown, Succeeded, vars, clientVars, netVars, serverVars
<1> QED
  BY <1>1, <1>2, <1>3, <1>4, <1>5, <1>6 DEF Next

(* client_stub.c: what is on the way, in the server's hands and taken by the *)
(* client belongs to the call under way, or to one that has ended.           *)
THEOREM InductiveInvariant == Spec => []IInv
  BY IInvInit, IInvNext, PTL DEF Spec

(* network_client.c:72-78: an answer is taken by the call that asked for it, *)
(* until a call failed in read_all for want of memory.                       *)
THEOREM AnswersGoToTheirCalls == Spec => []AnswerIsMine
<1>1. IInv => AnswerIsMine
  <2> SUFFICES ASSUME IInv, ~ skewed, down # <<>>
               PROVE  Head(down).call = call
    BY DEF AnswerIsMine
  <2>1. down \in Seq(Answer) /\ down[1].call = call
    BY DEF IInv, TypeInv, OneUnderWay
  <2> QED
    BY <2>1
<1> QED
  BY <1>1, InductiveInvariant, PTL

(* No request is executed twice, or after a later one.                       *)
THEOREM NothingExecutedTwice == Spec => []ExecutedOnce
  BY InductiveInvariant, PTL DEF IInv, InOrder

(* client_stub.c:57-245: a call that read the answer to its request reports  *)
(* what the server has executed, whatever happened to the connection.        *)
THEOREM AnswersAreReported == Spec => []AnswersAreShown
<1>1. IInv => AnswersAreShown
  BY DEF IInv, HeardShown, AnswersAreShown
<1> QED
  BY <1>1, InductiveInvariant, PTL

-----------------------------------------------------------------------------
\* The program.

(* Every step of the program is a step of the client call, or none.         *)
LEMMA StepsAreCalls == [ProgramNext]_programVars => [Next]_vars
<1> SUFFICES ASSUME [ProgramNext]_programVars
             PROVE  [Next]_vars
  OBVIOUS
<1>1. CASE (\E l \in Lines : TypeLine(l)) \/ EndInput \/ ReadLine \/ DispatchUnknown
  BY <1>1 DEF TypeLine, EndInput, ReadLine, DispatchUnknown, Chosen
<1>2. CASE ReadEnd \/ DispatchQuit
  BY <1>2 DEF ReadEnd, DispatchQuit, Chosen, Next
<1>3. CASE \E op \in Ops : Dispatch(op) \/ DispatchIncomplete(op)
  BY <1>3 DEF Dispatch, DispatchIncomplete, Chosen, Next
<1>4. CASE (Server \/ Break \/ Call) /\ UNCHANGED <<inputVars, ops>>
  BY <1>4 DEF Next
<1>5. CASE UNCHANGED programVars
  BY <1>5 DEF programVars
<1> QED
  BY <1>1, <1>2, <1>3, <1>4, <1>5 DEF ProgramNext

(* The invariant of the calls is one of the program.                        *)
THEOREM ProgramKeepsCalls == ProgramSpec => []IInv
<1>1. ProgramInit => IInv
  BY IInvInit DEF ProgramInit
<1>2. IInv /\ [ProgramNext]_programVars => IInv'
  BY StepsAreCalls, IInvNext
<1> QED
  BY <1>1, <1>2, PTL DEF ProgramSpec

(* table_client.c: an answer is taken by the call that asked for it, until  *)
(* a call failed in read_all for want of memory; no command is executed     *)
(* twice; and a command that read its answer is reported as it was          *)
(* executed.                                                                *)
THEOREM ProgramCallsAreRight == ProgramSpec => [](AnswerIsMine /\ ExecutedOnce /\ AnswersAreShown)
<1>1. IInv => AnswerIsMine
  <2> SUFFICES ASSUME IInv, ~ skewed, down # <<>>
               PROVE  Head(down).call = call
    BY DEF AnswerIsMine
  <2>1. down \in Seq(Answer) /\ down[1].call = call
    BY DEF IInv, TypeInv, OneUnderWay
  <2> QED
    BY <2>1
<1>2. IInv => ExecutedOnce /\ AnswersAreShown
  BY DEF IInv, InOrder, HeardShown, AnswersAreShown
<1> QED
  BY <1>1, <1>2, ProgramKeepsCalls, PTL

-----------------------------------------------------------------------------
\* The loop over com.

LEMMA Induct ==
  ASSUME NEW A, 0 \in A, \A n \in Nat : n \in A => n + 1 \in A
  PROVE  Nat \subseteq A
<1> SUFFICES ASSUME Nat \ A # {}
             PROVE  FALSE
  OBVIOUS
<1> DEFINE R == OpToRel(<, Nat)
<1>1. IsWellFoundedOn(R, Nat)
  BY NatLessThanWellFounded
<1>2. \A x, y \in Nat : y < x => <<y, x>> \in R
  BY DEF OpToRel
<1> HIDE DEF R
<1>3. PICK x \in Nat \ A : \A y \in Nat \ A : ~ (<<y, x>> \in R)
  BY <1>1, WFMin
<1>4. x # 0 /\ x - 1 \in Nat /\ x - 1 < x /\ x - 1 + 1 = x
  BY <1>3
<1>5. x - 1 \in A
  BY <1>2, <1>3, <1>4
<1> QED
  BY <1>3, <1>4, <1>5

\* Where the loop stands: the operands that have ended, and where the next begins.
Start == [ops |-> <<>>, last |-> 1]
Step(s, st, i) ==
  IF Len(st.ops) < 2 /\ s[i] = Space
  THEN [ops |-> Append(st.ops, SubSeq(s, st.last, i - 1)), last |-> i + 1]
  ELSE st

\* h[t]: where it stands after the characters t.
Scans(h, s, D) ==
  \A t \in SUBSET D : h[t] = IF t = {} THEN Start ELSE Step(s, h[t \ {Max(t)}], Max(t))

LEMMA MaxOfUpTo ==
  ASSUME NEW m \in Nat, NEW t \in SUBSET (1 .. m + 1), m + 1 \in t
  PROVE  Max(t) = m + 1
<1>1. \A y \in t : m + 1 >= y
  OBVIOUS
<1>2. \A x \in t : (\A y \in t : x >= y) => x = m + 1
  BY <1>1
<1> QED
  BY <1>1, <1>2 DEF Max

LEMMA MaxExists ==
  ASSUME NEW n \in Nat, NEW t \in SUBSET (1 .. n), t # {}
  PROVE  Max(t) \in t
<1> DEFINE A == {m \in Nat : \A u \in SUBSET (1 .. m) : u # {} => \E x \in u : \A y \in u : x >= y}
<1>1. 0 \in A
  <2>1. \A u \in SUBSET (1 .. 0) : u = {}
    OBVIOUS
  <2> QED
    BY <2>1
<1>2. ASSUME NEW m \in Nat, m \in A
      PROVE  m + 1 \in A
  <2> SUFFICES ASSUME NEW u \in SUBSET (1 .. m + 1), u # {}
               PROVE  \E x \in u : \A y \in u : x >= y
    OBVIOUS
  <2>1. CASE m + 1 \in u
    BY <2>1
  <2>2. CASE m + 1 \notin u
    <3>1. u \in SUBSET (1 .. m)
      BY <2>2
    <3> QED
      BY <3>1, <1>2
  <2> QED
    BY <2>1, <2>2
<1> HIDE DEF A
<1>3. Nat \subseteq A
  BY <1>1, <1>2, Induct
<1>4. \E x \in t : \A y \in t : x >= y
  BY <1>3 DEF A
<1> QED
  BY <1>4 DEF Max

LEMMA ScanExists ==
  ASSUME NEW s, NEW n \in Nat
  PROVE  \E h : h = [t \in SUBSET (1 .. n) |-> h[t]] /\ Scans(h, s, 1 .. n)
<1> DEFINE A == {m \in Nat : \E h : Scans(h, s, 1 .. m)}
<1>1. 0 \in A
  <2> DEFINE h == [t \in {{}} |-> Start]
  <2>1. \A t \in SUBSET (1 .. 0) : t = {}
    OBVIOUS
  <2>2. h[{}] = Start
    OBVIOUS
  <2> HIDE DEF h
  <2>3. Scans(h, s, 1 .. 0)
    BY <2>1, <2>2 DEF Scans
  <2> QED
    BY <2>3
<1>2. ASSUME NEW m \in Nat, m \in A
      PROVE  m + 1 \in A
  <2>1. PICK g : Scans(g, s, 1 .. m)
    BY <1>2
  <2> DEFINE h == [t \in SUBSET (1 .. m + 1) |->
                     IF m + 1 \in t THEN Step(s, g[t \ {m + 1}], m + 1) ELSE g[t]]
  <2>2. ASSUME NEW t \in SUBSET (1 .. m + 1)
        PROVE  h[t] = IF t = {} THEN Start ELSE Step(s, h[t \ {Max(t)}], Max(t))
    <3>1. CASE m + 1 \in t
      <4>1. Max(t) = m + 1
        BY <3>1, MaxOfUpTo
      <4>2. t \ {m + 1} \in SUBSET (1 .. m + 1) /\ m + 1 \notin t \ {m + 1} /\ t # {}
        BY <3>1
      <4>3. h[t \ {m + 1}] = g[t \ {m + 1}]
        BY <4>2
      <4>4. h[t] = Step(s, g[t \ {m + 1}], m + 1)
        BY <3>1
      <4> HIDE DEF h
      <4> QED
        BY <4>1, <4>2, <4>3, <4>4
    <3>2. CASE m + 1 \notin t
      <4>1. t \in SUBSET (1 .. m)
        BY <3>2
      <4>2. h[t] = g[t]
        BY <3>2
      <4>3. h[t \ {Max(t)}] = g[t \ {Max(t)}]
        BY <3>2
      <4>4. g[t] = IF t = {} THEN Start ELSE Step(s, g[t \ {Max(t)}], Max(t))
        BY <2>1, <4>1 DEF Scans
      <4> HIDE DEF h
      <4> QED
        BY <4>2, <4>3, <4>4
    <3> QED
      BY <3>1, <3>2
  <2>3. Scans(h, s, 1 .. m + 1)
    BY <2>2 DEF Scans
  <2> QED
    BY <2>3
<1> HIDE DEF A
<1>3. Nat \subseteq A
  BY <1>1, <1>2, Induct
<1>4. PICK g : Scans(g, s, 1 .. n)
  BY <1>3 DEF A
<1> DEFINE h == [t \in SUBSET (1 .. n) |-> g[t]]
<1>5. \A t \in SUBSET (1 .. n) : h[t] = g[t] /\ h[t \ {Max(t)}] = g[t \ {Max(t)}]
  OBVIOUS
<1>6. h = [t \in SUBSET (1 .. n) |-> h[t]]
  OBVIOUS
<1> HIDE DEF h
<1>7. Scans(h, s, 1 .. n)
  BY <1>4, <1>5 DEF Scans
<1> QED
  BY <1>6, <1>7

LEMMA SplitScans ==
  ASSUME NEW S, NEW s \in Seq(S)
  PROVE  \E h : /\ Scans(h, s, 1 .. Len(s))
                /\ Split(s) = Append(h[1 .. Len(s)].ops, SubSeq(s, h[1 .. Len(s)].last, Len(s)))
<1> DEFINE D == DOMAIN [i \in DOMAIN s |-> i]
           F(h) == [t \in SUBSET D |->
                     IF t = {} THEN [ops |-> <<>>, last |-> 1]
                     ELSE IF Len(h[t \ {Max(t)}].ops) < 2 /\ s[[i \in DOMAIN s |-> i][Max(t)]] = Space
                          THEN [ops |-> Append(h[t \ {Max(t)}].ops,
                                               SubSeq(s, h[t \ {Max(t)}].last, [i \in DOMAIN s |-> i][Max(t)] - 1)),
                                last |-> [i \in DOMAIN s |-> i][Max(t)] + 1]
                          ELSE h[t \ {Max(t)}]]
           h == CHOOSE h : h = F(h)
<1>1. Split(s) = Append(h[D].ops, SubSeq(s, h[D].last, Len(s)))
  BY DEF Split, FoldLeftDomain, FoldLeft, MapThenFoldSet
<1>2. D = 1 .. Len(s) /\ Len(s) \in Nat /\ \A x \in D : [i \in DOMAIN s |-> i][x] = x
  OBVIOUS
<1>3. ASSUME NEW g, g = [t \in SUBSET D |-> g[t]], Scans(g, s, D)
      PROVE  g = F(g)
  <2>1. ASSUME NEW t \in SUBSET D, t # {}
        PROVE  Max(t) \in t
    <3>1. t \subseteq Nat /\ \A x \in t : x <= Len(s)
      BY <1>2
    <3> QED
      BY <1>2, <2>1, <3>1, MaxExists
  <2>2. ASSUME NEW t \in SUBSET D
        PROVE  g[t] = F(g)[t]
    <3>1. CASE t = {}
      BY <3>1, <1>3 DEF Scans, Start
    <3>2. CASE t # {}
      <4>1. [i \in DOMAIN s |-> i][Max(t)] = Max(t)
        BY <1>2, <2>1, <3>2
      <4> QED
        BY <3>2, <4>1, <1>3 DEF Scans, Step
    <3> QED
      BY <3>1, <3>2
  <2> QED
    BY <1>3, <2>2
<1>4. ASSUME NEW g, g = F(g)
      PROVE  Scans(g, s, D)
  <2>1. ASSUME NEW t \in SUBSET D, t # {}
        PROVE  [i \in DOMAIN s |-> i][Max(t)] = Max(t)
    BY <1>2, <2>1, MaxExists
  <2>2. ASSUME NEW t \in SUBSET D
        PROVE  g[t] = IF t = {} THEN Start ELSE Step(s, g[t \ {Max(t)}], Max(t))
    <3>1. g[t] = F(g)[t]
      BY <1>4
    <3>2. CASE t = {}
      BY <3>1, <3>2 DEF Start
    <3>3. CASE t # {}
      BY <3>1, <3>3, <2>1 DEF Step
    <3> QED
      BY <3>2, <3>3
  <2> QED
    BY <2>2 DEF Scans
<1> HIDE DEF F
<1>5. \E g : g = F(g)
  <2>1. \E g : g = [t \in SUBSET (1 .. Len(s)) |-> g[t]] /\ Scans(g, s, 1 .. Len(s))
    BY <1>2, ScanExists
  <2> HIDE DEF D
  <2>2. PICK g : g = [t \in SUBSET D |-> g[t]] /\ Scans(g, s, D)
    BY <1>2, <2>1
  <2> QED
    BY <1>3, <2>2
<1>6. h = F(h)
  BY <1>5
<1> HIDE DEF h, D
<1>7. Scans(h, s, D)
  BY <1>4, <1>6
<1> QED
  BY <1>1, <1>2, <1>7

(* The loop takes one character after the other.                            *)
LEMMA ScanStep ==
  ASSUME NEW s, NEW n \in Nat, NEW h, Scans(h, s, 1 .. n)
  PROVE  /\ h[1 .. 0] = Start
         /\ \A m \in Nat : m < n => h[1 .. m + 1] = Step(s, h[1 .. m], m + 1)
<1>1. h[1 .. 0] = Start
  <2>1. h[{}] = Start
    BY DEF Scans
  <2>2. 1 .. 0 = {}
    OBVIOUS
  <2> QED
    BY ONLY <2>1, <2>2, Zenon
<1>2. ASSUME NEW m \in Nat, m < n
      PROVE  h[1 .. m + 1] = Step(s, h[1 .. m], m + 1)
  <2> DEFINE t == 1 .. m + 1
  <2>1. t \in SUBSET (1 .. n) /\ t \in SUBSET (1 .. m + 1) /\ m + 1 \in t
    BY <1>2
  <2>2. Max(t) = m + 1
    BY <2>1, MaxOfUpTo
  <2>3. t \ {m + 1} = 1 .. m /\ t # {}
    <3>1. ASSUME NEW x
          PROVE  x \in (1 .. m + 1) \ {m + 1} <=> x \in 1 .. m
      OBVIOUS
    <3>2. (1 .. m + 1) \ {m + 1} = 1 .. m
      BY ONLY <3>1, Zenon
    <3> QED
      BY <2>1, <3>2
  <2> HIDE DEF t
  <2>4. h[t] = Step(s, h[t \ {Max(t)}], Max(t))
    BY <2>1, <2>3 DEF Scans
  <2>5. h[t] = Step(s, h[1 .. m], m + 1)
    BY <2>2, <2>3, <2>4
  <2> QED
    BY <2>5 DEF t
<1> QED
  BY <1>1, <1>2

\* Where the loop stands after m characters of s.
NoSpace(s, first, last) == \A i \in first .. last : s[i] # Space

Stands0(s, st, m) == st.ops = <<>> /\ st.last = 1 /\ NoSpace(s, 1, m)

Stands1(s, st, m, p) ==
  /\ s[p] = Space /\ NoSpace(s, 1, p - 1) /\ NoSpace(s, p + 1, m)
  /\ st.ops = <<SubSeq(s, 1, p - 1)>> /\ st.last = p + 1

Stands2(s, st, p, q) ==
  /\ s[p] = Space /\ NoSpace(s, 1, p - 1) /\ s[q] = Space /\ NoSpace(s, p + 1, q - 1)
  /\ st.ops = <<SubSeq(s, 1, p - 1), SubSeq(s, p + 1, q - 1)>> /\ st.last = q + 1

Stands(s, st, m) ==
  \/ Stands0(s, st, m)
  \/ \E p \in 1 .. m : Stands1(s, st, m, p)
  \/ \E q \in 1 .. m : \E p \in 1 .. q - 1 : Stands2(s, st, p, q)

LEMMA AppendOne ==
  ASSUME NEW x, NEW y
  PROVE  Len(<<x>>) = 1 /\ Append(<<x>>, y) = <<x, y>>
<1>1. <<x>> \in Seq({x, y}) /\ <<x, y>> \in Seq({x, y}) /\ Len(<<x>>) = 1
  OBVIOUS
<1>2. Append(<<x>>, y) \in Seq({x, y}) /\ Len(Append(<<x>>, y)) = 2
  BY <1>1
<1>3. Append(<<x>>, y)[1] = x /\ Append(<<x>>, y)[2] = y
  BY <1>1
<1>4. <<x, y>>[1] = x /\ <<x, y>>[2] = y /\ Len(<<x, y>>) = 2
  OBVIOUS
<1>5. \A i \in 1 .. 2 : i = 1 \/ i = 2
  OBVIOUS
<1> QED
  BY <1>1, <1>2, <1>3, <1>4, <1>5, SeqEqual

LEMMA AppendTwo ==
  ASSUME NEW x, NEW y, NEW z
  PROVE  Append(<<x, y>>, z) = <<x, y, z>>
<1>1. <<x, y>> \in Seq({x, y, z}) /\ <<x, y, z>> \in Seq({x, y, z}) /\ Len(<<x, y>>) = 2
  OBVIOUS
<1>2. Append(<<x, y>>, z) \in Seq({x, y, z}) /\ Len(Append(<<x, y>>, z)) = 3
  BY <1>1
<1>3. /\ Append(<<x, y>>, z)[1] = x /\ Append(<<x, y>>, z)[2] = y
      /\ Append(<<x, y>>, z)[3] = z
  BY <1>1
<1>4. /\ <<x, y, z>>[1] = x /\ <<x, y, z>>[2] = y /\ <<x, y, z>>[3] = z
      /\ Len(<<x, y, z>>) = 3
  OBVIOUS
<1>5. \A i \in 1 .. 3 : i = 1 \/ i = 2 \/ i = 3
  OBVIOUS
<1> QED
  BY <1>1, <1>2, <1>3, <1>4, <1>5, SeqEqual

LEMMA StepStands ==
  ASSUME NEW s, NEW m \in Nat, NEW st, Stands(s, st, m)
  PROVE  Stands(s, Step(s, st, m + 1), m + 1)
<1> DEFINE e == m + 1
           st1 == Step(s, st, e)
<1>1. e \in Nat /\ e - 1 = m /\ e \in 1 .. e /\ \A i \in 1 .. m : i \in 1 .. e /\ i \in 1 .. e - 1
  OBVIOUS
<1>2. /\ s[e] # Space => st1 = st
      /\ Len(st.ops) = 2 => st1 = st
      /\ s[e] = Space /\ Len(st.ops) < 2 =>
           st1.ops = Append(st.ops, SubSeq(s, st.last, m)) /\ st1.last = e + 1
  <2> HIDE DEF e
  <2>1. SubSeq(s, st.last, e - 1) = SubSeq(s, st.last, m)
    BY <1>1
  <2>2. s[e] # Space \/ Len(st.ops) = 2 => st1 = st
    <3>1. Len(st.ops) = 2 => ~ (Len(st.ops) < 2)
      OBVIOUS
    <3>2. s[e] # Space \/ ~ (Len(st.ops) < 2) => st1 = st
      BY ONLY Zenon DEF Step
    <3> QED
      BY ONLY <3>1, <3>2, Zenon
  <2>3. s[e] = Space /\ Len(st.ops) < 2 =>
          st1 = [ops |-> Append(st.ops, SubSeq(s, st.last, e - 1)), last |-> e + 1]
    BY ONLY Zenon DEF Step
  <2>4. ASSUME s[e] = Space, Len(st.ops) < 2
        PROVE  st1.ops = Append(st.ops, SubSeq(s, st.last, m)) /\ st1.last = e + 1
    <3> DEFINE w == Append(st.ops, SubSeq(s, st.last, e - 1))
    <3>1. st1 = [ops |-> w, last |-> e + 1]
      BY <2>3, <2>4
    <3> HIDE DEF w, st1
    <3>2. st1.ops = w /\ st1.last = e + 1
      BY ONLY <3>1
    <3> QED
      BY ONLY <3>2, <2>1 DEF w
  <2> HIDE DEF st1
  <2> QED
    BY <2>2, <2>4
<1>3. \A a \in Nat : NoSpace(s, a, m) /\ s[e] # Space => NoSpace(s, a, e)
  BY DEF NoSpace
<1>4. NoSpace(s, e + 1, e)
  BY DEF NoSpace
<1> HIDE DEF e, st1
<1>5. CASE Stands0(s, st, m)
  <2>1. Len(st.ops) = 0 /\ st.last = 1 /\ NoSpace(s, 1, m) /\ st.ops = <<>>
    BY <1>5 DEF Stands0
  <2>2. Append(<<>>, SubSeq(s, 1, m)) = <<SubSeq(s, 1, m)>>
    OBVIOUS
  <2>3. CASE s[e] = Space
    <3>1. st1.ops = <<SubSeq(s, 1, e - 1)>> /\ st1.last = e + 1
      BY <2>1, <2>2, <2>3, <1>1, <1>2
    <3>2. Stands1(s, st1, e, e)
      BY <2>1, <2>3, <3>1, <1>1, <1>4 DEF Stands1
    <3> QED
      BY <3>2, <1>1 DEF Stands, st1, e
  <2>4. CASE s[e] # Space
    <3>1. Stands0(s, st1, e)
      BY <2>1, <2>4, <1>2, <1>3 DEF Stands0
    <3> QED
      BY <3>1 DEF Stands, st1, e
  <2> QED
    BY <2>3, <2>4
<1>6. ASSUME NEW p \in 1 .. m, Stands1(s, st, m, p)
      PROVE  Stands(s, st1, e)
  <2> DEFINE u == SubSeq(s, 1, p - 1)
             v == SubSeq(s, p + 1, m)
  <2>1. st.ops = <<u>> /\ st.last = p + 1
    BY <1>6 DEF Stands1
  <2>2. Len(<<u>>) = 1 /\ Append(<<u>>, v) = <<u, v>>
    <3> HIDE DEF u, v
    <3> QED
      BY AppendOne
  <2>3. p \in 1 .. e /\ p \in 1 .. e - 1 /\ p + 1 \in Nat
    BY <1>1
  <2> HIDE DEF u
  <2>4. CASE s[e] = Space
    <3>1. st1.ops = Append(st.ops, v) /\ st1.last = e + 1
      BY <2>1, <2>2, <2>4, <1>2
    <3>2. st1.ops = <<u, v>>
      BY <2>1, <2>2, <3>1
    <3>3. Stands2(s, st1, p, e)
      BY <1>6, <2>4, <3>1, <3>2, <1>1 DEF Stands1, Stands2, u
    <3> QED
      BY <2>3, <3>3, <1>1 DEF Stands
  <2>5. CASE s[e] # Space
    <3>1. Stands1(s, st1, e, p)
      BY <1>6, <2>3, <2>5, <1>2, <1>3 DEF Stands1
    <3> QED
      BY <2>3, <3>1 DEF Stands
  <2> QED
    BY <2>4, <2>5
<1>7. ASSUME NEW q \in 1 .. m, NEW p \in 1 .. q - 1, Stands2(s, st, p, q)
      PROVE  Stands(s, st1, e)
  <2>1. Len(st.ops) = 2
    BY <1>7 DEF Stands2
  <2>2. Stands2(s, st1, p, q) /\ q \in 1 .. e
    BY <1>1, <1>2, <1>7, <2>1
  <2> QED
    BY <2>2 DEF Stands
<1> QED
  BY <1>5, <1>6, <1>7 DEF Stands, st1, e

LEMMA ScanStands ==
  ASSUME NEW s, NEW n \in Nat, NEW h, Scans(h, s, 1 .. n)
  PROVE  Stands(s, h[1 .. n], n)
<1> DEFINE A == {m \in Nat : m <= n => Stands(s, h[1 .. m], m)}
<1>1. 0 \in A
  <2>1. h[1 .. 0] = Start
    BY ScanStep
  <2>2. NoSpace(s, 1, 0)
    BY DEF NoSpace
  <2>3. Start.ops = <<>> /\ Start.last = 1
    BY DEF Start
  <2>4. Stands0(s, h[1 .. 0], 0)
    BY <2>1, <2>2, <2>3 DEF Stands0
  <2> QED
    BY <2>4 DEF Stands
<1>2. ASSUME NEW m \in Nat, m \in A
      PROVE  m + 1 \in A
  <2> SUFFICES ASSUME m + 1 <= n
               PROVE  Stands(s, h[1 .. m + 1], m + 1)
    OBVIOUS
  <2>1. Stands(s, h[1 .. m], m)
    BY <1>2
  <2>2. h[1 .. m + 1] = Step(s, h[1 .. m], m + 1)
    BY ScanStep
  <2> QED
    BY <2>1, <2>2, StepStands
<1> HIDE DEF A
<1>3. Nat \subseteq A
  BY <1>1, <1>2, Induct
<1> QED
  BY <1>3 DEF A

(* FlattenSeq, for no more than three sequences.                            *)
LEMMA FlattenShort ==
  ASSUME NEW S, NEW n \in 1 .. 3, NEW s \in [1 .. n -> Seq(S)]
  PROVE  /\ n = 1 => FlattenSeq(s) = s[1]
         /\ n = 2 => FlattenSeq(s) = s[1] \o s[2]
         /\ n = 3 => FlattenSeq(s) = (s[1] \o s[2]) \o s[3]
<1> DEFINE F(h) == [i \in 1 .. n |-> IF i = 1 THEN s[i] ELSE h[i - 1] \o s[i]]
<1>1. \E h : h = F(h)
  <2> DEFINE x1 == s[1]
             x2 == x1 \o s[2]
             x3 == x2 \o s[3]
             f == [i \in 1 .. n |-> IF i = 1 THEN x1 ELSE IF i = 2 THEN x2 ELSE x3]
  <2> HIDE DEF x2, x3
  <2>1. ASSUME NEW i \in 1 .. n
        PROVE  f[i] = IF i = 1 THEN s[i] ELSE f[i - 1] \o s[i]
    <3>1. i = 1 \/ i = 2 \/ i = 3
      OBVIOUS
    <3>2. CASE i = 1
      BY <3>2
    <3>3. CASE i = 2
      <4>1. f[i] = x2 /\ 1 \in 1 .. n /\ i - 1 = 1
        BY <3>3
      <4>2. f[i - 1] = x1
        BY <4>1
      <4> HIDE DEF f
      <4> QED
        BY <3>3, <4>1, <4>2 DEF x2
    <3>4. CASE i = 3
      <4>1. f[i] = x3 /\ 2 \in 1 .. n /\ i - 1 = 2
        BY <3>4
      <4>2. f[i - 1] = x2
        BY <4>1
      <4> HIDE DEF f
      <4> QED
        BY <3>4, <4>1, <4>2 DEF x3
    <3> QED
      BY <3>1, <3>2, <3>3, <3>4
  <2>2. f = F(f)
    BY <2>1
  <2> HIDE DEF f
  <2> QED
    BY <2>2
<1> DEFINE h == CHOOSE h : h = F(h)
<1>2. h = F(h)
  BY <1>1
<1>3. s \in Seq(Seq(S)) /\ Len(s) = n
  <2>1. Len(s) = n
    OBVIOUS
  <2> QED
    BY <2>1
<1>4. FlattenSeq(s) = h[n]
  BY <1>3 DEF FlattenSeq
<1> HIDE DEF h
<1>5. \A i \in 1 .. n : h[i] = IF i = 1 THEN s[i] ELSE h[i - 1] \o s[i]
  BY <1>2
<1> HIDE DEF F
<1>6. h[1] = s[1]
  BY <1>5
<1>7. n > 1 => h[2] = s[1] \o s[2]
  <2> SUFFICES ASSUME n > 1
               PROVE  h[2] = s[1] \o s[2]
    OBVIOUS
  <2>1. 2 \in 1 .. n /\ 2 - 1 = 1
    OBVIOUS
  <2> QED
    <3>1. ASSUME NEW i \in 1 .. n, i = 2
          PROVE  h[i] = s[1] \o s[i]
      <4>1. i # 1 /\ i - 1 = 1
        BY <3>1
      <4> QED
        BY <4>1, <1>5, <1>6
    <3> QED
      BY <2>1, <3>1
<1>8. n > 2 => h[3] = (s[1] \o s[2]) \o s[3]
  <2> SUFFICES ASSUME n > 2
               PROVE  h[3] = (s[1] \o s[2]) \o s[3]
    OBVIOUS
  <2>1. 3 \in 1 .. n /\ 3 - 1 = 2
    OBVIOUS
  <2> QED
    <3>1. ASSUME NEW i \in 1 .. n, i = 3
          PROVE  h[i] = (s[1] \o s[2]) \o s[i]
      <4>1. i # 1 /\ i - 1 = 2
        BY <3>1
      <4> QED
        <5>1. h[i] = h[2] \o s[i]
          BY <4>1, <1>5
        <5>2. h[2] = s[1] \o s[2]
          <6>1. n > 1
            OBVIOUS
          <6> QED
            BY <6>1, <1>7
        <5> QED
          BY ONLY <5>1, <5>2
    <3> QED
      BY <2>1, <3>1
<1>9. CASE n = 1
  BY <1>4, <1>6, <1>9
<1>10. CASE n = 2
  BY <1>4, <1>7, <1>10
<1>11. CASE n = 3
  BY <1>4, <1>8, <1>11
<1> QED
  BY <1>9, <1>10, <1>11

\* Two stretches of a line with a space between them.
Spaced(a, b) == a \o (<<Space>> \o b)

LEMMA JoinedTwo ==
  ASSUME NEW S, Space \in S, NEW a \in Seq(S), NEW b \in Seq(S)
  PROVE  /\ Joined(<<a>>) = a
         /\ Joined(<<a, b>>) = a \o (<<Space>> \o b)
<1> DEFINE sb == <<Space>> \o b
<1>1. sb \in Seq(S)
  OBVIOUS
<1>2. Joined(<<a>>) = a
  <2> DEFINE g == [i \in 1 .. 1 |-> IF i = 1 THEN <<a>>[i] ELSE <<Space>> \o <<a>>[i]]
  <2>1. DOMAIN <<a>> = 1 .. 1
    OBVIOUS
  <2>2. g[1] = a /\ g \in [1 .. 1 -> Seq(S)]
    OBVIOUS
  <2>3. Joined(<<a>>) = FlattenSeq(g)
    BY <2>1 DEF Joined
  <2> HIDE DEF g
  <2>4. 1 \in 1 .. 3
    OBVIOUS
  <2>5. FlattenSeq(g) = g[1]
    BY <2>2, <2>4, FlattenShort
  <2> QED
    BY <2>2, <2>3, <2>5
<1>3. Joined(<<a, b>>) = a \o sb
  <2> DEFINE w == <<a, b>>
             g == [i \in 1 .. 2 |-> IF i = 1 THEN w[i] ELSE <<Space>> \o w[i]]
  <2>1. DOMAIN w = 1 .. 2 /\ w[1] = a /\ w[2] = b
    OBVIOUS
  <2>2. Joined(w) = FlattenSeq(g)
    BY <2>1 DEF Joined
  <2> HIDE DEF w
  <2>3. g[1] = a /\ g[2] = sb
    BY <2>1
  <2>4. g \in [1 .. 2 -> Seq(S)]
    <3>1. \A i \in 1 .. 2 : i = 1 \/ i = 2
      OBVIOUS
    <3> HIDE DEF sb
    <3> QED
      BY <1>1, <2>3, <3>1
  <2> HIDE DEF g, sb
  <2>5. 2 \in 1 .. 3
    OBVIOUS
  <2>6. FlattenSeq(g) = g[1] \o g[2]
    BY <2>4, <2>5, FlattenShort
  <2>7. Joined(w) = a \o sb
    BY <2>2, <2>3, <2>6
  <2> QED
    BY <2>7 DEF w
<1> QED
  BY <1>2, <1>3

LEMMA JoinedThree ==
  ASSUME NEW S, Space \in S, NEW a \in Seq(S), NEW b \in Seq(S), NEW c \in Seq(S)
  PROVE  Joined(<<a, b, c>>) = Spaced(Spaced(a, b), c)
<1> DEFINE sb == <<Space>> \o b
           sc == <<Space>> \o c
<1>1. sb \in Seq(S) /\ sc \in Seq(S)
  OBVIOUS
<1> DEFINE w == <<a, b, c>>
           g == [i \in 1 .. 3 |-> IF i = 1 THEN w[i] ELSE <<Space>> \o w[i]]
<1>2. DOMAIN w = 1 .. 3 /\ w[1] = a /\ w[2] = b /\ w[3] = c
  OBVIOUS
<1>3. Joined(w) = FlattenSeq(g)
  BY <1>2 DEF Joined
<1> HIDE DEF w, sb, sc
<1>4. g[1] = a /\ g[2] = sb /\ g[3] = sc
  BY <1>2 DEF sb, sc
<1>5. g \in [1 .. 3 -> Seq(S)]
  <2>1. \A i \in 1 .. 3 : i = 1 \/ i = 2 \/ i = 3
    OBVIOUS
  <2> QED
    BY <1>1, <1>4, <2>1
<1> HIDE DEF g
<1>6. 3 \in 1 .. 3
  OBVIOUS
<1>7. FlattenSeq(g) = (g[1] \o g[2]) \o g[3]
  BY <1>5, <1>6, FlattenShort
<1>8. Joined(w) = (a \o sb) \o sc
  BY <1>3, <1>4, <1>7
<1> QED
  BY <1>8 DEF w, sb, sc, Spaced

(* A stretch of s up to a character, the character, and the stretch after it. *)
LEMMA CutAt ==
  ASSUME NEW S, NEW s \in Seq(S), NEW p \in 1 .. Len(s), NEW n \in p .. Len(s)
  PROVE  SubSeq(s, 1, p - 1) \o (<<s[p]>> \o SubSeq(s, p + 1, n)) = SubSeq(s, 1, n)
<1>1. SubSeq(s, p, n) = <<s[p]>> \o SubSeq(s, p + 1, n)
  BY SubSeqRecursiveFirst
<1>2. /\ 1 \in 1 .. Len(s) + 1 /\ p - 1 \in 1 - 1 .. Len(s) /\ n \in p - 1 .. Len(s)
      /\ p - 1 + 1 = p
  OBVIOUS
<1>3. SubSeq(s, 1, p - 1) \o SubSeq(s, p - 1 + 1, n) = SubSeq(s, 1, n)
  BY <1>2, ConcatAdjacentSubSeq
<1> QED
  BY <1>1, <1>2, <1>3

LEMMA StretchIs ==
  ASSUME NEW S, NEW s \in Seq(S), NEW i \in 1 .. Len(s) + 1, NEW j \in 0 .. Len(s)
  PROVE  /\ SubSeq(s, i, j) \in Seq(S)
         /\ NoSpace(s, i, j) => ~ Contains(SubSeq(s, i, j), Space)
<1>1. \A k \in i .. j : s[k] \in S
  <2>1. \A k \in i .. j : k \in 1 .. Len(s)
    OBVIOUS
  <2> QED
    BY <2>1
<1>2. /\ SubSeq(s, i, j) \in Seq(S)
      /\ Len(SubSeq(s, i, j)) = IF i <= j THEN j - i + 1 ELSE 0
      /\ \A k \in 1 .. j - i + 1 : SubSeq(s, i, j)[k] = s[i + k - 1]
  <2>1. i \in Int /\ j \in Int
    OBVIOUS
  <2> QED
    BY <1>1, <2>1, SubSeqProperties
<1>3. ASSUME NoSpace(s, i, j), NEW k \in 1 .. Len(SubSeq(s, i, j))
      PROVE  SubSeq(s, i, j)[k] # Space
  <2>1. k \in 1 .. j - i + 1 /\ i + k - 1 \in i .. j
    BY <1>2
  <2> QED
    BY <1>2, <1>3, <2>1 DEF NoSpace
<1> QED
  BY <1>2, <1>3 DEF Contains

(* What the loop makes of a line: the operands that make it up again, each  *)
(* without a space but the third.                                           *)
LEMMA SplitIs ==
  ASSUME NEW S, NEW s \in Seq(S)
  PROVE  Split(s) # <<>> /\ IsSplitOf(Split(s), s)
<1> DEFINE S2 == S \union {Space}
           n == Len(s)
<1>1. s \in Seq(S2) /\ n \in Nat /\ Space \in S2
  OBVIOUS
<1>2. PICK h : /\ Scans(h, s, 1 .. n)
               /\ Split(s) = Append(h[1 .. n].ops, SubSeq(s, h[1 .. n].last, n))
  BY SplitScans
<1> HIDE DEF S2
<1> DEFINE st == h[1 .. n]
<1>3. Stands(s, st, n)
  BY <1>1, <1>2, ScanStands
<1>4. Split(s) = Append(st.ops, SubSeq(s, st.last, n))
  BY <1>2
<1> HIDE DEF st, n
<1>5. CASE Stands0(s, st, n)
  <2> DEFINE a == SubSeq(s, 1, n)
  <2>1. st.ops = <<>> /\ st.last = 1 /\ NoSpace(s, 1, n)
    BY <1>5 DEF Stands0
  <2>2. a = s
    BY <1>1, SubSeqFull DEF n
  <2>3. ~ Contains(a, Space) /\ a \in Seq(S2)
    <3>1. 1 \in 1 .. Len(s) + 1 /\ n \in 0 .. Len(s)
      BY <1>1 DEF n
    <3> QED
      BY <1>1, <2>1, <3>1, StretchIs
  <2> HIDE DEF a
  <2>4. Split(s) = <<a>>
    <3>1. Append(<<>>, a) = <<a>>
      OBVIOUS
    <3> QED
      BY <1>4, <2>1, <3>1 DEF a
  <2>5. Joined(<<a>>) = a
    BY <1>1, <2>3, JoinedTwo
  <2>6. Len(<<a>>) = 1 /\ <<a>>[1] = a /\ DOMAIN <<a>> = 1 .. 1 /\ <<a>> # <<>>
    OBVIOUS
  <2>7. \A i \in 1 .. 1 : i = 1
    OBVIOUS
  <2>8. IsSplitOf(<<a>>, s)
    BY <2>2, <2>3, <2>5, <2>6, <2>7 DEF IsSplitOf
  <2> QED
    BY <2>4, <2>6, <2>8
<1>6. ASSUME NEW p \in 1 .. n, Stands1(s, st, n, p)
      PROVE  Split(s) # <<>> /\ IsSplitOf(Split(s), s)
  <2> DEFINE a == SubSeq(s, 1, p - 1)
             b == SubSeq(s, p + 1, n)
  <2>1. /\ st.ops = <<a>> /\ st.last = p + 1
        /\ s[p] = Space /\ NoSpace(s, 1, p - 1) /\ NoSpace(s, p + 1, n)
    BY <1>6 DEF Stands1
  <2>2. a \in Seq(S2) /\ ~ Contains(a, Space) /\ b \in Seq(S2) /\ ~ Contains(b, Space)
    <3>1. /\ 1 \in 1 .. Len(s) + 1 /\ p - 1 \in 0 .. Len(s)
          /\ p + 1 \in 1 .. Len(s) + 1 /\ n \in 0 .. Len(s)
      BY <1>1 DEF n
    <3> QED
      BY <1>1, <2>1, <3>1, StretchIs
  <2>3. a \o (<<Space>> \o b) = s
    <3>1. p \in 1 .. Len(s) /\ n \in p .. Len(s)
      BY <1>1 DEF n
    <3>2. SubSeq(s, 1, p - 1) \o (<<s[p]>> \o SubSeq(s, p + 1, n)) = SubSeq(s, 1, n)
      BY <1>1, <3>1, CutAt
    <3>3. SubSeq(s, 1, n) = s
      BY <1>1, SubSeqFull DEF n
    <3> QED
      BY <2>1, <3>2, <3>3
  <2>4. Split(s) = Append(<<a>>, b)
    BY <1>4, <2>1
  <2> HIDE DEF a, b
  <2>5. Split(s) = <<a, b>>
    BY <2>4, AppendOne
  <2>6. Joined(<<a, b>>) = a \o (<<Space>> \o b)
    BY <1>1, <2>2, JoinedTwo
  <2>7. /\ Len(<<a, b>>) = 2 /\ <<a, b>>[1] = a /\ <<a, b>>[2] = b
        /\ DOMAIN <<a, b>> = 1 .. 2 /\ <<a, b>> # <<>>
    OBVIOUS
  <2>8. \A i \in 1 .. 2 : i = 1 \/ i = 2
    OBVIOUS
  <2>9. IsSplitOf(<<a, b>>, s)
    <3> DEFINE w == <<a, b>>
    <3> HIDE DEF w
    <3>1. \A i \in DOMAIN w \intersect 1 .. 2 : ~ Contains(w[i], Space)
      BY <2>2, <2>7, <2>8 DEF w
    <3>2. ~ Contains(w[Len(w)], Space) /\ Len(w) <= 3
      BY <2>2, <2>7 DEF w
    <3>3. Joined(w) = s
      BY <2>3, <2>6 DEF w
    <3>4. IsSplitOf(w, s)
      BY <3>1, <3>2, <3>3 DEF IsSplitOf
    <3> QED
      BY <3>4 DEF w
  <2> QED
    BY <2>5, <2>7, <2>9
<1>7. ASSUME NEW q \in 1 .. n, NEW p \in 1 .. q - 1, Stands2(s, st, p, q)
      PROVE  Split(s) # <<>> /\ IsSplitOf(Split(s), s)
  <2> DEFINE a == SubSeq(s, 1, p - 1)
             b == SubSeq(s, p + 1, q - 1)
             c == SubSeq(s, q + 1, n)
  <2>1. /\ st.ops = <<a, b>> /\ st.last = q + 1
        /\ s[p] = Space /\ NoSpace(s, 1, p - 1)
        /\ s[q] = Space /\ NoSpace(s, p + 1, q - 1)
    BY <1>7 DEF Stands2
  <2>2. a \in Seq(S2) /\ ~ Contains(a, Space) /\ b \in Seq(S2) /\ ~ Contains(b, Space) /\ c \in Seq(S2)
    <3>1. /\ 1 \in 1 .. Len(s) + 1 /\ p - 1 \in 0 .. Len(s)
          /\ p + 1 \in 1 .. Len(s) + 1 /\ q - 1 \in 0 .. Len(s)
          /\ q + 1 \in 1 .. Len(s) + 1 /\ n \in 0 .. Len(s)
      BY <1>1 DEF n
    <3>2. a \in Seq(S2) /\ ~ Contains(a, Space)
      BY <1>1, <2>1, <3>1, StretchIs
    <3>3. b \in Seq(S2) /\ ~ Contains(b, Space)
      BY <1>1, <2>1, <3>1, StretchIs
    <3>4. c \in Seq(S2)
      BY <1>1, <3>1, StretchIs
    <3> QED
      BY <3>2, <3>3, <3>4
  <2>3. a \o (<<Space>> \o b) = SubSeq(s, 1, q - 1)
    <3>1. p \in 1 .. Len(s) /\ q - 1 \in p .. Len(s)
      BY <1>1 DEF n
    <3>2. SubSeq(s, 1, p - 1) \o (<<s[p]>> \o SubSeq(s, p + 1, q - 1)) = SubSeq(s, 1, q - 1)
      BY <1>1, <3>1, CutAt
    <3> QED
      BY <2>1, <3>2
  <2>4. SubSeq(s, 1, q - 1) \o (<<Space>> \o c) = s
    <3>1. q \in 1 .. Len(s) /\ n \in q .. Len(s)
      BY <1>1 DEF n
    <3>2. SubSeq(s, 1, q - 1) \o (<<s[q]>> \o SubSeq(s, q + 1, n)) = SubSeq(s, 1, n)
      BY <1>1, <3>1, CutAt
    <3>3. SubSeq(s, 1, n) = s
      BY <1>1, SubSeqFull DEF n
    <3> QED
      BY <2>1, <3>2, <3>3
  <2>5. Split(s) = Append(<<a, b>>, c)
    BY <1>4, <2>1
  <2> HIDE DEF a, b, c
  <2>6. Append(<<a, b>>, c) = <<a, b, c>>
    BY AppendTwo
  <2>7. Joined(<<a, b, c>>) = s
    <3>1. Space \in S2 /\ a \in Seq(S2) /\ b \in Seq(S2) /\ c \in Seq(S2)
      BY <1>1, <2>2
    <3>2. Joined(<<a, b, c>>) = Spaced(Spaced(a, b), c)
      BY ONLY <3>1, JoinedThree
    <3> QED
      BY ONLY <2>3, <2>4, <3>2 DEF Spaced
  <2>8. /\ Len(<<a, b, c>>) = 3 /\ <<a, b, c>>[1] = a /\ <<a, b, c>>[2] = b
        /\ DOMAIN <<a, b, c>> = 1 .. 3 /\ <<a, b, c>> # <<>>
    OBVIOUS
  <2>9. \A i \in 1 .. 3 \intersect 1 .. 2 : i = 1 \/ i = 2
    OBVIOUS
  <2>10. IsSplitOf(<<a, b, c>>, s)
    BY <2>2, <2>7, <2>8, <2>9 DEF IsSplitOf
  <2> QED
    BY <2>5, <2>6, <2>8, <2>10
<1> QED
  BY <1>3, <1>5, <1>6, <1>7 DEF Stands

-----------------------------------------------------------------------------
\* A line and its command.

\* Between two commands a line that fits into com is read as a whole or not at
\* all; while a command is chosen nothing is left, and the operands are its own.
LineInv ==
  /\ line \in Lines \union {<<>>}
  /\ ~ ended /\ Len(line) < RespSize - 1 =>
       /\ ops = <<>> => stdin \in {<<>>, Append(line, Newline)}
       /\ ops # <<>> => stdin = <<>> /\ IsSplitOf(ops, line)

(* fgets takes a line that fits with its newline, which is then cut off.    *)
LEMMA LineIsTaken ==
  ASSUME NEW Chars, NEW l \in Seq(Chars), ~ Contains(l, Newline), Len(l) < RespSize - 1
  PROVE  LET in == Append(l, Newline)
             n  == Taken(in)
         IN  Strip(SubSeq(in, 1, n)) = l /\ SubSeq(in, n + 1, Len(in)) = <<>>
<1> DEFINE C == Chars \union {Newline}
           in == Append(l, Newline)
           room == 1 .. (IF Len(in) < RespSize THEN Len(in) ELSE RespSize - 1)
           ends == {i \in room : in[i] = Newline}
           m == Len(l) + 1
<1>1. RespSize \in Nat /\ Len(l) \in Nat /\ m \in Nat
  BY ProgramAssumption
<1>2. /\ in \in Seq(C) /\ Len(in) = m /\ in # <<>>
      /\ \A i \in 1 .. Len(l) : in[i] = l[i]
      /\ in[m] = Newline
  OBVIOUS
<1> HIDE DEF in
<1>3. room = 1 .. m
  BY <1>1, <1>2
<1>4. ends = {m}
  <2>1. \A i \in 1 .. Len(l) : in[i] # Newline
    BY <1>2 DEF Contains
  <2>2. \A i \in 1 .. m : i = m \/ i \in 1 .. Len(l)
    BY <1>1
  <2>3. m \in 1 .. m
    BY <1>1
  <2> QED
    BY <1>2, <1>3, <2>1, <2>2, <2>3
<1>5. Taken(in) = m
  <2>1. Taken(in) = CHOOSE i \in ends : \A j \in ends : i <= j
    BY <1>4 DEF Taken
  <2> HIDE DEF ends, m
  <2>2. \E i \in ends : \A j \in ends : i <= j
    BY <1>1, <1>4
  <2> QED
    BY <1>4, <2>1, <2>2
<1>6. SubSeq(in, 1, m) = in
  BY <1>2, SubSeqFull
<1>7. Strip(in) = l
  <2>1. Strip(in) = SubSeq(in, 1, m - 1)
    BY <1>2 DEF Strip, Front
  <2>2. 1 \in Int /\ m - 1 \in Int /\ m - 1 = Len(l) /\ \A i \in 1 .. m - 1 : in[i] \in Chars
    BY <1>1, <1>2
  <2>3. /\ SubSeq(in, 1, m - 1) \in Seq(Chars)
        /\ Len(SubSeq(in, 1, m - 1)) = IF 1 <= m - 1 THEN m - 1 - 1 + 1 ELSE 0
        /\ \A i \in 1 .. m - 1 - 1 + 1 : SubSeq(in, 1, m - 1)[i] = in[1 + i - 1]
    BY <2>2, SubSeqProperties
  <2>4. Len(SubSeq(in, 1, m - 1)) = Len(l)
    BY <1>1, <2>3
  <2>5. \A i \in 1 .. Len(SubSeq(in, 1, m - 1)) : SubSeq(in, 1, m - 1)[i] = l[i]
    BY <1>1, <1>2, <2>3, <2>4
  <2> QED
    BY <2>1, <2>3, <2>4, <2>5, SeqEqual
<1>8. SubSeq(in, m + 1, Len(in)) = <<>>
  BY <1>1, <1>2, SubSeqEmpty
<1> QED
  BY <1>5, <1>6, <1>7, <1>8 DEF in

(* table_client.c:71-87: whatever the user types, and whatever the server   *)
(* and the network do, a line that fits into com is one command, with the   *)
(* operands as typed.  A line is a sequence of cells: all the theorem asks  *)
(* of Lines.                                                                *)
THEOREM LinesAreCommands ==
  ASSUME NEW CONSTANT Chars, Lines \subseteq Seq(Chars)
  PROVE  ProgramSpec => []CommandsAsTyped
<1>1. ProgramInit => LineInv
  BY DEF ProgramInit, LineInv
<1>2. LineInv /\ [ProgramNext]_programVars => LineInv'
  <2> SUFFICES ASSUME LineInv, [ProgramNext]_programVars
               PROVE  LineInv'
    OBVIOUS
  <2>1. ASSUME NEW l \in Lines, TypeLine(l)
        PROVE  LineInv'
    BY <2>1 DEF LineInv, TypeLine
  <2>2. CASE EndInput
    BY <2>2 DEF LineInv, EndInput
  <2>3. CASE ReadLine
    <3>1. ops = <<>> /\ stdin # <<>> /\ UNCHANGED <<ended, line>>
      BY <2>3 DEF ReadLine
    <3>2. ASSUME ~ ended, Len(line) < RespSize - 1
          PROVE  ops' # <<>> /\ stdin' = <<>> /\ IsSplitOf(ops', line)
      <4>1. stdin = Append(line, Newline) /\ line \in Lines \union {<<>>}
        BY <3>1, <3>2 DEF LineInv
      <4>2. line \in Seq(Chars) /\ ~ Contains(line, Newline)
        <5>1. CASE line \in Lines
          BY <5>1, ProgramAssumption
        <5>2. CASE line = <<>>
          <6>1. ~ Contains(<<>>, Newline)
            BY DEF Contains
          <6>2. <<>> \in Seq(Chars)
            OBVIOUS
          <6> QED
            BY <5>2, <6>1, <6>2
        <5> QED
          BY <4>1, <5>1, <5>2
      <4>3. ops' = Split(Strip(SubSeq(stdin, 1, Taken(stdin))))
        BY <2>3 DEF ReadLine
      <4>4. stdin' = SubSeq(stdin, Taken(stdin) + 1, Len(stdin))
        BY <2>3 DEF ReadLine
      <4>5. /\ Strip(SubSeq(stdin, 1, Taken(stdin))) = line
            /\ SubSeq(stdin, Taken(stdin) + 1, Len(stdin)) = <<>>
        BY <3>2, <4>1, <4>2, LineIsTaken
      <4>6. Split(line) # <<>> /\ IsSplitOf(Split(line), line)
        BY <4>2, SplitIs
      <4> QED
        BY <4>3, <4>4, <4>5, <4>6
    <3> QED
      BY <3>1, <3>2 DEF LineInv
  <2>4. CASE ReadEnd
    BY <2>4 DEF LineInv, ReadEnd, inputVars
  <2>5. ASSUME ops # <<>>, ops' = <<>>, UNCHANGED inputVars
        PROVE  LineInv'
    BY <2>5 DEF LineInv, inputVars
  <2>6. CASE (\E op \in Ops : Dispatch(op) \/ DispatchIncomplete(op)) \/ DispatchQuit \/ DispatchUnknown
    BY <2>5, <2>6 DEF Dispatch, DispatchIncomplete, DispatchQuit, DispatchUnknown, Chosen
  <2>7. CASE (Server \/ Break \/ Call) /\ UNCHANGED <<inputVars, ops>>
    BY <2>7 DEF LineInv, inputVars
  <2>8. CASE UNCHANGED programVars
    BY <2>8 DEF LineInv, programVars, inputVars
  <2> QED
    BY <2>1, <2>2, <2>3, <2>4, <2>6, <2>7, <2>8 DEF ProgramNext
<1>3. LineInv => CommandsAsTyped
  BY DEF LineInv, CommandsAsTyped
<1> QED
  BY <1>1, <1>2, <1>3, PTL DEF ProgramSpec
====
