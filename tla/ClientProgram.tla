---------------------------- MODULE ClientProgram ----------------------------
(***************************************************************************)
(* The client program: the loop of main (table_client.c), which reads a    *)
(* line with fgets, cuts off its last character, splits it at the first    *)
(* two spaces and calls a function of client_stub.c, over ClientCall,      *)
(* which models that call and the server.                                  *)
(*                                                                         *)
(* A line is a sequence of cells: the name of a command is one cell, so is *)
(* each other character.                                                   *)
(***************************************************************************)
EXTENDS ClientCall

CONSTANTS
  RespSize,        \* RESP_SIZE
  Space, Newline,
  Lines,           \* the lines the user types, without the newline
  MaxLines         \* bound: how many lines are typed

ASSUME ProgramAssumption ==
  /\ RespSize \in Nat \ (0 .. 1)
  /\ Space # Newline
  /\ \A l \in Lines : ~ Contains(l, Newline)
  /\ MaxLines \in Nat

VARIABLES
  stdin,     \* what is typed and not yet read
  ended,     \* the input has ended
  ops,       \* parser.ops, as far as they are not NULL
  line,      \* history: the line typed last
  typed      \* history: how many lines were typed

inputVars == <<stdin, ended, line, typed>>
programVars == <<vars, inputVars, ops>>

ProgramInit ==
  /\ Init
  /\ stdin = <<>> /\ ended = FALSE
  /\ ops = <<>>
  /\ line = <<>> /\ typed = 0

-----------------------------------------------------------------------------
\* The user, or the file the input comes from.

TypeLine(l) ==
  /\ stdin = <<>> /\ ~ ended /\ pc = "prompt" /\ ops = <<>>
  /\ typed < MaxLines
  /\ stdin' = Append(l, Newline)
  /\ line' = l /\ typed' = typed + 1
  /\ UNCHANGED <<vars, ops, ended>>

\* The input ends, with or without a last line that has no newline.
EndInput ==
  /\ stdin = <<>> /\ ~ ended /\ pc = "prompt" /\ ops = <<>>
  /\ ended' = TRUE
  /\ stdin' \in Lines \union {<<>>}
  /\ UNCHANGED <<vars, ops, line, typed>>

-----------------------------------------------------------------------------
\* Reading a line.

\* How many cells fgets takes from the input: up to the first newline, but no
\* more than RESP_SIZE - 1.
Taken(in) ==
  LET room == 1 .. (IF Len(in) < RespSize THEN Len(in) ELSE RespSize - 1)
      ends == {i \in room : in[i] = Newline}
  IN  IF ends = {} THEN Cardinality(room) ELSE CHOOSE i \in ends : \A j \in ends : i <= j

\* Faulty: the newline stays.
StripNothing(s) == s

\* com[strlen(com) - 1] = NUL, whatever the last character is.  There is one.
Strip(s) == Front(s)

\* Faulty: ops[3] is filled, too.
SplitAgain(s) ==
  LET scan == FoldLeftDomain(
        LAMBDA st, i : IF Len(st.ops) < 3 /\ s[i] = Space
                       THEN [ops |-> Append(st.ops, SubSeq(s, st.last, i - 1)), last |-> i + 1]
                       ELSE st,
        [ops |-> <<>>, last |-> 1], s)
  IN  Append(scan.ops, SubSeq(s, scan.last, Len(s)))

\* The loop over com: up to two operands end at a space, the last one is the
\* rest of the line.
Split(s) ==
  LET scan == FoldLeftDomain(
        LAMBDA st, i : IF Len(st.ops) < 2 /\ s[i] = Space
                       THEN [ops |-> Append(st.ops, SubSeq(s, st.last, i - 1)), last |-> i + 1]
                       ELSE st,
        [ops |-> <<>>, last |-> 1], s)
  IN  Append(scan.ops, SubSeq(s, scan.last, Len(s)))

ReadLine ==
  /\ pc = "prompt" /\ ops = <<>> /\ stdin # <<>>
  /\ LET n == Taken(stdin)
     IN  /\ stdin[n] = Newline \/ n = RespSize - 1 \/ ended
         /\ ops' = Split(Strip(SubSeq(stdin, 1, n)))
         /\ stdin' = SubSeq(stdin, n + 1, Len(stdin))
  /\ UNCHANGED <<vars, ended, line, typed>>

\* fgets at the end of the input: nobody looks at its result, the line stays
\* empty, com[strlen(com) - 1] is outside com, and the next line is empty again.
ReadEnd ==
  /\ ops = <<>> /\ stdin = <<>> /\ ended
  /\ TypeEnd
  /\ UNCHANGED <<inputVars, ops>>

-----------------------------------------------------------------------------
\* The chain of comparisons with ops[0].

Name(op) == <<op>>

\* The operands a command reads without a look at whether they are there.
Needs(op) == CASE op = "put" -> 3 [] op \in {"del", "get"} -> 2 [] OTHER -> 1

\* One way from the chain back to the head of the loop, or out of it.
Chosen(A) == ops # <<>> /\ A /\ ops' = <<>> /\ UNCHANGED inputVars

Dispatch(op) == Chosen(ops[1] = Name(op) /\ Len(ops) >= Needs(op) /\ Type(op))

DispatchIncomplete(op) ==
  Chosen(ops[1] = Name(op) /\ Len(ops) < Needs(op) /\ TypeIncomplete)

DispatchQuit == Chosen(ops[1] = Name("quit") /\ TypeQuit)

\* "Please insert a valid command".
DispatchUnknown ==
  Chosen(ops[1] \notin {Name(op) : op \in Ops \union {"quit"}} /\ UNCHANGED vars)

-----------------------------------------------------------------------------
ProgramNext ==
  \/ \E l \in Lines : TypeLine(l)
  \/ EndInput
  \/ ReadLine \/ ReadEnd
  \/ \E op \in Ops : Dispatch(op) \/ DispatchIncomplete(op)
  \/ DispatchQuit \/ DispatchUnknown
  \/ (Server \/ Break \/ Call) /\ UNCHANGED <<inputVars, ops>>

ProgramSpec == ProgramInit /\ [][ProgramNext]_programVars

-----------------------------------------------------------------------------
Joined(w) == FlattenSeq([i \in DOMAIN w |-> IF i = 1 THEN w[i] ELSE <<Space>> \o w[i]])

(* What a line means: up to three operands that make up the line again, the *)
(* third with all spaces that are left, the others without any.             *)
IsSplitOf(w, l) ==
  /\ Joined(w) = l
  /\ \A i \in DOMAIN w \intersect 1 .. 2 : ~ Contains(w[i], Space)
  /\ Len(w) < 3 => ~ Contains(w[Len(w)], Space)
  /\ Len(w) <= 3

(* table_client.c:71-87: a line that fits into com together with its newline *)
(* is one command, with the operands as typed.  A longer one is read in      *)
(* pieces, each without its last character, and each taken for a command.    *)
CommandsAsTyped ==
  ops # <<>> /\ ~ ended /\ Len(line) < RespSize - 1 =>
    stdin = <<>> /\ IsSplitOf(ops, line)
=============================================================================
