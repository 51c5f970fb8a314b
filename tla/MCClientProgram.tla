---------------------------- MODULE MCClientProgram ----------------------------
(***************************************************************************)
(* ClientProgram for TLC: a line holds six cells besides its newline.      *)
(***************************************************************************)
EXTENDS ClientProgram

AllOps == {"put", "del", "get", "size", "keys", "print", "stats"}

\* Complete commands, values with spaces, missing and empty operands, leading
\* and double spaces, words that are no command, and lines too long for com:
\* one that is cut in a value, one whose rest is a command of its own.
SomeLines ==
  { <<c>> : c \in {"put", "get", "size", "keys", "print", "stats", "quit"} } \union
  { <<>>, <<" ", "size">>, <<"k">>,
    <<"del", " ", "k">>, <<"get", " ", "k">>, <<"get", " ", " ", "k">>, <<"size", " ", "k", " ", "k">>,
    <<"put", " ", "k">>, <<"put", " ", "k", " ">>, <<"put", " ", "k", " ", "k">>,
    <<"put", " ", "k", " ", "k", " ">>,
    <<"put", " ", "k", " ", "k", " ", "k">>,
    <<"put", " ", "k", " ", "k", "k", "k", "size">>,
    <<"put", " ", "k", " ", "k", "k", "k", "del", " ", "k">> }
=============================================================================
