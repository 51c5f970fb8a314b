--------------------------- MODULE MCClientFailover ---------------------------
(***************************************************************************)
(* ClientFailover for TLC: a buffer of five cells, three servers, whose    *)
(* addresses are not equally long (the ports of servers on one machine may *)
(* well have four or five digits).  Two have the same host, and what is    *)
(* left of one port behind a shorter one can make the port of the other.   *)
(***************************************************************************)
EXTENDS ClientFailover

Servers    == {<<"h1:", "1", "2">>, <<"h2:", "1", "1">>, <<"h2:", "1">>}
TwoServers == {<<"h1:", "1", "2">>, <<"h2:", "2">>}

\* Servers end; or the znode is deleted and the session lost as well, and
\* the client runs out of descriptors.
WhatGoesWrong == {{"crash"}, {"delete", "disconnect", "crash", "descriptors"}}
Nothing == {{}}

PortDigits == {"1", "2"}

\* A block from malloc is not cleared.
Dirty == {"nul", "1"}
Clean == {"nul"}
=============================================================================
