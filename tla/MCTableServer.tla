---------------------------- MODULE MCTableServer ----------------------------
(***************************************************************************)
(* TableServer for TLC.                                                    *)
(***************************************************************************)
EXTENDS TableServer, TLC

CONSTANTS k1, k2, v1

PutOf(k, v) == [op |-> "put", key |-> k, val |-> v]
GetOf(k)    == [op |-> "get", key |-> k]
DelOf(k)    == [op |-> "del", key |-> k]

\* Operations of every kind.  Two keys, so that GETKEYS and PRINT could see
\* half of two changes; the one that GET and DEL name is replaced with data.
EveryKind ==
  {PutOf(k1, v1), PutOf(k2, NoData), DelOf(k1), GetOf(k1), [op |-> "size"],
   [op |-> "keys"], [op |-> "print"], StatsRequest, BadRequest}

ConnSymmetry == Permutations(Conns)
=============================================================================
