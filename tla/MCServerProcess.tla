---------------------------- MODULE MCServerProcess ----------------------------
(***************************************************************************)
(* ServerProcess for TLC.                                                  *)
(***************************************************************************)
EXTENDS ServerProcess

CONSTANTS k1, v1

\* A writer of the table and of the statistics, and a reader of the statistics.
OfBothLocks == {[op |-> "del", key |-> k1], StatsRequest}
=============================================================================
