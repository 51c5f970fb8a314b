------------------------------ MODULE TableOps -------------------------------
(***************************************************************************)
(* The operations of a table as include/dataStructs/table/table.h promises *)
(* them: what each does to a map from keys to data, and its answer.        *)
(* TableContract makes a specification of one table out of them, KVStore   *)
(* one of a table behind a server.                                         *)
(*                                                                         *)
(* A value may be NoData, the NULL pointer data_create2 makes of an empty  *)
(* block: the header does not forbid it, and table_put stores it.          *)
(***************************************************************************)
EXTENDS Sequences, FiniteSets

CONSTANTS
  Keys,
  Values,     \* the data a put may carry, NoData among them
  NoData,     \* a NULL struct data_t *
  Absent      \* the map's value at a key that has no entry

ASSUME ValuesAssumption == NoData \in Values /\ Absent \notin Values

Requests ==
       [op : {"put"}, key : Keys, val : Values]
  \union [op : {"get", "del"}, key : Keys]
  \union [op : {"size", "keys", "print"}]

Empty == [k \in Keys |-> Absent]

Stored(m) == {k \in Keys : m[k] # Absent}

\* The map after a request.
After(m, r) ==
  CASE r.op = "put" -> [m EXCEPT ![r.key] = r.val]
    [] r.op = "del" -> [m EXCEPT ![r.key] = Absent]
    [] OTHER -> m

\* a is a right answer to request r on the map m.  The keys come in any order
\* and each once; a table with a NULL value cannot be printed.
IsAnswer(m, r, a) ==
  CASE r.op = "put"   -> a = [ok |-> TRUE]
    [] r.op = "del"   -> a = [ok |-> m[r.key] # Absent]
    [] r.op = "get"   -> a = [data |-> IF m[r.key] = Absent THEN NoData ELSE m[r.key]]
    [] r.op = "size"  -> a = [size |-> Cardinality(Stored(m))]
    [] r.op = "print" -> /\ \A k \in Stored(m) : m[k] # NoData
                         /\ a = [text |-> {<<k, m[k]>> : k \in Stored(m)}]
    [] r.op = "keys"  -> /\ DOMAIN a = {"keys"}
                         /\ {a.keys[i] : i \in DOMAIN a.keys} = Stored(m)
                         /\ Len(a.keys) = Cardinality(Stored(m))
=============================================================================
