------------------------------ MODULE HashTable ------------------------------
(***************************************************************************)
(* The hash table of source/dataStructs: table.c over list.c, with the     *)
(* entry and the data block a node owns folded into the node.              *)
(*                                                                         *)
(* A chain is the sequence of nodes reachable from list->head; list->tail  *)
(* is a memory cell of its own, because list_remove does not set it.       *)
(* Every node reachable from a head is reached by exactly one pointer, so  *)
(* a sequence per list is all the structure there is.  malloc may return   *)
(* any free cell.                                                          *)
(*                                                                         *)
(* The operations run one at a time here: TableServer interleaves them.    *)
(***************************************************************************)
EXTENDS TableOps, Integers, SequencesExt

CONSTANTS
  N,          \* the number of lists, n of struct table_t
  ByteSum,    \* ByteSum[k]: the sum of the chars of key k; char is signed
  Cells,      \* bound: the memory there is for nodes
  NoCell      \* a tail that list_create left uninitialised

ASSUME TableAssumption ==
  /\ N \in Nat \ {0}
  /\ ByteSum \in [Keys -> Int]
  /\ NoCell \notin Cells

VARIABLES
  chain,      \* chain[b]: the nodes from lists_ptr[b]->head on
  tail,       \* tail[b]: lists_ptr[b]->tail
  free,       \* the cells malloc may return
  life,       \* "up", "destroyed", "crashed" by an access outside its memory, or
              \* "astray": it made one, and goes on with whatever that did
  torn,       \* history: the list whose stale tail list_add first wrote through
  reply       \* the answer of the last operation

vars == <<chain, tail, free, life, torn, reply>>

Lists == 0 .. N - 1
NoList == -1

Node == [cell : Cells, key : Keys, val : Values]

\* get_hash_index: the % of C truncates toward zero, so a negative sum of
\* chars gives a negative index.
Index(k) ==
  IF ByteSum[k] >= 0 THEN ByteSum[k] % N ELSE -((-ByteSum[k]) % N)

\* list_get_node: the position of the first node with the key, 0 for NULL.
Position(b, k) == SelectInSeq(chain[b], LAMBDA n : n.key = k)

\* list_get, on the list of the key.
Lookup(k) ==
  IF Index(k) \in Lists /\ Position(Index(k), k) # 0
  THEN chain[Index(k)][Position(Index(k), k)].val
  ELSE Absent

\* The nodes of all lists, in the order table_get_keys visits them.
AllNodes == FlattenSeq([i \in 1 .. N |-> chain[i - 1]])

Stale(b) == chain[b] # <<>> /\ tail[b] # Last(chain[b]).cell

Init ==
  /\ chain = [b \in Lists |-> <<>>]
  /\ tail = [b \in Lists |-> NoCell]
  /\ free = Cells
  /\ life = "up"
  /\ torn = NoList
  /\ reply = [ok |-> TRUE]

\* An access outside the memory the code owns ends the process.
Crash ==
  /\ life' = "crashed"
  /\ UNCHANGED <<chain, tail, free, torn, reply>>

\* lists_ptr[-1] is no list, but the memory in front of lists_ptr[0].  The
\* access ends the process, or it returns one of the answers and has changed
\* something somewhere: the model says nothing of what follows.
OffTheLists(answers) ==
  \/ Crash
  \/ /\ life' = "astray"
     /\ reply' \in answers
     /\ UNCHANGED <<chain, tail, free, torn>>

\* tail->next = new, wherever the cell is now: what followed it in a chain is
\* cut off.  A cell that is in no chain takes the new node out of reach.
Link(cell, new) ==
  [b \in Lists |->
     LET i == SelectInSeq(chain[b], LAMBDA n : n.cell = cell)
     IN  IF i = 0 THEN chain[b] ELSE Append(SubSeq(chain[b], 1, i), new)]

\* Faulty: the list counts as empty when its tail was never set.
ListAddByTail(b, new) ==
  /\ free' = free \ {new.cell}
  /\ chain' = IF tail[b] = NoCell
              THEN [chain EXCEPT ![b] = <<new>>]
              ELSE Link(tail[b], new)
  /\ tail' = [tail EXCEPT ![b] = new.cell]
  /\ torn' = IF torn = NoList /\ tail[b] # NoCell /\ (chain[b] = <<>> \/ Stale(b))
             THEN b ELSE torn
  /\ life' = "up"

\* list_add of a key the list does not have (table_put has just looked).  The
\* memory behind a stale tail may by now hold something else than a node:
\* then the write does any harm, or none.
ListAdd(b, new) ==
  /\ free' = free \ {new.cell}
  /\ chain' = IF chain[b] = <<>>
              THEN [chain EXCEPT ![b] = <<new>>]
              ELSE Link(tail[b], new)
  /\ tail' = [tail EXCEPT ![b] = new.cell]
  /\ torn' = IF torn = NoList /\ Stale(b) THEN b ELSE torn
  /\ \/ life' = "up"
     \/ Stale(b) /\ tail[b] \in free /\ life' = "crashed"

\* Faulty: put without the look-up.
PutAppends(k, v) ==
  /\ life = "up"
  /\ Index(k) \in Lists
  /\ reply' = [ok |-> TRUE]
  /\ \E c \in free : ListAdd(Index(k), [cell |-> c, key |-> k, val |-> v])

\* table_put.  list_add writes through the NULL of a malloc without memory.
Put(k, v) ==
  /\ life = "up"
  /\ \/ Index(k) \notin Lists /\ OffTheLists([ok : {TRUE}])
     \/ Index(k) \in Lists /\ Position(Index(k), k) = 0 /\ free = {} /\ Crash
     \/ /\ Index(k) \in Lists
        /\ reply' = [ok |-> TRUE]
        /\ LET b == Index(k)
               i == Position(b, k)
           IN  \/ /\ i = 0
                  /\ \E c \in free : ListAdd(b, [cell |-> c, key |-> k, val |-> v])
               \/ /\ i # 0
                  /\ chain' = [chain EXCEPT ![b][i].val = v]
                  /\ UNCHANGED <<tail, free, life, torn>>

\* table_get: NULL for a key without entry, and for an entry without data.
Get(k) ==
  /\ life = "up"
  /\ \/ Index(k) \notin Lists /\ OffTheLists([data : Values])
     \/ /\ Index(k) \in Lists
        /\ reply' = [data |-> IF Lookup(k) = Absent THEN NoData ELSE Lookup(k)]
        /\ UNCHANGED <<chain, tail, free, life, torn>>

\* Faulty: the node is unlinked and not freed.
ListRemoveLeaks(b, i) ==
  /\ chain' = [chain EXCEPT ![b] = RemoveAt(@, i)]
  /\ UNCHANGED free

\* list_remove: neither branch looks at list->tail.
ListRemove(b, i) ==
  /\ chain' = [chain EXCEPT ![b] = RemoveAt(@, i)]
  /\ free' = free \union {chain[b][i].cell}

\* table_del.
Del(k) ==
  /\ life = "up"
  /\ \/ Index(k) \notin Lists /\ OffTheLists([ok : BOOLEAN])
     \/ /\ Index(k) \in Lists
        /\ LET b == Index(k)
               i == Position(b, k)
           IN  \/ /\ i # 0
                  /\ ListRemove(b, i)
                  /\ reply' = [ok |-> TRUE]
               \/ /\ i = 0
                  /\ UNCHANGED <<chain, free>>
                  /\ reply' = [ok |-> FALSE]
        /\ UNCHANGED <<tail, life, torn>>

Size ==
  /\ life = "up"
  /\ reply' = [size |-> Len(AllNodes)]
  /\ UNCHANGED <<chain, tail, free, life, torn>>

GetKeys ==
  /\ life = "up"
  /\ reply' = [keys |-> [i \in DOMAIN AllNodes |-> AllNodes[i].key]]
  /\ UNCHANGED <<chain, tail, free, life, torn>>

\* list_to_string reads value->datasize of every entry.
Readable(b) == \A n \in ToSet(chain[b]) : n.val # NoData
ListToString(b) == {<<n.key, n.val>> : n \in ToSet(chain[b])}

\* table_to_string.
TableToString ==
  /\ life = "up"
  /\ \/ (\E b \in Lists : ~ Readable(b)) /\ Crash
     \/ /\ \A b \in Lists : Readable(b)
        /\ reply' = [text |-> UNION {ListToString(b) : b \in Lists}]
        /\ UNCHANGED <<chain, tail, free, life, torn>>

\* list_destroy frees what the head reaches.
ListDestroy(b) == {n.cell : n \in ToSet(chain[b])}

\* Faulty: list->tail is freed as well, initialised or not.
DestroyTails ==
  /\ life = "up"
  /\ free' = free \union UNION {ListDestroy(b) \union {tail[b]} : b \in Lists}
  /\ chain' = [b \in Lists |-> <<>>]
  /\ life' = "destroyed"
  /\ UNCHANGED <<tail, torn, reply>>

\* table_destroy.
Destroy ==
  /\ life = "up"
  /\ free' = free \union UNION {ListDestroy(b) : b \in Lists}
  /\ chain' = [b \in Lists |-> <<>>]
  /\ life' = "destroyed"
  /\ UNCHANGED <<tail, torn, reply>>

Next ==
  \/ \E k \in Keys : (\E v \in Values : Put(k, v)) \/ Get(k) \/ Del(k)
  \/ Size
  \/ GetKeys
  \/ TableToString
  \/ Destroy

Spec == Init /\ [][Next]_vars

-----------------------------------------------------------------------------
TypeOK ==
  /\ DOMAIN chain = Lists
  /\ \A b \in Lists : ToSet(chain[b]) \subseteq Node
  /\ tail \in [Lists -> Cells \union {NoCell}]
  /\ free \subseteq Cells
  /\ life \in {"up", "crashed", "astray", "destroyed"}
  /\ torn \in Lists \union {NoList}

(* As long as no write went through a stale tail, the memory is accounted   *)
(* for: a cell is free or in exactly one place of one chain.  So nothing    *)
(* leaks, no node is freed twice, and table_destroy frees everything        *)
(* (list.c:24, "libertando *toda* a memoria").                              *)
MemoryAccounted ==
  torn = NoList /\ life # "crashed" =>
    /\ IsInjective([i \in DOMAIN AllNodes |-> AllNodes[i].cell])
    /\ {n.cell : n \in ToSet(AllNodes)} = Cells \ free

(* As long as no write went through a stale tail, every operation does and  *)
(* answers what table.h promises, whatever the order in which keys of one   *)
(* list were put, replaced and removed.                                     *)
Contract == INSTANCE TableContract WITH map <- [k \in Keys |-> Lookup(k)]

ContractUntilTorn ==
  [][ \/ life' # "up" \/ torn' # NoList
      \/ Contract!Next ]_vars

(* The first list to be torn is one that two keys share, whatever happened  *)
(* in the others: a list that held one key is empty after its removal, and  *)
(* the next put starts from head.                                           *)
TornNeedsCollision ==
  torn # NoList => \E j, k \in Keys : j # k /\ Index(j) = torn /\ Index(k) = torn

(* What list.c:38-43 and table.c:43-49 say of a put that returns 0: the     *)
(* pair is in the table.                                                    *)
AckedPutIsFound ==
  [][\A k \in Keys, v \in Values :
       Put(k, v) /\ life' = "up" => Lookup(k)' = v]_vars
=============================================================================
