# TLA+ models of the key-value store

The repository is a key-value store in C: a server that keeps a hash table in
memory and serves each connection with a thread of its own, and a command-line
client that finds the server through ZooKeeper and follows it when it changes.
This directory holds TLA+ modules of its parts, TLC configurations that check
them on small instances, and proofs checked by TLAPS for every instance.
`PROJECT.json` lists the components, the runs, the lines each definition stands
for, the hazards and the theorems.

## The system

| part | source | state it keeps | operations |
|---|---|---|---|
| readers/writers lock | `server/access_man.c` | counters `rc`, `wc`, a mutex, a condition variable | lock and unlock, for reading and for writing |
| hash table | `dataStructs/table`, `dataStructs/list` | `n` lists with `head` and `tail`, nodes on the heap | put, get, del, size, get_keys, to_string, destroy |
| dispatcher and skeleton | `server/network_server.c`, `server/table_skel.c` | `g_table`, `table_mutex`, `stats_mutex`, one thread per connection | accept; receive, `invoke`, send |
| main program of the server | `server/table_server.c`, `network_server_init`, `network_main_loop`, `table_skel_destroy` | the listening socket, the descriptors of the connections | listen, accept, destroy, exit |
| statistics | `statistics/` | global `stats`: total, average, a counter per operation | `update_stats`, OP_STATS |
| framing | `message/message.c` | bytes of a socket | `read_all`, `write_all` |
| serialization | `message/serialization.c` | - | entry and data to a buffer and back |
| client stub and network | `client/client_stub.c`, `client/network_client.c` | the `rtable` with its socket | one remote call per operation |
| redundancy manager | `client/client_redundancy.c` | `server_info_buf`, `server_info_len`, `new`, `connected` | connection watcher, data watcher, `is_new`, `start_watcher` |
| client program | `client/table_client.c` | the current `table`, the line read and its operands | read a line, split it, reconnect on news, call the stub |

How they interact:

* The threads of the server share the table and the statistics. `invoke` takes
  `table_mutex` for reading (SIZE, GET, GETKEYS, PRINT) or writing (DEL, PUT),
  gives it back, then takes `stats_mutex` for writing to count the operation.
  OP_STATS takes `stats_mutex` alone, for reading, and is not counted.
* The threads are detached. When `accept` fails, the main thread destroys the
  locks and the table, and leaves the process, while they go on.
* A client is synchronous: a request, then its answer. It does not retry.
* In the client, the thread of the ZooKeeper library runs `data_watcher`, which
  writes `server_info_buf` and sets `new`; the main thread polls `new` before
  every command and reads the buffer. They share no lock.

What is hard in it, and what each part has to guarantee:

* lock: exclusion, counters that neither drift nor go below zero, nobody who
  sleeps on a condition that is false, calls that end;
* table: an acknowledged put is found, memory is neither lost nor used after it
  is freed, every operation does what `table.h` says, for any hash and any
  history of operations;
* server: no data read that another thread has freed, two passes over the table
  that agree, operations counted once, no lock left held by a thread that ends
  or waits for its client, every request that is begun answered or its
  connection closed, and one atomic map for all clients;
* main program of the server: every thread on a connection of its own, nobody
  left waiting on a condition that is destroyed, nothing answered out of a table
  that has been freed;
* framing: messages arrive whole, once, in order, however the stream is cut;
* serialization: what is unpacked is what was packed;
* stub: an answer is taken by the call it was made for, and what the user is
  told of it is what the server did;
* client program: what is called is what was typed;
* redundancy: no change of the primary is lost, the address used is one that
  was published, at most one command goes to a server that has been replaced,
  and the client ends up on the last primary.

## Modules

| module | models | notes |
|---|---|---|
| `RWLock` | abstract readers/writers lock | who wants it, who has it |
| `RWMutex` | `access_man.c` | `pc[t]` is the place of thread t; one action per stretch under `control_mutex`; spurious wake-ups |
| `RWMutexProofs` | proofs about `RWMutex` | |
| `TableOps` | answers and effects of the operations, from `table.h` | used by the next three |
| `TableContract` | abstract table with one caller | |
| `HashTable` | `table.c`, `list.c`, `table-private.c` | a chain of nodes per list, `tail` as a memory cell of its own, `malloc` gives out any free cell |
| `HashTableProofs` | proofs about `HashTable` | |
| `KVStore` | abstract store with many clients | request, effect, answer |
| `TableServer` | `network_server.c`, `table_skel.c`, `stats.c` | locks are `RWLock`; shared memory is read and written in as many steps as another thread can tell apart |
| `ServerProcess` | `table_server.c`, the accept loop, `rw_mutex_destroy` | extends `TableServer` by the main thread, the descriptors and the end |
| `TableServerProofs`, `ServerProcessProofs` | proofs about the last two | the second extends the first |
| `MessageChannel` | abstract channel of messages | |
| `Framing` | `message.c` with `network_receive` | a stream of cells, reads and writes of any length, close and reset |
| `FramingProofs` | proofs about `Framing` | |
| `Serialization` | `serialization.c`, `data_create2`, `data_dup` | positions and lengths in the buffers, length bytes with their sign |
| `SerializationProofs` | proofs about `Serialization` | |
| `ClientCall` | `client_stub.c`, `network_client.c`, the calls in `table_client.c` | seven commands and what each makes of an answer, an error, NULL or an empty message, over a connection whose thread may be missing or end and which may break at any moment, whether the server runs or not |
| `ClientProgram` | the loop of `table_client.c` | extends `ClientCall` by `fgets`, the splitting of the line and the chain of commands |
| `ClientProofs` | proofs about the last two | |
| `ClientFailover` | `client_redundancy.c`, `rtable_connect`, `update_rtable_t` | the library's thread and the main thread step by step over the shared buffer |
| `ClientFailoverProofs` | proofs about `ClientFailover` | |
| `MC...` | instances for TLC | values of the constants, symmetry |

How they build on each other. `RWMutex` implements `RWLock` (run `rwmutex`,
theorem `Refinement`), and `TableServer` uses both its locks as `RWLock` allows
(`UsesLocks`); so the server is checked with the abstract
lock and the result carries over to the code's. `HashTable` implements
`TableContract` until a stale tail is written through (`ContractUntilTorn`), so
`TableServer` keeps the table as a map, with the values of `table_put` freed
and stored in two steps (theorem `TableKeepsContract`). `TableServer` in turn
implements `KVStore` (theorem `ServerIsAStore`). `Framing` implements
`MessageChannel` (theorem `IsAChannel`); `TableServer` and `ClientCall` send whole messages.
`ServerProcess` takes every action of
`TableServer` and says when the main thread lets it happen and which descriptor
it uses; `ClientProgram` does the same to `ClientCall` with the lines a user
types. So neither repeats what its base says, and properties of the base are
checked on it (`RequestsComeToAnEnd`, and all of `ClientCall`).

Where an implementation has a condition (stale tails, negative indices, split
headers, long keys) the layer above assumes it and says so here.

Definitions whose comment begins with "Faulty" are what the code would be after
a plausible mistake. They stand before the definition they could replace and no
other definition uses them: with one put in, the property it belongs to fails.

## Runs

| run | instance | checks |
|---|---|---|
| `rwmutex` | 4 threads, any calls, spurious wake-ups | `TypeOK`, `Exclusion`, `CountersExact`, `NoLostWakeup`, `PendingCallsEnd`, `ImplementsRWLock` |
| `hashtable` | 4 keys, 2 lists, 4 cells | `TypeOK`, `MemoryAccounted`, `TornNeedsCollision`, `ContractUntilTorn` |
| `server_safety` | 2 connections, 3 requests of any kind, 2 keys | `TypeOK`, `NoFreedRead`, `SecondPassFits`, `EveryOpCountedOnce`, `StatsAnswerConsistent`, `NoLockLeak`, `UsesLocks`, `ImplementsKVStore` |
| `server_process` | 2 connections, 2 descriptors, 2 requests of DEL and STATS, `accept` and `malloc` may fail at any time | `OwnConnection`, `NoWaiterLeftBehind`, `NoAnswerFromFreedTable`, `RequestsComeToAnEnd` |
| `framing` | 3 messages of 1 to 3 cells, close, reset and failing `malloc` at any point | `TypeOK`, `ReceivedIsSent`, `BufferNotOverrun`, `ImplementsChannel` |
| `serialization` | keys and data of 0 to 500 bytes, dense around 128, 256, 384 | `ShortEntrySurvives`, `ShortValueComesBack`, `ReadsInside` |
| `call` | 3 lines of 21, up to 3 calls, the server's thread, the connection and the input may end | `AnswerIsMine`, `ExecutedOnce`, `AnswersAreShown`, `CommandsAsTyped` |
| `failover` | 3 changes between addresses of two lengths, a buffer that is not cleared, every fault | `TypeOK`, `NewsNotLost`, `WatchStaysSet`, `OneLateCommand`, `FollowsPrimary` |

What they show. The lock, the dispatcher and the statistics do what they are
for in every interleaving of the instances. Some properties have a condition
that is part of the code's behaviour and not of the model:

* `ContractUntilTorn` and `MemoryAccounted` hold until `list_add` writes through
  a stale tail, or an operation goes off the lists;
* `ReceivedIsSent` and `ImplementsChannel` hold until a header comes in pieces
  (`whole`), the `Short` properties up to 127 bytes, `CommandsAsTyped` for lines
  that fit the buffer and end with a newline;
* `NoAnswerFromFreedTable` holds when nobody had `stats_mutex` while it was
  destroyed;
* `AnswerIsMine` holds until a call gives up for want of memory before it has
  read (`skewed`): its answer stays in the connection, and every later call
  takes the answer of the one before. `AnswersAreShown` is about the calls that
  did read their own answer, before and after;
* `RequestsComeToAnEnd` is about the time when no more requests are sent, and
  "an end" is an answer, a closed socket, or the end of the process: a thread
  that has no memory for its answer closes the socket instead (`Send`);
* `WatchStaysSet` and `FollowsPrimary` hold while the znode and the session
  stay. `FollowsPrimary`, `OneLateCommand` and `NewsNotLost` compare the
  connection with what `rtable_connect` makes of the buffer (`Parse`), which is
  the address that was published only if the buffer holds that: it need not
  (`failover_lengths`).

The states beyond each condition are in the state space of the run: other
properties of it are checked there.

These runs fail, each showing a disagreement of the code with what it says of
itself:

| run | property | what happens |
|---|---|---|
| `hashtable_lostput` | `AckedPutIsFound` | `list_remove` does not set `list->tail`; a later `list_add` writes through the freed node and the acknowledged entry is in no list |
| `serialization_long` | `EntrySurvives` | lengths from 128 on do not fit the one signed byte they are given |
| `call_lost` | `DoneMeansExecuted` | on a broken connection an empty message counts as an answer: a put nobody executed is reported as done, also when the server runs and has only closed the socket |
| `failover_lengths` | `BufferHoldsAddress` | `server_info_len` shrinks with every short address and no NUL is written |

The models hold more, which have no run of their own; each can be seen in the
action named:

* a key whose chars add up to a negative sum has the index -1 or the like
  (`Index`, key `k4` of `MCHashTable`), and its list is no list: the operation
  ends the process, or goes on with something harmed (`OffTheLists`);
* a put with an empty value stores NULL and is acknowledged, and the next PRINT
  ends the server (`Measure`);
* a header that arrives in two pieces garbles the stream (`ReadHeader`, and
  `Garble` in `MessageChannel`);
* the deletion of the znode uses up the watch, and nobody watches any more
  (`Deliver`);
* `accept` fails for good when the descriptors are used up, and it takes the
  server with it: threads that are in an operation go into a freed table
  (`AcceptFails`, `OnDestroyedTableLock`, `tainted`), and a connection whose
  thread could not be created keeps its descriptor (`AcceptConnection`);
* a line that does not fit the buffer becomes several commands, and a last line
  without a newline loses a character (`Taken`, `Strip`); after the end of the
  input the loop goes on for ever, or ends the process (`ReadEnd`);
* the client does not close the socket of the server it leaves: a client that
  has seen many changes can open no other (`ReadHostAndConnect`, fault
  `descriptors`);
* a connection without a thread, or whose thread ended with the socket open, is
  one on which a client waits for ever: there is no timeout (`ThreadEnds` and
  `Init` of `ClientCall`, `Accept` of `TableServer`);
* a call that fails in `read_all` for want of memory leaves its answer to the
  next one (`ReadNoMemory`).

### Bounds

* Lock: the conditions read two counters and one condition variable; with four
  threads two readers and two writers wait and enter in every order. The
  theorems hold for every finite set of threads.
* Table: two keys in one list, a third alone in another, and a fourth without
  one; four cells so that a freed node is reused by either list, or by none,
  and so that nodes that were lost use the memory up.
  Data blocks are values and not cells: `MemoryAccounted` is about nodes.
* Server, `MaxRequests`: three requests of both clients together are two
  operations side by side with one before, between or after them: an entry to
  replace, an operation to be counted while another one is, statistics to read
  in between. Two keys, so that an operation on one can run beside an operation
  on the other and the two passes of GETKEYS could see half of two changes. The
  safety run uses the symmetry of the connections; no property of it names one.
  The run of the process does not, for it checks liveness.
* Process, `MaxFds`: two descriptors for two connections are enough to be used
  up, to be closed in either order and to be given out again. Two requests put
  one thread at every place of an operation, or into the wait for a lock the
  other one holds, while the main thread destroys; DEL takes both locks as a
  writer and STATS the second as a reader, so either may have to wait. What the operations do to the table is checked in `server_safety`.
* Framing, `MaxMessages`: a header of two cells can be split in one way; bodies
  of up to three can be cut twice; three messages give one that is complete, one
  in the middle and one behind.
* Serialization: sizes for which the length byte is faithful, and a
  neighbourhood of each size where it is not; 510 is what the client's line
  holds. The theorems hold for all sizes.
* Client, `MaxCalls` and `MaxLines`: three calls let one fail, a second one take
  what the first left, and a third one what the second left; three lines are as
  many calls, or two when one of them is cut in two. `RespSize` is 8:
  six cells and the newline fit, which holds a complete put with a space in its
  value. The lines are complete commands, missing and empty operands, spaces too
  many, words that are none, and two that do not fit.
* Failover, `MaxChanges`: three changes of the primary let a second and third
  notification fall into the handling of the first. An address is a host and one
  or two digits of a port. The addresses are not equally long, and each cell of
  the buffer may hold a digit or a NUL at first (`Dirty`), for nobody clears it;
  two of the three have the same host, so that an address read in two halves, or
  with the rest of a longer one behind it, can be one that exists.
  `failover_lengths` needs two addresses and a clear buffer only.

### Fairness

Weak fairness everywhere.

* `RWMutex`: of the steps of every thread inside a call (`WF_vars(Step(t))`). A
  caller that holds the lock gives it back: `invoke` has no return between lock
  and unlock. The mutex is not fair, so `PendingCallsEnd` is about the calls of
  threads that make no new ones: from then on they finish one after the other.
* `TableServer`: of the steps of every thread between a request and its answer.
  None for clients (they may stay away) and none for `accept` and `malloc` (they
  may fail for ever, or never).
* `ServerProcess`: the same threads, from their creation on, and the main thread
  once `accept` has failed. Weak fairness does not bring a writer into a lock
  that readers overlap in for ever (`access_man.c:39`), so `RequestsComeToAnEnd`
  has the hypothesis `NoMoreRequests`; it is part of the formula, and not only a
  consequence of `MaxRequests`.
* `Framing`: a `write_all` or a reader's loop that has begun goes on. The writer
  need not begin a message, nor the connection break.
* `ClientCall`, `ClientProgram`: none, and no claim that a call comes back. The
  server accepts connections for which it then has no thread, a thread may end
  with the socket open, a writer may starve, and the client has no timeout.
* `ClientFailover`: both threads run, the session comes up, and the user goes on
  typing: the client looks at `new` only between commands, so a user who stops
  stays on the old server.

A reader that always comes before the last one leaves starves a writer
(`access_man.c:39`); nothing here claims otherwise.

### What is assumed of libraries

`pthread_mutex_destroy` gives EBUSY while a thread has the mutex or waits on a
condition with it, and a destroyed mutex can be neither locked nor unlocked, as
in glibc; POSIX leaves both undefined. `accept` gives out the lowest free
descriptor. `malloc` gives out any free cell. The ZooKeeper library calls
watchers one after the other on a thread of its own, a watch once.

## Proofs

`RWMutexProofs`, for every finite set of threads (`ThreadsAssumption`: finite,
and `NoThread` is no thread):

* `InductiveInvariant`: `Spec => []IInv`. `Exclusion` is not inductive: `Enter`
  looks at the counters, not at the threads, so the counters have to be the
  numbers of threads inside; they stay so because a thread that decrements is
  counted (`OwnerActs`, `ModeFollowsCall`); and a thread counts as inside from
  `Enter` until `Drop`, a wider interval than the caller sees (`WriterAlone`).
  `NoLostWakeup` needs that broadcasts empty the wait set in the step that
  changes a counter. The proof has a lemma per action over the lemmas on
  cardinalities of `Inside(m)`.
* `TypeCorrect`, `MutualExclusion`, `CountersAreExact`, `NoWakeupIsLost` follow
  from it; each is the property of a run.
* `Refinement`: `Spec => ImplementsRWLock`, step by step, for the safety part of
  the abstract lock that `ImplementsRWLock` states.

`HashTableProofs`, for every set of keys and values, every number of lists,
every hash and every memory:

* `IInvAlways`: `Spec => []IInv`. The properties of the table are about the
  time until a list is torn, and so is most of the invariant (`WhileWhole`): the
  nodes of all lists are apart in keys and in cells (`Apart`), each is in the
  list of its key (`AtHome`), no cell of a node is free (`UsedIsNotFree`), and a
  list whose tail is stale is one of two keys (`Shared`). The last part is what
  makes `TornNeedsCollision` inductive: `list_remove` leaves the tail stale only
  when it takes the last of several nodes, so the list has two keys already. The
  invariant was checked on the instance of `hashtable`.
* `TableKeepsContract`: each step is one of `TableContract`, with the map the
  chains make up (`Holds`, `Entries`), or none. `FindKey` says where the walk
  along a list ends, `RemoveProperties` what a removal leaves, and `AppendHolds`,
  `ReplaceHolds`, `RemoveHolds` what the three changes do to the map;
  `AllNodesVisited` and `KeysAreStored` are about the walk over all lists that
  `table_get_keys` takes, `FlattenJoins` about the concatenation it builds.
* `NoNodeLeaks`: the cells in the nodes are the ones `malloc` gave out, each in
  one node. `TornByCollision`, `HashTableTypes`.

`SerializationProofs`:

* `ReadsStayInside`: for keys and data of every size nothing beyond the message
  is read. The lemma `LengthByte` says a length byte never exceeds the length it
  was made of; the invariant carries that through both directions.
* `ShortEntryComesThrough`, `ShortValueIsShown`: an entry whose key and data
  have at most 127 bytes arrives whole and comes back with its length, whatever
  other sizes there are. The invariant (`ShortInv`) keeps that both length bytes
  equal the lengths until they are read; `serialization_long` shows that the
  bound is sharp.

`TableServerProofs`, for any set of connections, keys and values (`Conns` and
`Keys` may be infinite) and any number of requests:

* `InductiveInvariant`: `Spec => []IInv`. `LocksFit` says at which places of
  `invoke` a thread holds which lock and in which mode, `WriterAlone` is
  exclusion. That `NoFreedRead` survives a step needs both, and
  `FreedIsReplaced`: a freed value belongs to a thread between the two steps of
  its put, at a key that is its own. `SecondPassFits` says that the second pass
  finds the entries of the first, keys and data and not only as many; it needs
  that nobody can change the table while a thread is between its passes
  (`ChangerAlone`, a lemma on the locks). `Basic` adds the types, that at most finitely many keys are
  stored, which operation a thread is in at which place (`PlacesFit`), and that a
  client sends nothing while it waits (`Synchronous`).
* `TypeCorrect`, `NoFreedDataIsRead`, `SecondPassIsSafe` and `NoLockIsLeaked`
  follow from it, and `LocksAreUsedRight` (`UsesLocks`) is shown step by step:
  a step of the server is a step of `RWLock` for one of the locks, and none for
  the other. With `Refinement` of `RWMutexProofs` this joins the server to the
  lock of the code.
* `ServerIsAStore`: `Spec => ImplementsKVStore`. A request takes effect in the
  step of `invoke` that reads or changes the table; a put of a key that is there
  in the step that frees the old data: from then on the map has the new value
  (`Map`), though the table gets it a step later. `PendingOf` says from a
  thread's place whether its request has taken effect. `Passes` adds to the
  invariant what a thread has in hand between the passes and behind them.
  Hypothesis `FewKeys`: from 256 keys on the answer
  to SIZE is modulo 256 and the theorem is false.
* `NoOpIsLost`, `StatsAnswersAgree`, for a finite set of connections: the total
  and the counters are sums over connections, written as the number of pairs of
  a connection and a number up to its counter, so that a step that counts adds
  one element to a finite set. `CountInv` says by how much each of them lags
  behind, by the places of the threads in `update_stats`; that one thread at
  most is there comes from `IInv`.

`ServerProcessProofs`, for any number of descriptors:

* `ProcessInvariant`: `ProcessSpec => []PInv`. `ProcessSpec` is not a
  refinement of `Spec`, for a thread may go on in a freed table; so the lemmas
  about the steps of a thread are used again, for the types only. `HandedOver`
  says that an open descriptor a thread was given stands for its connection
  alone; it survives because `accept` gives out a free one (`MinIsFree`, a
  minimum of any non-empty set of naturals). `DestroyedInOrder` relates what is
  left to destroy to what is gone, and `TaintedStopShort` keeps those who used
  the freed table on the near side of `stats_mutex`.
* `ThreadsKeepTheirConnections`, `NobodyIsLeftWaiting`, `FreedTableStaysInside`.

`FramingProofs`, for messages of any sizes, any length of the header and any
number of messages:

* `BufferIsNotOverrun`: a loop that has not ended wants at least one cell, and a
  read never gives more than it is asked for (`ReadInv`), whatever size a
  garbled header gave.
* `WhatIsReceivedWasSent`: the stream is what remains of the messages sent
  (`Flows`), and the reader's place in it is that of the next message: the
  stream begins with its header, or with the cell behind those already read
  (`AtHead`, `InBody`, `AtEnd`). `Flows` is about any two cells and not about
  neighbours: then the cell after the ones a read takes out is known without an
  induction over them.
* `IsAChannel`: every step is one of `MessageChannel` or none; the safety part
  of `ImplementsChannel`.
* `FramingTypes`, for sizes with a bound (a size is an `unsigned`): that they
  have a maximum (`MaxSizeIs`), and what is taken for a size or gathered of a
  body stays below it.

`ClientProofs`, for any number of calls and any lines:

* `InductiveInvariant`: the client sends once in a call, and leaves it with the
  answer, without one on a broken connection, or before it has read anything.
  What was executed and what may still be is of different calls and in their
  order (`InOrder`, `UpToNow`), which is all that `ExecutedOnce` needs and stays
  true when a request is executed after its call is over. `OneUnderWay` is the
  stronger statement for the time in which every call has taken its answer; on a
  broken connection requests may be left over, but no answer to them can come.
  `Genuine` ties an answer to the execution it came from, and `HeardShown` what
  was printed to the answers that were read.
* `AnswersGoToTheirCalls`, `NothingExecutedTwice`, `AnswersAreReported`.
* `ProgramKeepsCalls`, `ProgramCallsAreRight`: the same for the whole program
  and any lines. `StepsAreCalls` shows that every step of the program is a step
  of `ClientCall` or leaves its variables alone.
* `LinesAreCommands`: a line that fits into `com` is one command with the operands
  as typed, for every set of lines (sequences over any alphabet). `LineInv` says
  that between commands such a line is unread or read as a whole; `LineIsTaken`
  is what `fgets` and the cut leave of it, and `SplitIs` what the loop makes of
  any line. The loop is a fold of the library: `SplitScans` unfolds it into the
  places it passes through, and `ScanStands` says, for each length of what was
  read, how many operands have ended and where.

`ClientFailoverProofs`, for any addresses and any number of changes:

* `NoNewsIsLost`: the flag may be set before the buffer is complete, and cleared
  while it is written, so the invariant (`NewsInv`) has a part for every place
  of the main thread between the clear and the use of the connection, whenever
  the library's thread is at rest.
* `WatchIsNotLost`: by the places at which the library's thread has taken a
  notification and not yet called `zoo_wget`.
* `AtMostOneLate`, for addresses of any lengths and any contents of the buffer:
  whatever the copy leaves in the buffer, it does so before it sets `new`, and a
  late command sets the client reading the buffer before the next (`LateInv`).
* `TypeCorrect`: `server_info_len` stays inside the buffer.

Assumed of the constants is only what the `ASSUME` of each module says, and
TLC checks it on every instance.

Every invariant the runs check is a theorem. Only model-checked:

* All liveness (`PendingCallsEnd`, `RequestsComeToAnEnd`, `FollowsPrimary`, and that a message begun arrives, which is a part of
  `ImplementsChannel`): it rests on fairness and `ENABLED`, which the prover does
  not handle.

## Not modelled

* Generated protocol-buffer code; `message_t__unpack` gives the message packed,
  NULL, or some message for bytes that are none.
* `print_stats`: terminal output. The text of PRINT
  is the set of pairs, without its layout.
* The running average of the statistics: a floating-point value nothing depends
  on.
* `malloc` that fails where the code does not look at it. Where it does, the
  branch is in a model: `network_server.c:116` and `158`, `table_skel.c:152`,
  `message.c:19`, `network_client.c:58`, and a `message_t__unpack` that returns
  NULL. Of the others only two are modelled, the body of a message
  (`message.c:26`, in `Framing` and as a thread that closes its socket in
  `TableServer`) and a node of a list (`list.c:52`, `Put`). A client whose body
  has no memory, and reads the rest of an answer as the next size, is not.
* Memory that fails in `message_t__unpack` is in `TableServer` (`ReceiveFails`)
  and `ClientCall` (`ReadAnswer`), not in `Framing`.
* `close_redundancy_manager`, `table_print`, `list_get_keys` and `list_print`, which nobody
  calls in the running programs.
* Memory that is never freed (requests, answers, the old `rtable`).
* The layout of the bytes of a GETKEYS answer; that its first byte is the number
  of entries modulo 256 is in `TableServer`, with instances far below that.

## Plan

1. The composition of the theorems as one statement: `RWMutex` under
   `TableServer`, with the steps of `access_man.c` in the place of `RWLock`.
2. That the condition `whole` of `Framing` holds when headers are not cut, as a
   theorem about a writer that sends one message at a time.
3. A composition of `ClientCall` with `ClientFailover`: what a user may conclude
   from an answer when the primary changes between two commands.
