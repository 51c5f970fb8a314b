---------------------------- MODULE Serialization -----------------------------
(***************************************************************************)
(* serialization.c on the way of one value: the client packs an entry for  *)
(* PUT, the server unpacks and stores it; a GET packs the data for the way *)
(* back, and the client unpacks them.                                      *)
(*                                                                         *)
(* What matters of a buffer is where things are: a piece of it is a        *)
(* position and a length.  Every length is written into one byte, a char,  *)
(* which is signed, though four bytes are reserved for it.                 *)
(***************************************************************************)
EXTENDS Integers

CONSTANTS
  KeySizes,   \* the sizes keys may have, with the NUL at the end
  DataSizes   \* the sizes data may have

ASSUME SizesAssumption == KeySizes \subseteq Nat \ {0} /\ DataSizes \subseteq Nat

SizeofInt == 4

\* An int assigned to a char.
ToChar(n) == ((n + 128) % 256) - 128

Piece(at, len) == [at |-> at, len |-> len]

VARIABLES
  stage,    \* "typed", "sent", "unpacked", "stored", "answered", "shown"; or
            \* "refused", "crashed"
  entry,    \* the client's entry: the sizes of its key and its data
  wire,     \* the message on its way: its size, and its length bytes
  key,      \* the piece of the request the server takes for the key
  value,    \* the piece of the request the server takes for the data
  shown     \* the piece of the answer the client takes for the data

vars == <<stage, entry, wire, key, value, shown>>

Init ==
  /\ stage = "typed"
  /\ entry \in [ksize : KeySizes, dsize : DataSizes]
  /\ wire = [size |-> 0, kbyte |-> 0, dbyte |-> 0]
  /\ key = Piece(0, 0) /\ value = Piece(0, 0) /\ shown = Piece(0, 0)

\* Faulty: the two length bytes in one another's place.
EntryToBufferSwapped ==
  /\ stage = "typed"
  /\ wire' = [size  |-> 2 * SizeofInt + entry.ksize + entry.dsize,
              kbyte |-> ToChar(entry.dsize),
              dbyte |-> ToChar(entry.ksize)]
  /\ stage' = "sent"
  /\ UNCHANGED <<entry, key, value, shown>>

\* Faulty: the NUL of the key is counted twice in its length.
EntryToBufferLong ==
  /\ stage = "typed"
  /\ wire' = [size  |-> 2 * SizeofInt + entry.ksize + entry.dsize,
              kbyte |-> ToChar(entry.ksize + 1),
              dbyte |-> ToChar(entry.dsize)]
  /\ stage' = "sent"
  /\ UNCHANGED <<entry, key, value, shown>>

\* entry_to_buffer: two lengths, the key with its NUL, the data.
EntryToBuffer ==
  /\ stage = "typed"
  /\ wire' = [size  |-> 2 * SizeofInt + entry.ksize + entry.dsize,
              kbyte |-> ToChar(entry.ksize),
              dbyte |-> ToChar(entry.dsize)]
  /\ stage' = "sent"
  /\ UNCHANGED <<entry, key, value, shown>>

\* buffer_to_entry: the size it is given is not looked at.  malloc and memcpy
\* of a negative size end the process.
BufferToEntry ==
  /\ stage = "sent"
  /\ IF wire.kbyte < 0 \/ wire.dbyte < 0
     THEN stage' = "crashed" /\ UNCHANGED <<key, value>>
     ELSE /\ stage' = "unpacked"
          /\ key' = Piece(2 * SizeofInt, wire.kbyte)
          /\ value' = Piece(2 * SizeofInt + wire.kbyte, wire.dbyte)
  /\ UNCHANGED <<entry, wire, shown>>

\* table_put: strdup of the key, which needs the NUL: a key that was cut is
\* read on past its memory.  data_create2 makes NULL of empty data.
StoreEntry ==
  /\ stage = "unpacked"
  /\ stage' \in {"stored"} \union {s \in {"crashed"} : key.len < entry.ksize}
  /\ UNCHANGED <<entry, wire, key, value, shown>>

\* A GET of the key the server has: no data, no answer; else data_to_buffer.
DataToBuffer ==
  /\ stage = "stored"
  /\ IF value.len = 0
     THEN stage' = "refused" /\ UNCHANGED wire
     ELSE /\ stage' = "answered"
          /\ wire' = [size |-> SizeofInt + value.len, kbyte |-> 0, dbyte |-> ToChar(value.len)]
  /\ UNCHANGED <<entry, key, value, shown>>

\* buffer_to_data, in the client.
BufferToData ==
  /\ stage = "answered"
  /\ IF wire.dbyte < 0
     THEN stage' = "crashed" /\ UNCHANGED shown
     ELSE stage' = "shown" /\ shown' = Piece(SizeofInt, wire.dbyte)
  /\ UNCHANGED <<entry, wire, key, value>>

Next == EntryToBuffer \/ BufferToEntry \/ StoreEntry \/ DataToBuffer \/ BufferToData

Spec == Init /\ [][Next]_vars

-----------------------------------------------------------------------------
(* serialization.c:71-75: buffer_to_entry unpacks the message into an       *)
(* entry.  So it is the entry that was packed: the server finds the key and *)
(* the data where the client put them, whole.                               *)
EntrySurvives ==
  stage \notin {"typed", "sent"} =>
    /\ stage # "crashed"
    /\ key = Piece(2 * SizeofInt, entry.ksize)
    /\ value = Piece(2 * SizeofInt + entry.ksize, entry.dsize)

\* Lengths that a char holds.
Short == entry.ksize <= 127 /\ entry.dsize <= 127

(* A short entry is unpacked whole.                                         *)
ShortEntrySurvives == Short => EntrySurvives

(* What the client shows of a GET is as long as what it typed for the PUT   *)
(* of a short entry, and a value that is not empty is found.                *)
ShortValueComesBack ==
  Short =>
    /\ stage = "shown" => shown = Piece(SizeofInt, entry.dsize)
    /\ stage = "refused" => entry.dsize = 0

(* However the lengths were cut down to a byte, unpacking reads nothing     *)
(* beyond the message that arrived, although the size of the message is not *)
(* looked at: a byte never stands for more than the length it was made of.  *)
ReadsInside ==
  /\ stage \in {"unpacked", "stored"} => value.at + value.len <= wire.size
  /\ stage = "shown" => shown.at + shown.len <= wire.size
=============================================================================
