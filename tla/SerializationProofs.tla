------------------------- MODULE SerializationProofs --------------------------
(***************************************************************************)
(* Proofs about Serialization: what a length byte keeps of a length, that  *)
(* unpacking stays inside the message for lengths of every size, and that  *)
(* a short entry arrives and comes back whole.                             *)
(***************************************************************************)
EXTENDS Serialization, TLAPS

(* A length byte is an integer, never more than the length it was made of,  *)
(* and equal to it up to 127.                                               *)
LEMMA LengthByte ==
  ASSUME NEW n \in Nat
  PROVE  /\ ToChar(n) \in Int
         /\ ToChar(n) <= n
         /\ n <= 127 => ToChar(n) = n
  BY DEF ToChar

Pieces == [at : Nat, len : Nat]
Wires == [size : Nat, kbyte : Int, dbyte : Int]
Entries == [ksize : Nat, dsize : Nat]

\* The message is the packed entry, with lengths that may be too short.
Packed ==
  stage = "sent" =>
    /\ wire.size = 2 * SizeofInt + entry.ksize + entry.dsize
    /\ wire.kbyte <= entry.ksize
    /\ wire.dbyte <= entry.dsize

\* The same for the answer and the value it was made of.
Answered ==
  stage = "answered" =>
    /\ wire.size = SizeofInt + value.len
    /\ wire.dbyte <= value.len

IInv ==
  /\ entry \in Entries /\ wire \in Wires
  /\ value \in Pieces /\ shown \in Pieces
  /\ Packed
  /\ Answered
  /\ ReadsInside

LEMMA IInvInit == Init => IInv
<1> SUFFICES ASSUME Init
             PROVE  IInv
  OBVIOUS
<1>1. entry \in Entries
  BY SizesAssumption DEF Init, Entries
<1>2. wire \in Wires /\ value \in Pieces /\ shown \in Pieces
  BY DEF Init, Wires, Pieces, Piece
<1>3. Packed /\ Answered /\ ReadsInside
  BY DEF Init, Packed, Answered, ReadsInside
<1> QED
  BY <1>1, <1>2, <1>3 DEF IInv

LEMMA IInvNext == IInv /\ [Next]_vars => IInv'
<1> SUFFICES ASSUME IInv, [Next]_vars
             PROVE  IInv'
  OBVIOUS
<1> USE DEF IInv, Entries, Wires, Pieces, Packed, Answered, ReadsInside, Piece, SizeofInt
<1>1. CASE EntryToBuffer
  <2>1. entry.ksize \in Nat /\ entry.dsize \in Nat
    OBVIOUS
  <2>2. /\ ToChar(entry.ksize) \in Int /\ ToChar(entry.ksize) <= entry.ksize
        /\ ToChar(entry.dsize) \in Int /\ ToChar(entry.dsize) <= entry.dsize
    BY <2>1, LengthByte
  <2> QED
    BY <1>1, <2>1, <2>2 DEF EntryToBuffer
<1>2. CASE BufferToEntry
  BY <1>2 DEF BufferToEntry
<1>3. CASE StoreEntry
  BY <1>3 DEF StoreEntry
<1>4. CASE DataToBuffer
  <2>1. value.len \in Nat
    OBVIOUS
  <2>2. ToChar(value.len) \in Int /\ ToChar(value.len) <= value.len
    BY <2>1, LengthByte
  <2> QED
    BY <1>4, <2>1, <2>2 DEF DataToBuffer
<1>5. CASE BufferToData
  BY <1>5 DEF BufferToData
<1>6. CASE UNCHANGED vars
  BY <1>6 DEF vars
<1> QED
  BY <1>1, <1>2, <1>3, <1>4, <1>5, <1>6 DEF Next

(* For keys and data of every size, unpacking reads nothing beyond the      *)
(* message: serialization.c never looks at the size of the buffer it is     *)
(* given, and does not need to for the messages it packs itself.            *)
THEOREM ReadsStayInside == Spec => []ReadsInside
<1>1. IInv => ReadsInside
  BY DEF IInv
<1> QED
  BY IInvInit, IInvNext, <1>1, PTL DEF Spec

-----------------------------------------------------------------------------
\* The stages of a short entry.
ShortInv ==
  Short =>
    /\ stage \in {"typed", "sent", "unpacked", "stored", "refused", "answered", "shown"}
    /\ stage = "sent" => wire.kbyte = entry.ksize /\ wire.dbyte = entry.dsize
    /\ stage = "answered" => wire.dbyte = entry.dsize

FInv ==
  /\ entry \in Entries
  /\ ShortInv
  /\ ShortEntrySurvives
  /\ ShortValueComesBack

LEMMA FInvInit == Init => FInv
<1> SUFFICES ASSUME Init
             PROVE  FInv
  OBVIOUS
<1>1. entry \in Entries
  BY SizesAssumption DEF Init, Entries
<1>2. ShortInv /\ ShortEntrySurvives /\ ShortValueComesBack
  BY DEF Init, ShortInv, ShortEntrySurvives, EntrySurvives, ShortValueComesBack
<1> QED
  BY <1>1, <1>2 DEF FInv

LEMMA FInvNext == FInv /\ [Next]_vars => FInv'
<1> SUFFICES ASSUME FInv, [Next]_vars
             PROVE  FInv'
  OBVIOUS
<1>1. entry' = entry
  BY DEF Next, EntryToBuffer, BufferToEntry, StoreEntry, DataToBuffer, BufferToData, vars
<1>2. entry' \in Entries /\ (Short' <=> Short)
  BY <1>1 DEF FInv, Short
<1>3. CASE ~ Short
  BY <1>2, <1>3 DEF FInv, ShortInv, ShortEntrySurvives, ShortValueComesBack
<1>4. CASE Short
  <2> USE <1>4 DEF FInv, ShortInv, ShortEntrySurvives, ShortValueComesBack,
                   EntrySurvives, Piece, SizeofInt
  <2>1. /\ entry.ksize \in Nat /\ entry.ksize <= 127 /\ ToChar(entry.ksize) = entry.ksize
        /\ entry.dsize \in Nat /\ entry.dsize <= 127 /\ ToChar(entry.dsize) = entry.dsize
    BY LengthByte DEF Entries, Short
  <2>2. CASE EntryToBuffer
    BY <1>2, <2>1, <2>2 DEF EntryToBuffer
  <2>3. CASE BufferToEntry
    BY <1>2, <2>1, <2>3 DEF BufferToEntry
  <2>4. CASE StoreEntry
    BY <1>2, <2>1, <2>4 DEF StoreEntry
  <2>5. CASE DataToBuffer
    <3>1. value.len = entry.dsize
      BY <2>5 DEF DataToBuffer
    <3> QED
      BY <1>2, <2>1, <2>5, <3>1 DEF DataToBuffer
  <2>6. CASE BufferToData
    BY <1>2, <2>1, <2>6 DEF BufferToData
  <2>7. CASE UNCHANGED vars
    BY <1>2, <2>7 DEF vars
  <2> QED
    BY <2>2, <2>3, <2>4, <2>5, <2>6, <2>7 DEF Next
<1> QED
  BY <1>3, <1>4

(* An entry whose key, with its NUL, and whose data have at most 127 bytes  *)
(* reaches the server whole.  The bound is the largest: the run             *)
(* serialization_long passes it and loses the entry.                        *)
THEOREM ShortEntryComesThrough == Spec => []ShortEntrySurvives
<1>1. FInv => ShortEntrySurvives
  BY DEF FInv
<1> QED
  BY FInvInit, FInvNext, <1>1, PTL DEF Spec

(* The value of such an entry comes back to a GET with its whole length.    *)
THEOREM ShortValueIsShown == Spec => []ShortValueComesBack
<1>1. FInv => ShortValueComesBack
  BY DEF FInv
<1> QED
  BY FInvInit, FInvNext, <1>1, PTL DEF Spec
=============================================================================
