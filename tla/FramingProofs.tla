---------------------------- MODULE FramingProofs -----------------------------
(***************************************************************************)
(* Proofs about Framing, for messages of every size, a header of every     *)
(* length and any number of messages: what is received is what was sent,   *)
(* and the loop of read_all does not leave its buffer.                     *)
(***************************************************************************)
EXTENDS Framing, SequenceTheorems, WellFoundedInduction, TLAPS

\* A cell, and the cells there are.
Cell(n, part, at) == [msg |-> n, part |-> part, at |-> at]
Parts == {"head", "body"}
AllCells == [msg : Nat, part : Parts, at : Nat]

\* How many cells the part of a message has that the cell belongs to.
PartLen(c, sz) == IF c.part = "head" THEN HeadLen ELSE sz[c.msg]

\* The cell that begins what follows that part.
After(c) ==
  IF c.part = "head" THEN Cell(c.msg, "body", 1) ELSE Cell(c.msg + 1, "head", 1)

\* The cells of a stream, as they follow each other.  The first conjunct says
\* what they are, the second that a part is not interrupted, the third what
\* comes after it.  All of them speak of any two cells, not of neighbours, so
\* that what a read takes out is known at once.
Flows(s, sz) ==
  /\ \A i \in 1 .. Len(s) :
       s[i] \in AllCells /\ s[i].msg \in 1 .. Len(sz) /\ s[i].at \in 1 .. PartLen(s[i], sz)
  /\ \A i, j \in 1 .. Len(s) :
       i <= j /\ j - i <= PartLen(s[i], sz) - s[i].at
         => s[j] = Cell(s[i].msg, s[i].part, s[i].at + j - i)
  /\ \A i, j \in 1 .. Len(s) :
       j - i = PartLen(s[i], sz) - s[i].at + 1 => s[j] = After(s[i])

\* Sequences of sizes.
SizeSeqs == Seq(Nat \ {0})

LEMMA HeadLenIs == HeadLen \in Nat /\ HeadLen > 0
  BY FramingAssumption

LEMMA PartLenIs ==
  ASSUME NEW sz \in SizeSeqs, NEW c \in AllCells, c.msg \in 1 .. Len(sz)
  PROVE  PartLen(c, sz) \in Nat
BY HeadLenIs DEF PartLen, SizeSeqs

LEMMA CellsAre ==
  ASSUME NEW n \in Nat, NEW part \in Parts, NEW first \in Nat, NEW last \in Nat,
         first <= last + 1
  PROVE  /\ Cells(n, part, first, last) \in Seq(AllCells)
         /\ Len(Cells(n, part, first, last)) = last - first + 1
         /\ \A i \in 1 .. last - first + 1 :
              Cells(n, part, first, last)[i] = Cell(n, part, first + i - 1)
BY DEF Cells, Cell, AllCells, Parts

\* A piece cut out of a stream flows like the stream.
LEMMA PieceFlows ==
  ASSUME NEW sz \in SizeSeqs, NEW s \in Seq(AllCells), NEW t \in Seq(AllCells),
         Flows(s, sz), NEW k \in Nat, Len(t) + k <= Len(s),
         \A i \in 1 .. Len(t) : t[i] = s[i + k]
  PROVE  Flows(t, sz)
<1>1. \A i \in 1 .. Len(t) : i + k \in 1 .. Len(s)
  OBVIOUS
<1>2. \A i \in 1 .. Len(t) :
        t[i] \in AllCells /\ t[i].msg \in 1 .. Len(sz) /\ t[i].at \in 1 .. PartLen(t[i], sz)
  BY <1>1 DEF Flows
<1>3. ASSUME NEW i \in 1 .. Len(t), NEW j \in 1 .. Len(t)
      PROVE  /\ i <= j /\ j - i <= PartLen(t[i], sz) - t[i].at
                  => t[j] = Cell(t[i].msg, t[i].part, t[i].at + j - i)
             /\ j - i = PartLen(t[i], sz) - t[i].at + 1 => t[j] = After(t[i])
  <2> DEFINE a == i + k
             b == j + k
  <2>1. a \in 1 .. Len(s) /\ b \in 1 .. Len(s) /\ b - a = j - i
    BY <1>1
  <2>2. t[i] = s[a] /\ t[j] = s[b]
    OBVIOUS
  <2>3. s[a] \in AllCells /\ s[a].msg \in 1 .. Len(sz) /\ s[a].at \in Nat
    BY <2>1 DEF Flows, AllCells, Parts
  <2>4. /\ a <= b /\ b - a <= PartLen(s[a], sz) - s[a].at
             => s[b] = Cell(s[a].msg, s[a].part, s[a].at + b - a)
        /\ b - a = PartLen(s[a], sz) - s[a].at + 1 => s[b] = After(s[a])
    BY <2>1 DEF Flows
  <2>5. s[a].at + b - a = s[a].at + j - i /\ (a <= b <=> i <= j)
    BY <2>3
  <2> HIDE DEF a, b
  <2> QED
    BY <2>1, <2>2, <2>4, <2>5
<1> QED
  BY <1>2, <1>3 DEF Flows

\* One more message in sizes changes nothing for the cells there are.
LEMMA MoreSizes ==
  ASSUME NEW sz \in SizeSeqs, NEW x \in Nat \ {0}, NEW s \in Seq(AllCells), Flows(s, sz)
  PROVE  Flows(s, Append(sz, x))
<1> DEFINE sy == Append(sz, x)
<1>1. Len(sy) = Len(sz) + 1 /\ \A n \in 1 .. Len(sz) : sy[n] = sz[n]
  BY DEF SizeSeqs
<1>2. Len(sz) \in Nat
  BY DEF SizeSeqs
<1> HIDE DEF sy
<1>3. \A i \in 1 .. Len(s) : PartLen(s[i], sy) = PartLen(s[i], sz)
  BY <1>1 DEF PartLen, Flows
<1>4. \A i \in 1 .. Len(s) :
        s[i] \in AllCells /\ s[i].msg \in 1 .. Len(sy) /\ s[i].at \in 1 .. PartLen(s[i], sy)
  BY <1>1, <1>2, <1>3 DEF Flows
<1>5. \A i, j \in 1 .. Len(s) :
        i <= j /\ j - i <= PartLen(s[i], sy) - s[i].at
          => s[j] = Cell(s[i].msg, s[i].part, s[i].at + j - i)
  BY <1>3 DEF Flows
<1>6. \A i, j \in 1 .. Len(s) :
        j - i = PartLen(s[i], sy) - s[i].at + 1 => s[j] = After(s[i])
  BY <1>3 DEF Flows
<1>7. Flows(s, sy)
  BY <1>4, <1>5, <1>6 DEF Flows
<1> QED
  BY <1>7 DEF sy

\* What the cell c is followed by.
Successor(c, sz) ==
  IF c.at < PartLen(c, sz) THEN Cell(c.msg, c.part, c.at + 1) ELSE After(c)

\* Arithmetic on places of cells: a part of P cells, of which k are written
\* behind the place L, has no cell at its place P + 1.
LEMMA NoSuchPlace ==
  ASSUME NEW first \in Nat, NEW k \in Nat, NEW P \in Nat, NEW L \in Nat,
         NEW d \in Nat, NEW i \in Nat, NEW j \in Nat,
         first + k - 1 <= P, j <= L + k, first = d + L - i + 1
  PROVE  j - i # P - d + 1
OBVIOUS

\* And the first cell behind a part that ends at the place L is at L + 1.
LEMMA NextPlace ==
  ASSUME NEW d \in Nat, NEW q \in Nat, NEW i \in Nat, NEW j \in Nat, NEW L \in Nat,
         j - i = q - d + 1, ~ (d + L - i < q), j > L
  PROVE  j = L + 1
OBVIOUS

\* The cell that is written next continues the last one of the stream.
Continues(s, sz, c) == s # <<>> => Successor(s[Len(s)], sz) = c

\* A stream goes on flowing when what is written continues its last cell.
LEMMA LongerFlows ==
  ASSUME NEW sz \in SizeSeqs, NEW s \in Seq(AllCells), NEW t \in Seq(AllCells), Flows(s, sz),
         NEW n \in 1 .. Len(sz), NEW part \in Parts,
         NEW first \in Nat, 0 < first, NEW k \in Nat,
         first + k - 1 <= PartLen(Cell(n, part, first), sz),
         Len(t) = Len(s) + k,
         \A i \in 1 .. Len(s) : t[i] = s[i],
         \A i \in 1 .. k : t[Len(s) + i] = Cell(n, part, first + i - 1),
         Continues(s, sz, Cell(n, part, first))
  PROVE  Flows(t, sz)
<1> DEFINE L == Len(s)
           P == PartLen(Cell(n, part, first), sz)
<1>1. L \in Nat /\ P \in Nat /\ Len(t) = L + k
  <2>1. Cell(n, part, first) \in AllCells /\ Cell(n, part, first).msg = n
    BY DEF Cell, AllCells, Parts, SizeSeqs
  <2> QED
    BY <2>1, PartLenIs
<1>2. \A i \in 1 .. L : /\ t[i] = s[i] /\ s[i] \in AllCells
                        /\ s[i].msg \in 1 .. Len(sz) /\ s[i].at \in 1 .. PartLen(s[i], sz)
                        /\ PartLen(s[i], sz) \in Nat
  BY PartLenIs DEF Flows
<1>3. ASSUME NEW i \in 1 .. Len(t), i > L
      PROVE  /\ t[i] = Cell(n, part, first + i - L - 1)
             /\ t[i].msg = n /\ t[i].part = part /\ t[i].at = first + i - L - 1
             /\ t[i] \in AllCells /\ PartLen(t[i], sz) = P
  <2>1. i - L \in 1 .. k
    BY <1>1, <1>3
  <2>2. t[L + (i - L)] = Cell(n, part, first + (i - L) - 1)
    BY <2>1
  <2>3. t[i] = Cell(n, part, first + i - L - 1)
    BY <1>1, <2>1, <2>2
  <2>4. first + i - L - 1 \in Nat
    BY <1>1, <2>1
  <2> QED
    BY <2>3, <2>4 DEF Cell, AllCells, Parts, PartLen, SizeSeqs
\* Where an old cell reaches beyond the end of s, by its part or by what comes after.
<1>4. ASSUME NEW i \in 1 .. L, L - i <= PartLen(s[i], sz) - s[i].at
      PROVE  IF s[i].at + L - i < PartLen(s[i], sz)
             THEN /\ s[i].msg = n /\ s[i].part = part /\ first = s[i].at + L - i + 1
                  /\ PartLen(s[i], sz) = P
             ELSE After(s[i]) = Cell(n, part, first)
  <2> DEFINE c == s[L]
  <2>1. L \in 1 .. L /\ i <= L /\ s # <<>>
    BY <1>1
  <2>2. c = Cell(s[i].msg, s[i].part, s[i].at + L - i)
    BY <1>4, <2>1 DEF Flows
  <2>3. /\ c.msg = s[i].msg /\ c.part = s[i].part /\ c.at = s[i].at + L - i
        /\ PartLen(c, sz) = PartLen(s[i], sz) /\ After(c) = After(s[i])
    BY <2>2 DEF Cell, PartLen, After
  <2>4. Successor(c, sz) = Cell(n, part, first)
    BY <2>1 DEF Continues
  <2> HIDE DEF c
  <2>5. CASE c.at < PartLen(c, sz)
    <3>1. Cell(c.msg, c.part, c.at + 1) = Cell(n, part, first)
      BY <2>4, <2>5 DEF Successor
    <3>2. c.msg = n /\ c.part = part /\ first = c.at + 1
      BY <3>1 DEF Cell
    <3> QED
      BY <2>3, <2>5, <3>2 DEF PartLen, Cell
  <2>6. CASE ~ (c.at < PartLen(c, sz))
    BY <2>3, <2>4, <2>6 DEF Successor
  <2> QED
    BY <2>5, <2>6
<1> HIDE DEF L, P
<1>5. \A i \in 1 .. Len(t) :
        t[i] \in AllCells /\ t[i].msg \in 1 .. Len(sz) /\ t[i].at \in 1 .. PartLen(t[i], sz)
  <2> SUFFICES ASSUME NEW i \in 1 .. Len(t)
               PROVE  t[i] \in AllCells /\ t[i].msg \in 1 .. Len(sz)
                      /\ t[i].at \in 1 .. PartLen(t[i], sz)
    OBVIOUS
  <2>1. CASE i <= L
    BY <1>1, <1>2, <2>1, SMTT(30)
  <2>2. CASE i > L
    <3>1. first + k - 1 <= P
      BY DEF P
    <3> QED
      BY <1>1, <1>3, <2>2, <3>1
  <2> QED
    BY <1>1, <2>1, <2>2
<1>6. ASSUME NEW i \in 1 .. Len(t), NEW j \in 1 .. Len(t),
             i <= j, j - i <= PartLen(t[i], sz) - t[i].at
      PROVE  t[j] = Cell(t[i].msg, t[i].part, t[i].at + j - i)
  <2>1. CASE j <= L
    <3>1. i \in 1 .. Len(s) /\ j \in 1 .. Len(s) /\ t[i] = s[i] /\ t[j] = s[j]
      BY <1>1, <1>2, <1>6, <2>1 DEF L
    <3> QED
      BY <1>6, <3>1 DEF Flows
  <2>2. CASE i <= L /\ j > L
    <3>1. i \in 1 .. L /\ t[i] = s[i] /\ s[i].at \in Nat /\ PartLen(s[i], sz) \in Nat
      BY <1>1, <1>2, <2>2
    <3>2. L - i <= PartLen(s[i], sz) - s[i].at /\ s[i].at + L - i < PartLen(s[i], sz)
      BY <1>1, <1>6, <2>2, <3>1, SMTT(30)
    <3>3. s[i].msg = n /\ s[i].part = part /\ first = s[i].at + L - i + 1
      BY <1>4, <3>1, <3>2
    <3>4. t[j] = Cell(n, part, first + j - L - 1)
      BY <1>3, <2>2
    <3>5. first + j - L - 1 = s[i].at + j - i
      <4> DEFINE d == s[i].at
      <4>1. d \in Nat /\ i \in Nat /\ j \in Nat /\ L \in Nat /\ first = d + L - i + 1
        BY <1>1, <3>1, <3>3
      <4> HIDE DEF d
      <4>2. first + j - L - 1 = d + j - i
        BY <4>1, SMTT(30)
      <4> QED
        BY <4>2 DEF d
    <3> QED
      BY <3>1, <3>3, <3>4, <3>5
  <2>3. CASE i > L
    <3>1. j > L
      BY <1>1, <1>6, <2>3
    <3>2. t[i].msg = n /\ t[i].part = part /\ t[i].at = first + i - L - 1
      BY <1>3, <2>3
    <3>3. t[j] = Cell(n, part, first + j - L - 1)
      BY <1>3, <3>1
    <3>4. first + j - L - 1 = t[i].at + j - i
      BY <1>1, <3>2, SMTT(30)
    <3> QED
      BY <3>2, <3>3, <3>4
  <2> QED
    BY <1>1, <2>1, <2>2, <2>3
<1>7. ASSUME NEW i \in 1 .. Len(t), NEW j \in 1 .. Len(t),
             j - i = PartLen(t[i], sz) - t[i].at + 1
      PROVE  t[j] = After(t[i])
  <2>0. t[i].at \in 1 .. PartLen(t[i], sz) /\ PartLen(t[i], sz) \in Nat
    BY <1>5, PartLenIs
  <2>a. i \in Nat /\ j \in Nat /\ i < j
    <3> DEFINE d == t[i].at
               q == PartLen(t[i], sz)
    <3>1. i \in Nat /\ j \in Nat /\ q \in Nat /\ d \in Nat /\ d <= q /\ j - i = q - d + 1
      BY <1>1, <1>7, <2>0
    <3> HIDE DEF d, q
    <3> QED
      BY <3>1
  <2>1. CASE j <= L
    <3>1. i \in 1 .. Len(s) /\ j \in 1 .. Len(s) /\ t[i] = s[i] /\ t[j] = s[j]
      BY <1>1, <1>2, <2>a, <2>1 DEF L
    <3> QED
      BY <1>7, <3>1 DEF Flows
  <2>2. CASE i <= L /\ j > L
    <3>1. i \in 1 .. L /\ t[i] = s[i] /\ s[i].at \in Nat /\ PartLen(s[i], sz) \in Nat
      BY <1>1, <1>2, <2>2
    <3>2. L - i <= PartLen(s[i], sz) - s[i].at
      BY <1>1, <1>7, <2>2, <3>1, SMTT(30)
    <3>3. CASE s[i].at + L - i < PartLen(s[i], sz)
      <4>1. first = s[i].at + L - i + 1 /\ PartLen(s[i], sz) = P
        BY <1>4, <3>1, <3>2, <3>3
      <4>2. j <= L + k /\ first + k - 1 <= P
        BY <1>1 DEF P
      <4> DEFINE d == s[i].at
      <4>3. /\ d \in Nat /\ i \in Nat /\ j \in Nat /\ L \in Nat
            /\ first = d + L - i + 1 /\ j - i = P - d + 1
        BY <1>1, <1>7, <2>a, <3>1, <4>1
      <4> HIDE DEF d
      <4>4. FALSE
        <5>1. first \in Nat /\ k \in Nat /\ P \in Nat /\ L \in Nat
          BY <1>1
        <5> QED
          BY <5>1, <4>2, <4>3, NoSuchPlace, SMTT(30)
      <4> QED
        BY <4>4
    <3>4. CASE ~ (s[i].at + L - i < PartLen(s[i], sz))
      <4>1. After(s[i]) = Cell(n, part, first)
        BY <1>4, <3>1, <3>2, <3>4
      <4>2. j = L + 1
        <5> DEFINE d == s[i].at
                   q == PartLen(s[i], sz)
        <5>1. /\ d \in Nat /\ q \in Nat /\ i \in Nat /\ j \in Nat /\ L \in Nat
              /\ j - i = q - d + 1 /\ ~ (d + L - i < q) /\ j > L
          BY <1>1, <1>7, <2>a, <2>2, <3>1, <3>4
        <5> HIDE DEF d, q
        <5> QED
          BY <5>1, NextPlace, Zenon
      <4>3. t[j] = Cell(n, part, first + j - L - 1)
        BY <1>3, <2>2
      <4>4. first + j - L - 1 = first
        BY <1>1, <4>2
      <4> QED
        BY <3>1, <4>1, <4>3, <4>4
    <3> QED
      BY <3>3, <3>4
  <2>3. CASE i > L
    <3>1. t[i].at = first + i - L - 1 /\ PartLen(t[i], sz) = P
      BY <1>3, <2>3
    <3>2. j <= L + k /\ first + k - 1 <= P
      BY <1>1 DEF P
    <3> QED
      BY <1>1, <1>7, <3>1, <3>2
  <2> QED
    BY <1>1, <2>1, <2>2, <2>3
<1> QED
  BY <1>5, <1>6, <1>7 DEF Flows

-----------------------------------------------------------------------------
\* What a read takes, what it leaves, and what a write makes of the stream.

LEMMA RestIs ==
  ASSUME NEW s \in Seq(AllCells), NEW k \in Nat, k <= Len(s)
  PROVE  /\ SubSeq(s, k + 1, Len(s)) \in Seq(AllCells)
         /\ Len(SubSeq(s, k + 1, Len(s))) = Len(s) - k
         /\ \A i \in 1 .. Len(s) - k : SubSeq(s, k + 1, Len(s))[i] = s[i + k]
<1> DEFINE t == SubSeq(s, k + 1, Len(s))
<1>1. k + 1 \in Int /\ Len(s) \in Int /\ \A i \in k + 1 .. Len(s) : s[i] \in AllCells
  OBVIOUS
<1>2. /\ t \in Seq(AllCells)
      /\ Len(t) = IF k + 1 <= Len(s) THEN Len(s) - (k + 1) + 1 ELSE 0
      /\ \A i \in 1 .. Len(s) - (k + 1) + 1 : t[i] = s[k + 1 + i - 1]
  BY <1>1, SubSeqProperties
<1> HIDE DEF t
<1>3. Len(t) = Len(s) - k /\ \A i \in 1 .. Len(s) - k : t[i] = s[i + k]
  BY <1>1, <1>2
<1> QED
  BY <1>2, <1>3 DEF t

LEMMA FrontIs ==
  ASSUME NEW s \in Seq(AllCells), NEW k \in Nat, k <= Len(s)
  PROVE  /\ SubSeq(s, 1, k) \in Seq(AllCells)
         /\ Len(SubSeq(s, 1, k)) = k
         /\ \A i \in 1 .. k : SubSeq(s, 1, k)[i] = s[i]
<1> DEFINE t == SubSeq(s, 1, k)
<1>1. 1 \in Int /\ k \in Int /\ \A i \in 1 .. k : s[i] \in AllCells
  OBVIOUS
<1>2. /\ t \in Seq(AllCells)
      /\ Len(t) = IF 1 <= k THEN k - 1 + 1 ELSE 0
      /\ \A i \in 1 .. k - 1 + 1 : t[i] = s[1 + i - 1]
  BY <1>1, SubSeqProperties
<1> HIDE DEF t
<1>3. Len(t) = k /\ \A i \in 1 .. k : t[i] = s[i]
  BY <1>1, <1>2
<1> QED
  BY <1>2, <1>3 DEF t

LEMMA JoinIs ==
  ASSUME NEW s \in Seq(AllCells), NEW u \in Seq(AllCells)
  PROVE  /\ s \o u \in Seq(AllCells)
         /\ Len(s \o u) = Len(s) + Len(u)
         /\ \A i \in 1 .. Len(s) : (s \o u)[i] = s[i]
         /\ \A i \in 1 .. Len(u) : (s \o u)[Len(s) + i] = u[i]
<1> DEFINE t == s \o u
<1>1. /\ t \in Seq(AllCells)
      /\ Len(t) = Len(s) + Len(u)
      /\ \A i \in 1 .. Len(s) + Len(u) : t[i] = IF i <= Len(s) THEN s[i] ELSE u[i - Len(s)]
  BY ConcatProperties, Zenon
<1> HIDE DEF t
<1>2. Len(s) \in Nat /\ Len(u) \in Nat
  OBVIOUS
<1>3. \A i \in 1 .. Len(s) : t[i] = s[i]
  BY <1>1, <1>2
<1>4. \A i \in 1 .. Len(u) : t[Len(s) + i] = u[i]
  BY <1>1, <1>2
<1> QED
  BY <1>1, <1>3, <1>4 DEF t

-----------------------------------------------------------------------------
\* The stream.

\* The cell written last.
LastWritten ==
  IF wpc = "body"
  THEN IF sent = 0 THEN Cell(Len(sizes), "head", HeadLen) ELSE Cell(Len(sizes), "body", sent)
  ELSE Cell(Len(sizes), "body", Last(sizes))

\* The stream flows, up to the cell written last.
StreamInv ==
  /\ sizes \in SizeSeqs
  /\ wpc \in {"idle", "body", "ended"}
  /\ sent \in Nat
  /\ stream \in Seq(AllCells)
  /\ link = "open" <=> wpc # "ended"
  /\ wpc = "body" => sizes # <<>> /\ sent < Last(sizes)
  /\ Flows(stream, sizes)
  /\ link = "open" /\ stream # <<>> => stream[Len(stream)] = LastWritten

LEMMA StreamInit == Init => StreamInv
<1> SUFFICES ASSUME Init
             PROVE  StreamInv
  OBVIOUS
<1>1. stream = <<>> /\ sizes = <<>>
  BY DEF Init
<1>2. Flows(<<>>, <<>>)
  BY DEF Flows
<1>3. <<>> \in SizeSeqs /\ <<>> \in Seq(AllCells)
  BY DEF SizeSeqs
<1> QED
  BY <1>1, <1>2, <1>3 DEF Init, StreamInv

\* A read takes k cells from the front.
LEMMA StreamRead ==
  ASSUME StreamInv, UNCHANGED <<writer, link>>, NEW k \in Nat, k <= Len(stream),
         stream' = SubSeq(stream, k + 1, Len(stream))
  PROVE  StreamInv'
<1>1. /\ stream \in Seq(AllCells) /\ stream' \in Seq(AllCells)
      /\ Len(stream') = Len(stream) - k
      /\ \A i \in 1 .. Len(stream) - k : stream'[i] = stream[i + k]
  BY RestIs DEF StreamInv
<1>2. Flows(stream', sizes)
  <2>1. Len(stream') + k <= Len(stream) /\ \A i \in 1 .. Len(stream') : stream'[i] = stream[i + k]
    BY <1>1
  <2> QED
    BY <1>1, <2>1, PieceFlows DEF StreamInv
<1>3. stream' # <<>> => stream # <<>> /\ stream'[Len(stream')] = stream[Len(stream)]
  <2> SUFFICES ASSUME stream' # <<>>
               PROVE  stream # <<>> /\ stream'[Len(stream')] = stream[Len(stream)]
    OBVIOUS
  <2>1. Len(stream') \in 1 .. Len(stream) - k /\ Len(stream') + k = Len(stream)
    BY <1>1
  <2>2. stream'[Len(stream')] = stream[Len(stream') + k]
    BY <1>1, <2>1
  <2>3. stream # <<>>
    BY <1>1, <2>1
  <2> QED
    BY <2>1, <2>2, <2>3, Zenon
<1>4. sizes' = sizes /\ wpc' = wpc /\ sent' = sent /\ link' = link
  BY DEF writer
<1> QED
  BY <1>1, <1>2, <1>3, <1>4 DEF StreamInv, LastWritten

\* The stream t is s with the cells first..last of a part behind it.
Written(t, s, n, part, first, last) ==
  /\ t \in Seq(AllCells)
  /\ Len(t) = Len(s) + (last - first + 1)
  /\ \A i \in 1 .. Len(s) : t[i] = s[i]
  /\ \A i \in 1 .. last - first + 1 : t[Len(s) + i] = Cell(n, part, first + i - 1)

LEMMA JoinCells ==
  ASSUME NEW s \in Seq(AllCells), NEW n \in Nat, NEW part \in Parts,
         NEW first \in Nat, 0 < first, NEW last \in Nat, first <= last
  PROVE  Written(s \o Cells(n, part, first, last), s, n, part, first, last)
<1> DEFINE u == Cells(n, part, first, last)
           t == s \o u
<1>1. first \in Nat /\ first <= last + 1
  OBVIOUS
<1>2. /\ u \in Seq(AllCells)
      /\ Len(u) = last - first + 1
      /\ \A i \in 1 .. last - first + 1 : u[i] = Cell(n, part, first + i - 1)
  BY <1>1, CellsAre, ZenonT(60)
<1> HIDE DEF u
<1>3. /\ t \in Seq(AllCells) /\ Len(t) = Len(s) + Len(u)
      /\ \A i \in 1 .. Len(s) : t[i] = s[i]
      /\ \A i \in 1 .. Len(u) : t[Len(s) + i] = u[i]
  BY <1>2, JoinIs, Zenon
<1> HIDE DEF t
<1>5. \A i \in 1 .. last - first + 1 : t[Len(s) + i] = Cell(n, part, first + i - 1)
  BY <1>2, <1>3
<1> QED
  BY <1>2, <1>3, <1>5 DEF t, u, Written

\* The stream t goes on from s, from the cell c to the cell d.
GoesOn(t, s, sz, c, d) ==
  /\ t \in Seq(AllCells) /\ t # <<>>
  /\ Flows(t, sz)
  /\ t[Len(t)] = d
  /\ t[1] = IF s = <<>> THEN c ELSE s[1]

\* A write of the cells first..last of a part.
LEMMA StreamWrite ==
  ASSUME NEW sz \in SizeSeqs, NEW s \in Seq(AllCells), Flows(s, sz),
         NEW n \in 1 .. Len(sz), NEW part \in Parts, NEW first \in Nat, 0 < first, NEW last \in Nat,
         first <= last,
         last <= PartLen(Cell(n, part, first), sz),
         Continues(s, sz, Cell(n, part, first)),
         NEW t, Written(t, s, n, part, first, last)
  PROVE  GoesOn(t, s, sz, Cell(n, part, first), Cell(n, part, last))
<1> DEFINE k == last - first + 1
<1>1. k \in Nat /\ k > 0 /\ Len(s) \in Nat
  OBVIOUS
<1>2. /\ t \in Seq(AllCells) /\ Len(t) = Len(s) + k
      /\ \A i \in 1 .. Len(s) : t[i] = s[i]
      /\ \A i \in 1 .. k : t[Len(s) + i] = Cell(n, part, first + i - 1)
      /\ first + k - 1 = last
      /\ first + k - 1 <= PartLen(Cell(n, part, first), sz)
  <2>1. /\ t \in Seq(AllCells) /\ Len(t) = Len(s) + (last - first + 1)
        /\ \A i \in 1 .. Len(s) : t[i] = s[i]
        /\ \A i \in 1 .. last - first + 1 : t[Len(s) + i] = Cell(n, part, first + i - 1)
    BY Zenon DEF Written
  <2>2. first + k - 1 = last
    OBVIOUS
  <2> QED
    BY <2>1, <2>2
<1> HIDE DEF k
<1>3. Flows(t, sz)
  BY <1>1, <1>2, LongerFlows
<1>4. t # <<>> /\ t[Len(t)] = Cell(n, part, last)
  <2>1. t[Len(s) + k] = Cell(n, part, first + k - 1)
    <3>1. k \in 1 .. k
      BY <1>1
    <3> QED
      BY <1>2, <3>1
  <2>2. Len(t) # 0
    BY <1>1, <1>2
  <2> QED
    BY <1>2, <2>1, <2>2
<1>5. t[1] = IF s = <<>> THEN Cell(n, part, first) ELSE s[1]
  <2>1. CASE s = <<>>
    <3>1. t[0 + 1] = Cell(n, part, first + 1 - 1)
      BY <1>1, <1>2, <2>1
    <3>2. first + 1 - 1 = first
      OBVIOUS
    <3> QED
      BY <2>1, <3>1, <3>2
  <2>2. CASE s # <<>>
    BY <1>1, <1>2, <2>2
  <2> QED
    BY <2>1, <2>2
<1> QED
  BY <1>2, <1>3, <1>4, <1>5 DEF GoesOn

LEMMA CellIs ==
  ASSUME NEW n \in Nat, NEW part \in Parts, NEW at \in Nat
  PROVE  /\ Cell(n, part, at) \in AllCells
         /\ Cell(n, part, at).msg = n /\ Cell(n, part, at).part = part /\ Cell(n, part, at).at = at
BY DEF Cell, AllCells

\* WriteHeader begins a message.
LEMMA HeaderWritten ==
  ASSUME StreamInv, NEW x \in Sizes, WriteHeader(x)
  PROVE  /\ StreamInv'
         /\ stream' # <<>>
         /\ stream'[1] = IF stream = <<>> THEN Cell(Len(sizes) + 1, "head", 1) ELSE stream[1]
         /\ Len(sizes') = Len(sizes) + 1
         /\ \A n \in 1 .. Len(sizes) : sizes'[n] = sizes[n]
<1> DEFINE N == Len(sizes)
<1>1. /\ sizes \in SizeSeqs /\ stream \in Seq(AllCells) /\ x \in Nat \ {0}
      /\ Flows(stream, sizes)
      /\ wpc = "idle" /\ link = "open"
      /\ N \in Nat
  BY FramingAssumption DEF StreamInv, WriteHeader, SizeSeqs
<1>2. /\ sizes' = Append(sizes, x)
      /\ stream' = stream \o Cells(Len(sizes'), "head", 1, HeadLen)
      /\ wpc' = "body" /\ sent' = 0 /\ link' = link
  BY DEF WriteHeader
<1>3. sizes' \in SizeSeqs /\ Len(sizes') = N + 1 /\ \A n \in 1 .. N : sizes'[n] = sizes[n]
  BY <1>1, <1>2 DEF SizeSeqs
<1>4. sizes'[N + 1] = x
  BY <1>1, <1>2 DEF SizeSeqs
<1>5. Flows(stream, sizes')
  BY <1>1, <1>2, MoreSizes
<1>6. "head" \in Parts /\ 1 \in Nat /\ 0 < 1 /\ HeadLen \in Nat /\ 1 <= HeadLen /\ N + 1 \in Nat
  BY <1>1, HeadLenIs DEF Parts
<1>7. Written(stream', stream, N + 1, "head", 1, HeadLen)
  <2>1. Written(stream \o Cells(N + 1, "head", 1, HeadLen), stream, N + 1, "head", 1, HeadLen)
    BY <1>1, <1>6, JoinCells, Zenon
  <2> QED
    BY <1>2, <1>3, <2>1
<1>8. Continues(stream, sizes', Cell(N + 1, "head", 1))
  <2> SUFFICES ASSUME stream # <<>>
               PROVE  Successor(stream[Len(stream)], sizes') = Cell(N + 1, "head", 1)
    BY DEF Continues
  <2>1. stream[Len(stream)] = Cell(N, "body", sizes[N])
    BY <1>1 DEF StreamInv, LastWritten, Last
  <2>2. N \in 1 .. N
    <3>1. Len(stream) \in 1 .. Len(stream)
      BY <1>1
    <3>2. stream[Len(stream)].msg \in 1 .. N
      BY <1>1, <3>1 DEF Flows
    <3> QED
      BY <1>1, <3>2
  <2>3. sizes'[N] = sizes[N]
    BY <1>3, <2>2
  <2> DEFINE c == stream[Len(stream)]
  <2> HIDE DEF N
  <2>4. c.msg = N /\ c.part = "body" /\ c.at = sizes[N]
    BY <2>1 DEF Cell
  <2> HIDE DEF c
  <2>5. PartLen(c, sizes') = c.at
    BY <2>3, <2>4 DEF PartLen
  <2>6. sizes[N] \in Nat
    BY <1>1, <2>2 DEF SizeSeqs, N
  <2>7. Successor(c, sizes') = After(c)
    BY <2>4, <2>5, <2>6 DEF Successor
  <2>8. After(c) = Cell(N + 1, "head", 1)
    BY <2>4 DEF After
  <2> QED
    BY <2>7, <2>8 DEF c
<1>9. HeadLen <= PartLen(Cell(N + 1, "head", 1), sizes')
  BY <1>6 DEF PartLen, Cell
<1> HIDE DEF N
<1>10. /\ stream' \in Seq(AllCells) /\ stream' # <<>>
       /\ Flows(stream', sizes')
       /\ stream'[Len(stream')] = Cell(N + 1, "head", HeadLen)
       /\ stream'[1] = IF stream = <<>> THEN Cell(N + 1, "head", 1) ELSE stream[1]
  <2>1. N + 1 \in 1 .. Len(sizes')
    BY <1>1, <1>3
  <2> QED
    <3>1. GoesOn(stream', stream, sizes', Cell(N + 1, "head", 1), Cell(N + 1, "head", HeadLen))
      BY <1>1, <1>3, <1>5, <1>6, <1>7, <1>8, <1>9, <2>1, StreamWrite, Zenon
    <3> QED
      BY <3>1 DEF GoesOn
<1>11. StreamInv'
  <2>1. sizes' # <<>> /\ Last(sizes') = x
    BY <1>1, <1>3, <1>4 DEF Last
  <2> QED
    BY <1>1, <1>2, <1>3, <1>7, <1>10, <2>1 DEF StreamInv, LastWritten
<1> QED
  BY <1>3, <1>10, <1>11 DEF N

\* A write in the loop of write_all.
LEMMA BodyWritten ==
  ASSUME StreamInv, WriteBody
  PROVE  /\ StreamInv'
         /\ stream' # <<>>
         /\ stream'[1] = IF stream = <<>> THEN Cell(Len(sizes), "body", sent + 1) ELSE stream[1]
<1> DEFINE N == Len(sizes)
           S == Last(sizes)
<1>1. /\ sizes \in SizeSeqs /\ stream \in Seq(AllCells)
      /\ Flows(stream, sizes)
      /\ wpc = "body" /\ link = "open"
      /\ N \in Nat /\ N \in 1 .. N /\ sent \in Nat
      /\ S = sizes[N] /\ S \in Nat
  BY DEF StreamInv, WriteBody, SizeSeqs, Last
<1>2. PICK k \in sent + 1 .. S :
        /\ stream' = stream \o Cells(N, "body", sent + 1, k)
        /\ sent' = k
        /\ wpc' = IF k = S THEN "idle" ELSE "body"
  BY DEF WriteBody
<1>3. sizes' = sizes /\ link' = link
  BY DEF WriteBody
<1> HIDE DEF S
<1>4. /\ "body" \in Parts /\ sent + 1 \in Nat /\ 0 < sent + 1 /\ k \in Nat /\ sent + 1 <= k /\ k <= S
  BY <1>1, <1>2 DEF Parts
<1>5. Written(stream', stream, N, "body", sent + 1, k)
  <2>1. Written(stream \o Cells(N, "body", sent + 1, k), stream, N, "body", sent + 1, k)
    BY <1>1, <1>4, JoinCells, Zenon
  <2> QED
    BY <1>2, <2>1
<1>6. Continues(stream, sizes, Cell(N, "body", sent + 1))
  <2> SUFFICES ASSUME stream # <<>>
               PROVE  Successor(stream[Len(stream)], sizes) = Cell(N, "body", sent + 1)
    BY DEF Continues
  <2> HIDE DEF N
  <2>1. stream[Len(stream)] = IF sent = 0 THEN Cell(N, "head", HeadLen) ELSE Cell(N, "body", sent)
    BY <1>1 DEF StreamInv, LastWritten, N
  <2>2. CASE sent = 0
    BY <2>1, <2>2, HeadLenIs DEF Successor, PartLen, After, Cell
  <2>3. CASE sent # 0
    <3>1. sent < sizes[N]
      BY <1>1, <1>4
    <3> QED
      BY <2>1, <2>3, <3>1 DEF Successor, PartLen, After, Cell
  <2> QED
    BY <2>2, <2>3
<1>7. k <= PartLen(Cell(N, "body", sent + 1), sizes)
  BY <1>1, <1>4 DEF PartLen, Cell
<1> HIDE DEF N
<1>8. /\ stream' \in Seq(AllCells) /\ stream' # <<>>
      /\ Flows(stream', sizes)
      /\ stream'[Len(stream')] = Cell(N, "body", k)
      /\ stream'[1] = IF stream = <<>> THEN Cell(N, "body", sent + 1) ELSE stream[1]
  <2>1. N \in 1 .. Len(sizes)
    BY <1>1 DEF N
  <2> QED
    <3>1. GoesOn(stream', stream, sizes, Cell(N, "body", sent + 1), Cell(N, "body", k))
      BY <1>1, <1>4, <1>5, <1>6, <1>7, <2>1, StreamWrite, Zenon
    <3> QED
      BY <3>1 DEF GoesOn
<1>9. StreamInv'
  BY <1>1, <1>2, <1>3, <1>4, <1>5, <1>8, SMTT(30) DEF StreamInv, LastWritten, N, S
<1> QED
  BY <1>8, <1>9 DEF N

\* What comes next in the stream: the first k cells, of one part, and the cell
\* behind them.
LEMMA FrontOfPart ==
  ASSUME NEW sz \in SizeSeqs, NEW s \in Seq(AllCells), Flows(s, sz),
         NEW n \in Nat, NEW part \in Parts, NEW at \in Nat,
         s[1] = Cell(n, part, at),
         NEW k \in Nat, 0 < k, k <= Len(s),
         NEW P \in Nat, P = PartLen(Cell(n, part, at), sz), at + k - 1 <= P
  PROVE  /\ \A i \in 1 .. k : s[i] = Cell(n, part, at + i - 1)
         /\ k < Len(s) =>
              s[k + 1] = IF at + k - 1 < P THEN Cell(n, part, at + k)
                                           ELSE After(Cell(n, part, at))
<1>1. s[1].msg = n /\ s[1].part = part /\ s[1].at = at /\ PartLen(s[1], sz) = P
  BY CellIs
<1>2. 1 \in 1 .. Len(s)
  OBVIOUS
<1>3. ASSUME NEW i \in 1 .. Len(s), i - 1 <= P - at
      PROVE  s[i] = Cell(n, part, at + i - 1)
  <2>1. 1 <= i /\ i - 1 <= PartLen(s[1], sz) - s[1].at
    BY <1>1, <1>3
  <2>2. s[i] = Cell(s[1].msg, s[1].part, s[1].at + i - 1)
    BY <1>2, <2>1 DEF Flows
  <2> QED
    BY <1>1, <2>2
<1>4. \A i \in 1 .. k : s[i] = Cell(n, part, at + i - 1)
  <2> SUFFICES ASSUME NEW i \in 1 .. k
               PROVE  s[i] = Cell(n, part, at + i - 1)
    OBVIOUS
  <2>1. i \in 1 .. Len(s) /\ i - 1 <= P - at
    OBVIOUS
  <2> QED
    BY <1>3, <2>1
<1>5. ASSUME k < Len(s), at + k - 1 < P
      PROVE  s[k + 1] = Cell(n, part, at + k)
  <2>1. k + 1 \in 1 .. Len(s) /\ k + 1 - 1 <= P - at
    BY <1>5
  <2>2. s[k + 1] = Cell(n, part, at + (k + 1) - 1)
    BY <1>3, <2>1
  <2>3. at + (k + 1) - 1 = at + k
    OBVIOUS
  <2> QED
    BY <2>2, <2>3
<1>6. ASSUME k < Len(s), ~ (at + k - 1 < P)
      PROVE  s[k + 1] = After(Cell(n, part, at))
  <2>1. k + 1 \in 1 .. Len(s)
    BY <1>6
  <2>2. k + 1 - 1 = PartLen(s[1], sz) - s[1].at + 1
    BY <1>1, <1>6
  <2>3. s[k + 1] = After(s[1])
    BY <1>2, <2>1, <2>2 DEF Flows
  <2> QED
    BY <2>3
<1> QED
  BY <1>4, <1>5, <1>6

LEMMA AtMostBoth ==
  ASSUME NEW a \in Int, NEW b \in Int, NEW k \in 1 .. Min({a, b})
  PROVE  k \in Nat /\ 0 < k /\ k <= a /\ k <= b
<1>1. \E x \in {a, b} : \A y \in {a, b} : x <= y
  <2>1. CASE a <= b
    BY <2>1
  <2>2. CASE b <= a
    BY <2>2
  <2> QED
    BY <2>1, <2>2
<1>2. Min({a, b}) \in {a, b} /\ \A y \in {a, b} : Min({a, b}) <= y
  BY <1>1, Zenon DEF Min
<1> DEFINE m == Min({a, b})
<1>3. m \in Int /\ m <= a /\ m <= b /\ k \in 1 .. m
  BY <1>2
<1> HIDE DEF m
<1> QED
  BY <1>3

-----------------------------------------------------------------------------
\* The buffer of read_all.

\* The loop asks for no more than what is missing.
ReadInv ==
  /\ size \in Int
  /\ data \in Seq(AllCells)
  /\ got \in Seq(Nat)
  /\ rpc = "body" /\ size > 0 => Len(data) < size

LEMMA JunkIsInt == Junk \subseteq Int
  BY DEF Junk

LEMMA ReadInit == Init => ReadInv
  BY DEF Init, ReadInv

\* What ReadHeader and ReadBody leave of the stream.
LEMMA StreamNext ==
  ASSUME StreamInv, ReadInv, [Next]_vars
  PROVE  StreamInv'
<1>1. ASSUME NEW x \in Sizes, WriteHeader(x)
      PROVE  StreamInv'
  BY <1>1, HeaderWritten
<1>2. CASE WriteBody
  BY <1>2, BodyWritten
<1>3. CASE Close
  BY <1>3 DEF Close, StreamInv, LastWritten, reader
<1>4. CASE Reset
  <2>1. PICK k \in 0 .. Len(stream) : stream' = SubSeq(stream, 1, k)
    BY <1>4 DEF Reset
  <2>2. k \in Nat /\ k <= Len(stream) /\ stream \in Seq(AllCells)
    BY <2>1 DEF StreamInv
  <2>3. stream' \in Seq(AllCells) /\ Len(stream') = k /\ \A i \in 1 .. k : stream'[i] = stream[i]
    BY <2>1, <2>2, FrontIs
  <2>4. Flows(stream', sizes)
    <3>1. /\ Len(stream') + 0 <= Len(stream)
          /\ \A i \in 1 .. Len(stream') : stream'[i] = stream[i + 0]
      BY <2>2, <2>3
    <3>2. Flows(stream, sizes) /\ sizes \in SizeSeqs /\ 0 \in Nat
      BY DEF StreamInv
    <3> QED
      BY <2>2, <2>3, <3>1, <3>2, PieceFlows
  <2> QED
    BY <1>4, <2>3, <2>4 DEF Reset, StreamInv, LastWritten
<1>5. CASE ReadHeader
  <2>1. PICK k \in 1 .. Min({HeadLen, Len(stream)}) : stream' = SubSeq(stream, k + 1, Len(stream))
    BY <1>5 DEF ReadHeader
  <2>2. HeadLen \in Int /\ Len(stream) \in Int
    BY HeadLenIs DEF StreamInv
  <2>3. k \in Nat /\ k <= Len(stream)
    BY <2>2, AtMostBoth
  <2> QED
    BY <1>5, <2>1, <2>3, StreamRead DEF ReadHeader
<1>6. ASSUME ReadBody, ReadInv
      PROVE  StreamInv'
  <2>1. PICK k \in 1 .. Min({size - Len(data), Len(stream)}) :
          stream' = SubSeq(stream, k + 1, Len(stream))
    BY <1>6 DEF ReadBody
  <2>2. size - Len(data) \in Int /\ Len(stream) \in Int
    BY <1>6 DEF StreamInv, ReadInv
  <2>3. k \in Nat /\ k <= Len(stream)
    BY <2>2, AtMostBoth
  <2> QED
    BY <1>6, <2>1, <2>3, StreamRead DEF ReadBody
<1>7. CASE ReadNoHeader \/ ReadEnd \/ ReadRefused \/ UNCHANGED vars
  BY <1>7 DEF ReadNoHeader, ReadEnd, ReadRefused, vars, writer, StreamInv, LastWritten
<1>8. CASE ReadNoMemory
  <2>1. Flows(<<>>, sizes)
    BY DEF Flows
  <2> QED
    BY <1>8, <2>1 DEF ReadNoMemory, StreamInv
<1> QED
  BY <1>1, <1>2, <1>3, <1>4, <1>5, <1>6, <1>7, <1>8 DEF Next, Reader

LEMMA BeginInv ==
  ASSUME NEW x \in Int, Begin(x)
  PROVE  /\ size' = x /\ data' = <<>> /\ Len(data') = 0 /\ data' \in Seq(AllCells)
         /\ size' \in Int
         /\ size' > 0 => Len(data') < size'
         /\ x = 0 => rpc' = "left"
         /\ x # 0 => rpc' = "body"
BY DEF Begin

LEMMA UnpackInv ==
  ASSUME NEW cells, Unpack(cells), got \in Seq(Nat), sizes \in SizeSeqs
  PROVE  got' \in Seq(Nat) /\ rpc' \in {"head", "left"}
<1>1. DOMAIN sizes \subseteq Nat
  BY DEF SizeSeqs
<1>2. CASE \E n \in DOMAIN sizes : got' = Append(got, n) /\ rpc' = "head"
  BY <1>1, <1>2
<1>3. CASE (got' = got /\ rpc' = "left") \/ (got' = Append(got, 0) /\ rpc' \in {"head", "left"})
  BY <1>3
<1> QED
  BY <1>2, <1>3 DEF Unpack

\* What a read of the body takes.
LEMMA BodyRead ==
  ASSUME StreamInv, ReadInv, ReadBody
  PROVE  \E k \in Nat :
           /\ 0 < k /\ k <= size - Len(data) /\ k <= Len(stream)
           /\ stream' = SubSeq(stream, k + 1, Len(stream))
           /\ LET cells == data \o SubSeq(stream, 1, k)
              IN  /\ cells \in Seq(AllCells) /\ Len(cells) = Len(data) + k
                  /\ \A i \in 1 .. Len(data) : cells[i] = data[i]
                  /\ \A i \in 1 .. k : cells[Len(data) + i] = stream[i]
                  /\ IF Len(cells) = size
                     THEN data' = <<>> /\ Unpack(cells)
                     ELSE data' = cells /\ UNCHANGED <<rpc, got>>
<1>1. PICK k \in 1 .. Min({size - Len(data), Len(stream)}) :
        /\ stream' = SubSeq(stream, k + 1, Len(stream))
        /\ LET cells == data \o SubSeq(stream, 1, k)
           IN  IF Len(cells) = size
               THEN data' = <<>> /\ Unpack(cells)
               ELSE data' = cells /\ UNCHANGED <<rpc, got>>
  BY DEF ReadBody
<1>2. size - Len(data) \in Int /\ Len(stream) \in Int
      /\ data \in Seq(AllCells) /\ stream \in Seq(AllCells)
  BY DEF StreamInv, ReadInv
<1>3. k \in Nat /\ 0 < k /\ k <= size - Len(data) /\ k <= Len(stream)
  BY <1>2, AtMostBoth
<1> DEFINE front == SubSeq(stream, 1, k)
           cells == data \o front
<1>4. front \in Seq(AllCells) /\ Len(front) = k /\ \A i \in 1 .. k : front[i] = stream[i]
  BY <1>2, <1>3, FrontIs
<1>5. IF Len(cells) = size
      THEN data' = <<>> /\ Unpack(cells)
      ELSE data' = cells /\ UNCHANGED <<rpc, got>>
  BY <1>1
<1> HIDE DEF front
<1>6. /\ cells \in Seq(AllCells) /\ Len(cells) = Len(data) + Len(front)
      /\ \A i \in 1 .. Len(data) : cells[i] = data[i]
      /\ \A i \in 1 .. Len(front) : cells[Len(data) + i] = front[i]
  BY <1>2, <1>4, JoinIs, Zenon
<1> HIDE DEF cells
<1>7. /\ Len(cells) = Len(data) + k
      /\ \A i \in 1 .. k : cells[Len(data) + i] = stream[i]
  BY <1>4, <1>6
<1> QED
  BY <1>1, <1>3, <1>5, <1>6, <1>7, Zenon DEF cells, front

LEMMA ReadNext ==
  ASSUME StreamInv, ReadInv, [Next]_vars
  PROVE  ReadInv'
<1> USE DEF reader, writer
<1>1. ASSUME NEW x \in Sizes, WriteHeader(x)
      PROVE  ReadInv'
  BY <1>1 DEF WriteHeader, ReadInv
<1>2. CASE WriteBody \/ Close \/ Reset \/ UNCHANGED vars
  BY <1>2 DEF WriteBody, Close, Reset, vars, ReadInv
<1>3. CASE ReadHeader
  <2>1. stream[1].msg \in 1 .. Len(sizes)
    <3>1. 1 \in 1 .. Len(stream)
      BY <1>3 DEF ReadHeader, StreamInv
    <3> QED
      BY <3>1 DEF StreamInv, Flows
  <2>2. sizes[stream[1].msg] \in Int
    BY <2>1 DEF StreamInv, SizeSeqs
  <2>3. \E x \in Int : Begin(x)
    BY <1>3, <2>2, JunkIsInt DEF ReadHeader
  <2> QED
    BY <1>3, <2>3, BeginInv DEF ReadHeader, ReadInv
<1>4. CASE ReadNoHeader
  <2>1. \E x \in Int : Begin(x)
    BY <1>4, JunkIsInt DEF ReadNoHeader
  <2> QED
    BY <1>4, <2>1, BeginInv DEF ReadNoHeader, ReadInv
<1>5. CASE ReadBody
  <2>1. PICK k \in Nat :
          /\ 0 < k /\ k <= size - Len(data)
          /\ \E cells \in Seq(AllCells) :
               /\ Len(cells) = Len(data) + k
               /\ IF Len(cells) = size
                  THEN data' = <<>> /\ Unpack(cells)
                  ELSE data' = cells /\ UNCHANGED <<rpc, got>>
    BY <1>5, BodyRead, Zenon
  <2>2. PICK cells \in Seq(AllCells) :
          /\ Len(cells) = Len(data) + k
          /\ IF Len(cells) = size
             THEN data' = <<>> /\ Unpack(cells)
             ELSE data' = cells /\ UNCHANGED <<rpc, got>>
    BY <2>1
  <2>3. size' = size
    BY <1>5 DEF ReadBody
  <2>4. CASE Len(cells) = size
    <3>1. got' \in Seq(Nat) /\ rpc' \in {"head", "left"} /\ data' = <<>>
      BY <2>2, <2>4, UnpackInv DEF ReadInv, StreamInv
    <3> QED
      BY <2>3, <3>1 DEF ReadInv
  <2>5. CASE Len(cells) # size
    <3>1. Len(cells) <= size
      BY <2>1, <2>2 DEF ReadInv
    <3> QED
      BY <2>2, <2>3, <2>5, <3>1 DEF ReadInv
  <2> QED
    BY <2>4, <2>5
<1>6. CASE ReadEnd \/ ReadRefused \/ ReadNoMemory
  BY <1>6 DEF ReadEnd, ReadRefused, ReadNoMemory, ReadInv
<1> QED
  BY <1>1, <1>2, <1>3, <1>4, <1>5, <1>6 DEF Next, Reader

(* message.c:32: whatever the size is made of, and however the reads are    *)
(* cut, alreadyRead meets the size exactly.                                 *)
THEOREM BufferIsNotOverrun == Spec => []BufferNotOverrun
<1> DEFINE I == StreamInv /\ ReadInv
<1>1. Init => I
  BY StreamInit, ReadInit
<1>2. I /\ [Next]_vars => I'
  BY StreamNext, ReadNext
<1>3. I => BufferNotOverrun
  BY DEF ReadInv, BufferNotOverrun
<1> HIDE DEF I
<1> QED
  BY <1>1, <1>2, <1>3, PTL DEF Spec

-----------------------------------------------------------------------------
\* The types.

LEMMA MaxSizeIs ==
  ASSUME NEW B \in Nat, Sizes \subseteq 0 .. B
  PROVE  Max(Sizes) \in Nat /\ \A s \in Sizes : s \in Nat /\ s <= Max(Sizes)
<1> DEFINE U == {b \in Nat : \A s \in Sizes : s <= b}
           R == OpToRel(<, Nat)
<1>1. Sizes # {} /\ Sizes \subseteq Nat
  BY FramingAssumption
<1>2. U # {} /\ U \subseteq Nat
  BY <1>1
<1>3. IsWellFoundedOn(R, Nat)
  BY NatLessThanWellFounded
<1>4. \A x, y \in Nat : y < x => <<y, x>> \in R
  BY DEF OpToRel
<1> HIDE DEF R
<1>5. PICK m \in U : \A y \in U : ~ (<<y, m>> \in R)
  <2> HIDE DEF U
  <2> QED
    BY <1>2, <1>3, WFMin
<1>6. m \in Nat /\ \A s \in Sizes : s <= m
  BY <1>5
<1>7. m \in Sizes
  <2> SUFFICES ASSUME m \notin Sizes
               PROVE  FALSE
    OBVIOUS
  <2>1. \A s \in Sizes : s \in Nat /\ s < m
    BY <1>1, <1>6
  <2>2. m - 1 \in Nat /\ m - 1 < m /\ \A s \in Sizes : s <= m - 1
    <3> HIDE DEF U
    <3>1. PICK s \in Sizes : s \in Nat /\ s < m
      BY <1>1, <2>1
    <3>2. m - 1 \in Nat /\ m - 1 < m
      BY ONLY <1>6, <3>1
    <3>3. ASSUME NEW r \in Sizes
          PROVE  r <= m - 1
      <4>1. r \in Nat /\ r < m /\ m \in Nat
        BY <1>6, <2>1
      <4> QED
        BY ONLY <4>1
    <3> QED
      BY <3>2, <3>3
  <2>3. m - 1 \in U
    BY <2>2
  <2> QED
    BY <1>4, <1>5, <1>6, <2>2, <2>3
<1>8. \E x \in Sizes : \A y \in Sizes : x >= y
  BY <1>1, <1>6, <1>7
<1>9. Max(Sizes) \in Sizes /\ \A y \in Sizes : Max(Sizes) >= y
  BY <1>8, Zenon DEF Max
<1> QED
  BY <1>1, <1>9

\* The numbers of messages received, from what unpack makes of some cells.
LEMMA UnpackGot ==
  ASSUME NEW cells, Unpack(cells), got \in Seq(0 .. MaxMessages), sizes \in Seq(Sizes),
         Len(sizes) <= MaxMessages
  PROVE  got' \in Seq(0 .. MaxMessages) /\ rpc' \in {"head", "left"}
<1>1. \A n \in DOMAIN sizes : n \in 0 .. MaxMessages
  BY FramingAssumption
<1>2. CASE \E n \in DOMAIN sizes : got' = Append(got, n) /\ rpc' = "head"
  BY <1>1, <1>2
<1>3. CASE (got' = got /\ rpc' = "left") \/ (got' = Append(got, 0) /\ rpc' \in {"head", "left"})
  <2>1. 0 \in 0 .. MaxMessages
    BY FramingAssumption
  <2> DEFINE G == 0 .. MaxMessages
  <2>2. got \in Seq(G) /\ 0 \in G
    BY <2>1
  <2> HIDE DEF G
  <2>3. got' \in Seq(G)
    <3>1. Append(got, 0) \in Seq(G)
      BY ONLY <2>2
    <3> QED
      BY ONLY <1>3, <2>2, <3>1, Zenon
  <2>4. rpc' \in {"head", "left"}
    BY <1>3
  <2> QED
    BY <2>3, <2>4 DEF G
<1> QED
  BY <1>2, <1>3 DEF Unpack

LEMMA BeginType ==
  ASSUME NEW B \in Nat, Sizes \subseteq 0 .. B,
         \E x \in Junk : Begin(x)
  PROVE  size' \in Junk /\ data' = <<>> /\ Len(data') <= Max(Sizes) /\ rpc' \in {"body", "left"}
<1>1. Len(<<>>) = 0 /\ Max(Sizes) \in Nat
  BY MaxSizeIs
<1> QED
  BY <1>1 DEF Begin

LEMMA TypeNext ==
  ASSUME NEW B \in Nat, Sizes \subseteq 0 .. B, StreamInv, ReadInv, TypeOK, [Next]_vars
  PROVE  TypeOK'
<1>1. /\ Max(Sizes) \in Nat
      /\ \A s \in Sizes : s \in Nat /\ s <= Max(Sizes) /\ s \in Junk
  <2>1. Max(Sizes) \in Nat /\ \A s \in Sizes : s \in Nat /\ s <= Max(Sizes)
    BY MaxSizeIs
  <2> DEFINE m == Max(Sizes)
  <2>2. m \in Nat
    BY <2>1
  <2> HIDE DEF m
  <2>3. \A s \in Nat : s <= m => s \in -1 .. m
    BY <2>2
  <2> QED
    BY <2>1, <2>3 DEF m, Junk
<1>2. ASSUME NEW s \in Sizes, WriteHeader(s)
      PROVE  TypeOK'
  <2>1. sizes' \in Seq(Sizes) /\ Len(sizes') <= MaxMessages
    BY <1>2, FramingAssumption DEF WriteHeader, TypeOK
  <2>2. sent' = 0 /\ wpc' = "body" /\ UNCHANGED <<link, rpc, size, data, got, whole>>
    BY <1>2 DEF WriteHeader, reader
  <2> QED
    BY <1>1, <2>1, <2>2 DEF TypeOK, Junk
<1>3. CASE WriteBody
  <2>1. PICK k \in sent + 1 .. Last(sizes) :
          sent' = k /\ wpc' = IF k = Last(sizes) THEN "idle" ELSE "body"
    BY <1>3 DEF WriteBody
  <2>2. sizes # <<>> /\ sizes \in Seq(Sizes) /\ sent \in Nat
    BY <1>3 DEF WriteBody, StreamInv, TypeOK
  <2>3. Last(sizes) \in Sizes
    BY <2>2 DEF Last
  <2>4. sent' \in 0 .. Max(Sizes) /\ wpc' \in {"idle", "body"}
    <3>1. Last(sizes) \in Nat /\ Last(sizes) <= Max(Sizes) /\ Max(Sizes) \in Nat
      BY <1>1, <2>3
    <3> DEFINE m == Max(Sizes)
               l == Last(sizes)
    <3>2. l \in Nat /\ l <= m /\ m \in Nat /\ k \in sent + 1 .. l
      BY <3>1
    <3> HIDE DEF m, l
    <3>3. k \in 0 .. m
      BY ONLY <2>2, <3>2
    <3> QED
      BY <2>1, <3>3 DEF m
  <2>5. UNCHANGED <<sizes, link, rpc, size, data, got, whole>>
    BY <1>3 DEF WriteBody, reader
  <2> QED
    BY <2>4, <2>5 DEF TypeOK, Junk
<1>4. CASE Close \/ Reset \/ UNCHANGED vars
  BY <1>4 DEF Close, Reset, vars, reader, writer, TypeOK, Junk
<1>5. CASE ReadHeader
  <2>1. stream[1].msg \in 1 .. Len(sizes)
    <3>1. 1 \in 1 .. Len(stream)
      BY <1>5 DEF ReadHeader, StreamInv
    <3> QED
      BY <3>1 DEF StreamInv, Flows
  <2>2. sizes[stream[1].msg] \in Junk
    <3>1. sizes[stream[1].msg] \in Sizes
      BY <2>1 DEF TypeOK
    <3> QED
      BY <1>1, <3>1
  <2>3. \E x \in Junk : Begin(x)
    BY <1>5, <2>2 DEF ReadHeader
  <2>4. size' \in Junk /\ Len(data') <= Max(Sizes) /\ rpc' \in {"body", "left"}
    BY <2>3, BeginType
  <2>5. whole' \in BOOLEAN
    BY <1>5, Zenon DEF ReadHeader, TypeOK
  <2>6. UNCHANGED <<sizes, wpc, sent, link, got>>
    BY <1>5 DEF ReadHeader, writer
  <2> QED
    BY <2>4, <2>5, <2>6 DEF TypeOK, Junk
<1>6. CASE ReadNoHeader
  <2>1. size' \in Junk /\ Len(data') <= Max(Sizes) /\ rpc' \in {"body", "left"}
    BY <1>6, BeginType DEF ReadNoHeader
  <2>2. UNCHANGED <<sizes, wpc, sent, link, got, whole>>
    BY <1>6 DEF ReadNoHeader, writer
  <2> QED
    BY <2>1, <2>2 DEF TypeOK, Junk
<1>7. CASE ReadBody
  <2>1. PICK k \in Nat :
          /\ 0 < k /\ k <= size - Len(data)
          /\ \E cells \in Seq(AllCells) :
               /\ Len(cells) = Len(data) + k
               /\ IF Len(cells) = size
                  THEN data' = <<>> /\ Unpack(cells)
                  ELSE data' = cells /\ UNCHANGED <<rpc, got>>
    BY <1>7, BodyRead, Zenon
  <2>2. PICK cells \in Seq(AllCells) :
          /\ Len(cells) = Len(data) + k
          /\ IF Len(cells) = size
             THEN data' = <<>> /\ Unpack(cells)
             ELSE data' = cells /\ UNCHANGED <<rpc, got>>
    BY <2>1
  <2>3. UNCHANGED <<sizes, wpc, sent, link, size, whole>>
    BY <1>7 DEF ReadBody, writer
  <2>4. Len(data') <= Max(Sizes) /\ got' \in Seq(0 .. MaxMessages)
          /\ rpc' \in {"head", "body", "closed", "left", "spin"}
    <3>1. CASE Len(cells) = size
      <4>1. got' \in Seq(0 .. MaxMessages) /\ rpc' \in {"head", "left"}
        BY <2>2, <3>1, UnpackGot DEF TypeOK
      <4>2. data' = <<>> /\ Len(<<>>) = 0
        BY <2>2, <3>1
      <4> QED
        BY <1>1, <4>1, <4>2
    <3>2. CASE Len(cells) # size
      <4>1. data' = cells /\ UNCHANGED <<rpc, got>>
        BY <2>2, <3>2
      <4>2. Len(cells) <= size /\ size <= Max(Sizes) /\ size \in Int /\ Len(cells) \in Nat
        BY <1>1, <2>1, <2>2 DEF ReadInv, TypeOK, Junk
      <4> QED
        BY <1>1, <4>1, <4>2 DEF TypeOK
    <3> QED
      BY <3>1, <3>2
  <2> QED
    BY <2>3, <2>4 DEF TypeOK, Junk
<1>8. CASE ReadEnd \/ ReadRefused \/ ReadNoMemory
  BY <1>8 DEF ReadEnd, ReadRefused, ReadNoMemory, writer, TypeOK, Junk
<1> QED
  BY <1>2, <1>3, <1>4, <1>5, <1>6, <1>7, <1>8 DEF Next, Reader

(* message.c: the state of the reader and the writer, among it that what    *)
(* network_receive takes for a size is -1, what a header said, or some      *)
(* junk, and that no more cells are gathered than the largest message has.  *)
(* A size is an unsigned, so sizes have a bound.                            *)
THEOREM FramingTypes ==
  ASSUME NEW CONSTANT B \in Nat, Sizes \subseteq 0 .. B
  PROVE  Spec => []TypeOK
<1> DEFINE I == StreamInv /\ ReadInv /\ TypeOK
<1>1. Init => I
  <2>1. Init => TypeOK
    <3>1. Max(Sizes) \in Nat /\ Len(<<>>) = 0
      BY MaxSizeIs
    <3>2. <<>> \in Seq(Sizes) /\ <<>> \in Seq(0 .. MaxMessages)
      OBVIOUS
    <3> QED
      BY <3>1, <3>2, FramingAssumption DEF Init, TypeOK, Junk
  <2> QED
    BY <2>1, StreamInit, ReadInit
<1>2. I /\ [Next]_vars => I'
  BY StreamNext, ReadNext, TypeNext
<1>3. I => TypeOK
  OBVIOUS
<1> QED
  BY <1>1, <1>2, <1>3, PTL DEF Spec

-----------------------------------------------------------------------------
\* The messages.

\* The message in hand: the next one, its size known, its first cells in data,
\* the others in the stream or not yet written.
InBody ==
  LET n == Len(got) + 1
  IN  /\ n <= Len(sizes) /\ size = sizes[n]
      /\ \A i \in 1 .. Len(data) : data[i] = Cell(n, "body", i)
      /\ stream # <<>> => stream[1] = Cell(n, "body", Len(data) + 1)
      /\ stream = <<>> /\ link = "open" =>
           wpc = "body" /\ Len(sizes) = n /\ sent = Len(data)

\* Between two messages: the next header begins the stream, or everything that
\* was written has been read.
AtHead ==
  LET n == Len(got) + 1
  IN  /\ stream # <<>> => stream[1] = Cell(n, "head", 1)
      /\ stream = <<>> /\ link = "open" => wpc = "idle" /\ Len(sizes) = n - 1

\* The connection has ended, and nothing is left to read.
AtEnd == stream = <<>> /\ link # "open"

Got ==
  /\ Len(got) <= Len(sizes)
  /\ \A i \in 1 .. Len(got) : got[i] = i

OrderInv ==
  whole =>
    /\ Got
    /\ rpc = "head" => AtHead
    /\ rpc = "body" => AtEnd \/ InBody

LEMMA OrderInit == Init => OrderInv
  BY DEF Init, OrderInv, Got, AtHead

\* The writer and the network.
LEMMA OrderWriter ==
  ASSUME StreamInv, ReadInv, OrderInv,
         (\E x \in Sizes : WriteHeader(x)) \/ WriteBody \/ Close \/ Reset
  PROVE  OrderInv'
<1> SUFFICES ASSUME whole
             PROVE  OrderInv'
  BY DEF OrderInv, WriteHeader, WriteBody, Close, Reset, reader
<1>1. /\ Got
      /\ rpc = "head" => AtHead
      /\ rpc = "body" => AtEnd \/ InBody
  BY DEF OrderInv
<1>2. /\ Len(got) \in Nat /\ Len(sizes) \in Nat /\ Len(data) \in Nat
      /\ sizes \in SizeSeqs /\ stream \in Seq(AllCells)
  BY DEF StreamInv, ReadInv, SizeSeqs
<1>3. UNCHANGED <<rpc, size, data, got, whole>>
  BY DEF WriteHeader, WriteBody, Close, Reset, reader
<1>4. ASSUME NEW x \in Sizes, WriteHeader(x)
      PROVE  OrderInv'
  <2>1. wpc = "idle" /\ link = "open"
    BY <1>4 DEF WriteHeader
  <2>2. /\ stream' # <<>>
        /\ stream'[1] = IF stream = <<>> THEN Cell(Len(sizes) + 1, "head", 1) ELSE stream[1]
        /\ Len(sizes') = Len(sizes) + 1
        /\ \A n \in 1 .. Len(sizes) : sizes'[n] = sizes[n]
    BY <1>4, HeaderWritten
  <2>3. Got'
    BY <1>1, <1>2, <1>3, <2>2 DEF Got
  <2>4. rpc = "head" => AtHead'
    BY <1>1, <1>2, <1>3, <2>1, <2>2 DEF AtHead
  <2>5. rpc = "body" => InBody'
    <3> SUFFICES ASSUME rpc = "body"
                 PROVE  InBody'
      OBVIOUS
    <3>1. InBody /\ stream # <<>>
      BY <1>1, <2>1 DEF AtEnd, InBody
    <3> QED
      BY <1>2, <1>3, <2>2, <3>1 DEF InBody
  <2> QED
    BY <1>3, <2>3, <2>4, <2>5 DEF OrderInv
<1>5. CASE WriteBody
  <2>1. wpc = "body" /\ link = "open" /\ sizes' = sizes
    BY <1>5 DEF WriteBody
  <2>2. /\ stream' # <<>>
        /\ stream'[1] = IF stream = <<>> THEN Cell(Len(sizes), "body", sent + 1) ELSE stream[1]
    BY <1>5, BodyWritten
  <2>3. Got'
    BY <1>1, <1>3, <2>1 DEF Got
  <2>4. rpc = "head" => AtHead'
    BY <1>1, <1>3, <2>1, <2>2 DEF AtHead
  <2>5. rpc = "body" => InBody'
    BY <1>1, <1>3, <2>1, <2>2 DEF AtEnd, InBody
  <2> QED
    BY <1>3, <2>3, <2>4, <2>5 DEF OrderInv
<1>6. CASE Close
  BY <1>1, <1>3, <1>6 DEF Close, OrderInv, Got, AtHead, AtEnd, InBody
<1>7. CASE Reset
  <2>1. PICK k \in 0 .. Len(stream) : stream' = SubSeq(stream, 1, k)
    BY <1>7 DEF Reset
  <2>2. k \in Nat /\ k <= Len(stream)
    BY <1>2, <2>1
  <2>3. stream' \in Seq(AllCells) /\ Len(stream') = k /\ \A i \in 1 .. k : stream'[i] = stream[i]
    BY <1>2, <2>1, <2>2, FrontIs
  <2>4. stream' # <<>> => stream # <<>> /\ stream'[1] = stream[1]
    BY <1>2, <2>2, <2>3
  <2>5. sizes' = sizes /\ link' = "reset" /\ link = "open"
    BY <1>7 DEF Reset
  <2>6. Got'
    BY <1>1, <1>3, <2>5 DEF Got
  <2>7. rpc = "head" => AtHead'
    BY <1>1, <1>3, <2>4, <2>5 DEF AtHead
  <2>8. rpc = "body" => InBody'
    BY <1>1, <1>3, <2>4, <2>5 DEF AtEnd, InBody
  <2> QED
    BY <1>3, <2>6, <2>7, <2>8 DEF OrderInv
<1> QED
  BY <1>4, <1>5, <1>6, <1>7

\* A whole header is read.
LEMMA OrderHeader ==
  ASSUME StreamInv, ReadInv, OrderInv, ReadHeader
  PROVE  OrderInv'
<1> SUFFICES ASSUME whole'
             PROVE  OrderInv'
  BY DEF OrderInv
<1> DEFINE n == Len(got) + 1
           h == Cells(stream[1].msg, "head", 1, HeadLen)
<1>1. PICK k \in 1 .. Min({HeadLen, Len(stream)}) :
        /\ whole' = (whole /\ k = HeadLen)
        /\ stream' = SubSeq(stream, k + 1, Len(stream))
        /\ IF SubSeq(stream, 1, k) = h
           THEN Begin(sizes[stream[1].msg])
           ELSE \E x \in Junk : Begin(x)
  BY DEF ReadHeader
<1>2. whole /\ k = HeadLen
  BY <1>1
<1>3. rpc = "head" /\ stream # <<>> /\ UNCHANGED <<sizes, wpc, sent, link, got>>
  BY DEF ReadHeader, writer
<1>4. /\ sizes \in SizeSeqs /\ stream \in Seq(AllCells) /\ Flows(stream, sizes)
      /\ HeadLen \in Nat /\ 0 < HeadLen /\ n \in Nat /\ "head" \in Parts
  BY HeadLenIs DEF StreamInv, ReadInv, Parts
<1>5. Got /\ stream[1] = Cell(n, "head", 1)
  BY <1>2, <1>3 DEF OrderInv, AtHead
<1>6. HeadLen <= Len(stream)
  BY <1>2, <1>4, AtMostBoth
<1> HIDE DEF n
<1>7. stream[1].msg = n /\ n \in 1 .. Len(sizes)
  <2>1. 1 \in 1 .. Len(stream)
    BY <1>4, <1>6
  <2>2. stream[1].msg = n
    BY <1>4, <1>5, CellIs
  <2> QED
    BY <1>4, <2>1, <2>2 DEF Flows
<1>8. /\ \A i \in 1 .. HeadLen : stream[i] = Cell(n, "head", i)
      /\ HeadLen < Len(stream) => stream[HeadLen + 1] = Cell(n, "body", 1)
  <2> DEFINE P == PartLen(Cell(n, "head", 1), sizes)
  <2>1. P = HeadLen /\ After(Cell(n, "head", 1)) = Cell(n, "body", 1)
    BY DEF PartLen, After, Cell
  <2>2. 1 \in Nat /\ P \in Nat /\ 1 + HeadLen - 1 <= P /\ ~ (1 + HeadLen - 1 < P)
    BY <1>4, <2>1
  <2> HIDE DEF P
  <2>3. /\ \A i \in 1 .. HeadLen : stream[i] = Cell(n, "head", 1 + i - 1)
        /\ HeadLen < Len(stream) =>
             stream[HeadLen + 1] = IF 1 + HeadLen - 1 < P THEN Cell(n, "head", 1 + HeadLen)
                                                          ELSE After(Cell(n, "head", 1))
    BY <1>4, <1>5, <1>6, <2>2, FrontOfPart DEF P
  <2>4. \A i \in 1 .. HeadLen : 1 + i - 1 = i
    BY <1>4
  <2> QED
    BY <2>1, <2>2, <2>3, <2>4
<1>9. SubSeq(stream, 1, k) = h
  <2> DEFINE f == SubSeq(stream, 1, HeadLen)
             g == Cells(n, "head", 1, HeadLen)
  <2>1. f \in Seq(AllCells) /\ Len(f) = HeadLen /\ \A i \in 1 .. HeadLen : f[i] = stream[i]
    BY <1>4, <1>6, FrontIs
  <2>2. /\ g \in Seq(AllCells)
        /\ Len(g) = HeadLen - 1 + 1
        /\ \A i \in 1 .. HeadLen - 1 + 1 : g[i] = Cell(n, "head", 1 + i - 1)
    <3>1. 1 \in Nat /\ 1 <= HeadLen + 1
      BY <1>4
    <3> QED
      BY <1>4, <3>1, CellsAre, ZenonT(60)
  <2> HIDE DEF f, g
  <2>3. Len(g) = HeadLen /\ \A i \in 1 .. HeadLen : g[i] = Cell(n, "head", i)
    BY <1>4, <2>2
  <2>4. f = g
    BY <1>8, <2>1, <2>2, <2>3, SeqEqual
  <2> QED
    BY <1>2, <1>7, <2>4 DEF f, g
<1>10. /\ size' = sizes[n] /\ data' = <<>> /\ Len(data') = 0 /\ rpc' = "body"
  <2>1. Begin(sizes[n])
    BY <1>1, <1>7, <1>9
  <2>2. sizes[n] \in Int /\ sizes[n] # 0
    BY <1>4, <1>7 DEF SizeSeqs
  <2> QED
    BY <2>1, <2>2, BeginInv
<1>11. /\ Len(stream') = Len(stream) - HeadLen
       /\ stream' \in Seq(AllCells)
       /\ \A i \in 1 .. Len(stream) - HeadLen : stream'[i] = stream[i + HeadLen]
  BY <1>1, <1>2, <1>4, <1>6, RestIs
<1>12. stream' # <<>> => stream'[1] = Cell(n, "body", 1)
  <2> SUFFICES ASSUME stream' # <<>>
               PROVE  stream'[1] = Cell(n, "body", 1)
    OBVIOUS
  <2>1. 1 \in 1 .. Len(stream) - HeadLen
    BY <1>4, <1>11
  <2>2. stream'[1] = stream[1 + HeadLen] /\ HeadLen < Len(stream)
    BY <1>4, <1>11, <2>1
  <2> QED
    BY <1>4, <1>8, <2>2
<1>13. stream' = <<>> /\ link = "open" => wpc = "body" /\ Len(sizes) = n /\ sent = 0
  <2> SUFFICES ASSUME stream' = <<>>, link = "open"
               PROVE  wpc = "body" /\ Len(sizes) = n /\ sent = 0
    OBVIOUS
  <2>1. Len(stream) = HeadLen
    BY <1>4, <1>11
  <2>2. stream[Len(stream)] = Cell(n, "head", HeadLen)
    BY <1>4, <1>8, <2>1
  <2>3. LastWritten = Cell(n, "head", HeadLen) /\ wpc # "ended"
    BY <1>3, <2>2 DEF StreamInv
  <2> QED
    BY <2>3 DEF LastWritten, Cell
<1> QED
  BY <1>3, <1>5, <1>7, <1>10, <1>12, <1>13 DEF OrderInv, Got, InBody, n

\* The cells of a whole body are the message of that number, and no other.
LEMMA WholeBody ==
  ASSUME NEW n \in DOMAIN sizes, sizes \in SizeSeqs, NEW cells \in Seq(AllCells),
         Len(cells) = sizes[n], \A i \in 1 .. sizes[n] : cells[i] = Cell(n, "body", i),
         Unpack(cells)
  PROVE  got' = Append(got, n) /\ rpc' = "head"
<1>1. n \in Nat /\ sizes[n] \in Nat \ {0} /\ \A m \in DOMAIN sizes : m \in Nat /\ sizes[m] \in Nat \ {0}
  BY DEF SizeSeqs
<1>2. ASSUME NEW m \in DOMAIN sizes
      PROVE  /\ Cells(m, "body", 1, sizes[m]) \in Seq(AllCells)
             /\ Len(Cells(m, "body", 1, sizes[m])) = sizes[m]
             /\ \A i \in 1 .. sizes[m] : Cells(m, "body", 1, sizes[m])[i] = Cell(m, "body", i)
  <2> DEFINE g == Cells(m, "body", 1, sizes[m])
             z == sizes[m]
  <2>1. m \in Nat /\ z \in Nat /\ 1 \in Nat /\ 1 <= z + 1 /\ "body" \in Parts
    BY <1>1 DEF Parts
  <2>2. /\ g \in Seq(AllCells)
        /\ Len(g) = z - 1 + 1
        /\ \A i \in 1 .. z - 1 + 1 : g[i] = Cell(m, "body", 1 + i - 1)
    BY <2>1, CellsAre, ZenonT(60)
  <2> HIDE DEF g, z
  <2>3. Len(g) = z /\ \A i \in 1 .. z : g[i] = Cell(m, "body", i)
    BY <2>1, <2>2
  <2> QED
    BY <2>2, <2>3 DEF g, z
<1>3. cells = Cells(n, "body", 1, sizes[n])
  BY <1>1, <1>2, SeqEqual
<1>4. ASSUME NEW m \in DOMAIN sizes, cells = Cells(m, "body", 1, sizes[m])
      PROVE  m = n
  <2>1. cells[1] = Cell(m, "body", 1) /\ cells[1] = Cell(n, "body", 1)
    BY <1>1, <1>2, <1>4
  <2> QED
    BY <2>1 DEF Cell
<1> QED
  BY <1>3, <1>4 DEF Unpack

\* A read in the loop of read_all.
LEMMA OrderBody ==
  ASSUME StreamInv, ReadInv, OrderInv, ReadBody
  PROVE  OrderInv'
<1>1. rpc = "body" /\ stream # <<>> /\ UNCHANGED <<sizes, wpc, sent, link, size, whole>>
  BY DEF ReadBody, writer
<1> SUFFICES ASSUME whole
             PROVE  OrderInv'
  BY <1>1 DEF OrderInv
<1> DEFINE n == Len(got) + 1
           d == Len(data)
<1>2. Got /\ InBody
  BY <1>1 DEF OrderInv, AtEnd
<1>3. /\ n \in Nat /\ n <= Len(sizes) /\ size = sizes[n]
      /\ \A i \in 1 .. d : data[i] = Cell(n, "body", i)
      /\ stream[1] = Cell(n, "body", d + 1)
      /\ d \in Nat /\ size \in Nat /\ d < size
  <2>1. n \in Nat /\ n <= Len(sizes) /\ size = sizes[n]
    BY <1>2 DEF InBody, ReadInv
  <2>2. n \in 1 .. Len(sizes) /\ sizes[n] \in Nat \ {0}
    BY <2>1 DEF StreamInv, ReadInv, SizeSeqs
  <2> QED
    BY <1>1, <1>2, <2>1, <2>2 DEF InBody, ReadInv
<1>4. sizes \in SizeSeqs /\ stream \in Seq(AllCells) /\ Flows(stream, sizes) /\ "body" \in Parts
      /\ got \in Seq(Nat)
  BY DEF StreamInv, ReadInv, Parts
<1>5. PICK k \in Nat :
        /\ 0 < k /\ k <= size - d /\ k <= Len(stream)
        /\ stream' = SubSeq(stream, k + 1, Len(stream))
        /\ LET cells == data \o SubSeq(stream, 1, k)
           IN  /\ cells \in Seq(AllCells) /\ Len(cells) = d + k
               /\ \A i \in 1 .. d : cells[i] = data[i]
               /\ \A i \in 1 .. k : cells[d + i] = stream[i]
               /\ IF Len(cells) = size
                  THEN data' = <<>> /\ Unpack(cells)
                  ELSE data' = cells /\ UNCHANGED <<rpc, got>>
  BY BodyRead
<1> DEFINE cells == data \o SubSeq(stream, 1, k)
<1>6. /\ cells \in Seq(AllCells) /\ Len(cells) = d + k
      /\ \A i \in 1 .. d : cells[i] = data[i]
      /\ \A i \in 1 .. k : cells[d + i] = stream[i]
      /\ Len(cells) = size => data' = <<>> /\ Unpack(cells)
      /\ Len(cells) # size => data' = cells /\ rpc' = rpc /\ got' = got
  BY <1>5
<1>a. 0 < k /\ k <= size - d /\ k <= Len(stream)
  BY <1>5
<1> HIDE DEF cells, n, d
<1>7. /\ \A i \in 1 .. k : stream[i] = Cell(n, "body", d + i)
      /\ k < Len(stream) =>
           stream[k + 1] = IF d + k < size THEN Cell(n, "body", d + k + 1) ELSE Cell(n + 1, "head", 1)
  <2>1. size = PartLen(Cell(n, "body", d + 1), sizes) /\ After(Cell(n, "body", d + 1)) = Cell(n + 1, "head", 1)
    BY <1>3 DEF PartLen, After, Cell
  <2>2. d + 1 \in Nat /\ d + 1 + k - 1 <= size
    <3>1. size - d \in Nat
      BY <1>3
    <3> QED
      BY <1>3, <1>a, <3>1
  <2>3. /\ \A i \in 1 .. k : stream[i] = Cell(n, "body", d + 1 + i - 1)
        /\ k < Len(stream) =>
             stream[k + 1] = IF d + 1 + k - 1 < size THEN Cell(n, "body", d + 1 + k)
                                                     ELSE After(Cell(n, "body", d + 1))
    <3> DEFINE at == d + 1
    <3>1. stream[1] = Cell(n, "body", at) /\ size = PartLen(Cell(n, "body", at), sizes)
      BY <1>3, <2>1
    <3>2. n \in Nat /\ at \in Nat /\ size \in Nat /\ at + k - 1 <= size
      BY <1>3, <2>2
    <3> HIDE DEF at
    <3>3. /\ \A i \in 1 .. k : stream[i] = Cell(n, "body", at + i - 1)
          /\ k < Len(stream) =>
               stream[k + 1] = IF at + k - 1 < size THEN Cell(n, "body", at + k)
                                                    ELSE After(Cell(n, "body", at))
      BY <1>4, <1>a, <3>1, <3>2, FrontOfPart
    <3> QED
      BY <3>3 DEF at
  <2>4. d + 1 + k - 1 = d + k /\ d + 1 + k = d + k + 1 /\ \A i \in 1 .. k : d + 1 + i - 1 = d + i
    BY <1>3
  <2> QED
    BY <2>1, <2>3, <2>4
<1>8. \A i \in 1 .. d + k : cells[i] = Cell(n, "body", i)
  <2> SUFFICES ASSUME NEW i \in 1 .. d + k
               PROVE  cells[i] = Cell(n, "body", i)
    OBVIOUS
  <2>1. CASE i <= d
    BY <1>3, <1>6, <2>1
  <2>2. CASE i > d
    <3>1. i - d \in 1 .. k /\ d + (i - d) = i
      BY <1>3, <2>2
    <3>2. cells[d + (i - d)] = stream[i - d] /\ stream[i - d] = Cell(n, "body", d + (i - d))
      BY <1>6, <1>7, <3>1
    <3> QED
      BY <3>1, <3>2
  <2> QED
    BY <1>3, <2>1, <2>2
<1>9. /\ stream' \in Seq(AllCells)
      /\ Len(stream') = Len(stream) - k
      /\ \A i \in 1 .. Len(stream) - k : stream'[i] = stream[i + k]
  BY <1>4, <1>5, RestIs
<1>10. stream' # <<>> => k < Len(stream) /\ stream'[1] = stream[k + 1]
  <2> SUFFICES ASSUME stream' # <<>>
               PROVE  k < Len(stream) /\ stream'[1] = stream[k + 1]
    OBVIOUS
  <2>1. 1 \in 1 .. Len(stream) - k
    BY <1>4, <1>9
  <2> QED
    BY <1>4, <1>9, <2>1
<1>11. stream' = <<>> /\ link = "open" => LastWritten = Cell(n, "body", d + k) /\ wpc # "ended"
  <2> SUFFICES ASSUME stream' = <<>>, link = "open"
               PROVE  LastWritten = Cell(n, "body", d + k) /\ wpc # "ended"
    OBVIOUS
  <2>1. Len(stream) = k
    BY <1>4, <1>5, <1>9
  <2>2. stream[Len(stream)] = Cell(n, "body", d + k)
    BY <1>5, <1>7, <2>1
  <2> QED
    BY <1>1, <2>2 DEF StreamInv
<1>12. n \in DOMAIN sizes /\ n \in 1 .. Len(sizes) /\ Len(sizes) \in Nat
  BY <1>3, <1>4 DEF SizeSeqs, n
<1>13. CASE Len(cells) = size
  <2>1. got' = Append(got, n) /\ rpc' = "head" /\ d + k = size
    <3>1. Unpack(cells) /\ d + k = size
      BY <1>6, <1>13
    <3> QED
      BY <1>3, <1>4, <1>6, <1>8, <1>12, <1>13, <3>1, WholeBody
  <2>2. Len(got') = n /\ Got'
    <3>1. Len(got') = n /\ got'[n] = n /\ \A i \in 1 .. n - 1 : got'[i] = got[i]
      BY <1>4, <2>1 DEF n
    <3>2. \A i \in 1 .. n : got'[i] = i
      BY <1>2, <1>3, <1>4, <3>1, SMTT(30) DEF Got, n
    <3> QED
      BY <1>1, <1>3, <3>1, <3>2 DEF Got
  <2>3. stream' # <<>> => stream'[1] = Cell(n + 1, "head", 1)
    BY <1>3, <1>7, <1>10, <2>1
  <2>4. stream' = <<>> /\ link = "open" => wpc = "idle" /\ Len(sizes) = n
    <3> SUFFICES ASSUME stream' = <<>>, link = "open"
                 PROVE  wpc = "idle" /\ Len(sizes) = n
      OBVIOUS
    <3>1. LastWritten = Cell(n, "body", size) /\ wpc \in {"idle", "body"}
      BY <1>11, <2>1 DEF StreamInv
    <3>2. CASE wpc = "body"
      <4>1. sent = size /\ Len(sizes) = n
        BY <3>1, <3>2 DEF LastWritten, Cell
      <4>2. sent < size
        BY <1>3, <3>2, <4>1 DEF StreamInv, Last
      <4> QED
        BY <1>3, <4>1, <4>2
    <3>3. CASE wpc = "idle"
      BY <3>1, <3>3 DEF LastWritten, Cell
    <3> QED
      BY <3>1, <3>2, <3>3
  <2> QED
    BY <1>1, <1>3, <2>1, <2>2, <2>3, <2>4 DEF OrderInv, AtHead
<1>14. CASE Len(cells) # size
  <2>1. data' = cells /\ rpc' = "body" /\ got' = got /\ Len(data') = d + k /\ d + k < size
    <3>1. data' = cells /\ rpc' = rpc /\ got' = got
      BY <1>6, <1>14, Zenon
    <3>2. Len(data') = d + k /\ d + k # size
      BY <1>6, <1>14, <3>1, Zenon
    <3>3. d + k < size
      BY <1>3, <1>a, <3>2, SMT
    <3> QED
      BY <1>1, <3>1, <3>2, <3>3, Zenon
  <2>2. stream' # <<>> => stream'[1] = Cell(n, "body", d + k + 1)
    BY <1>7, <1>10, <2>1
  <2>3. stream' = <<>> /\ link = "open" => wpc = "body" /\ Len(sizes) = n /\ sent = d + k
    <3> SUFFICES ASSUME stream' = <<>>, link = "open"
                 PROVE  wpc = "body" /\ Len(sizes) = n /\ sent = d + k
      OBVIOUS
    <3>1. LastWritten = Cell(n, "body", d + k) /\ wpc \in {"idle", "body"}
      BY <1>11 DEF StreamInv
    <3>2. wpc = "body"
      <4> SUFFICES ASSUME wpc = "idle"
                   PROVE  FALSE
        BY <3>1
      <4>1. Last(sizes) = d + k /\ Len(sizes) = n
        BY <3>1 DEF LastWritten, Cell
      <4> QED
        BY <1>3, <2>1, <4>1 DEF Last
    <3> QED
      BY <3>1, <3>2 DEF LastWritten, Cell
  <2>4. InBody'
    BY <1>1, <1>3, <1>8, <2>1, <2>2, <2>3 DEF InBody, n
  <2>5. Got'
    BY <1>1, <1>2, <2>1 DEF Got
  <2> QED
    BY <2>1, <2>4, <2>5 DEF OrderInv
<1> QED
  BY <1>13, <1>14

LEMMA OrderNext ==
  ASSUME StreamInv, ReadInv, OrderInv, [Next]_vars
  PROVE  OrderInv'
<1>1. CASE (\E x \in Sizes : WriteHeader(x)) \/ WriteBody \/ Close \/ Reset
  BY <1>1, OrderWriter
<1>2. CASE ReadHeader
  BY <1>2, OrderHeader
<1>3. CASE ReadBody
  BY <1>3, OrderBody
<1>4. CASE ReadNoHeader
  <2>1. rpc' \in {"body", "left"} /\ AtEnd' /\ UNCHANGED <<sizes, got, whole>>
    BY <1>4 DEF ReadNoHeader, Begin, AtEnd, writer
  <2> QED
    BY <2>1 DEF OrderInv, Got
<1>5. CASE ReadEnd \/ ReadRefused \/ ReadNoMemory
  <2>1. rpc' \in {"spin", "closed"} /\ UNCHANGED <<sizes, got, whole>>
    BY <1>5 DEF ReadEnd, ReadRefused, ReadNoMemory, writer
  <2> QED
    BY <2>1 DEF OrderInv, Got
<1>6. CASE UNCHANGED vars
  BY <1>6 DEF vars, writer, reader, OrderInv, Got, AtHead, AtEnd, InBody
<1> QED
  BY <1>1, <1>2, <1>3, <1>4, <1>5, <1>6 DEF Next, Reader

(* network_server.h:27-30: as long as every header came out of one read,    *)
(* what is received is what was sent, in that order, each message once and  *)
(* none from half of its bytes.                                             *)
THEOREM WhatIsReceivedWasSent == Spec => []ReceivedIsSent
<1> DEFINE I == StreamInv /\ ReadInv /\ OrderInv
<1>1. Init => I
  BY StreamInit, ReadInit, OrderInit
<1>2. I /\ [Next]_vars => I'
  BY StreamNext, ReadNext, OrderNext
<1>3. I => ReceivedIsSent
  <2> SUFFICES ASSUME I, whole
               PROVE  IsPrefix(got, [n \in DOMAIN sizes |-> n])
    BY DEF ReceivedIsSent
  <2> DEFINE all == [n \in DOMAIN sizes |-> n]
             g == Len(got)
  <2>1. /\ got \in Seq(Nat) /\ g \in Nat /\ g <= Len(sizes) /\ Len(sizes) \in Nat
        /\ \A i \in 1 .. g : got[i] = i
    BY DEF OrderInv, Got, ReadInv, StreamInv, SizeSeqs
  <2>2. all \in Seq(Nat) /\ Len(all) = Len(sizes) /\ \A i \in 1 .. Len(sizes) : all[i] = i
    BY DEF StreamInv, SizeSeqs
  <2> HIDE DEF all
  <2>3. /\ SubSeq(got, 1, g) \in Seq(Nat) /\ Len(SubSeq(got, 1, g)) = g
        /\ \A i \in 1 .. g : SubSeq(got, 1, g)[i] = i
    BY <2>1
  <2>4. /\ SubSeq(all, 1, g) \in Seq(Nat) /\ Len(SubSeq(all, 1, g)) = g
        /\ \A i \in 1 .. g : SubSeq(all, 1, g)[i] = i
    BY <2>1, <2>2
  <2>5. SubSeq(got, 1, g) = SubSeq(all, 1, g)
    BY <2>3, <2>4, SeqEqual
  <2> QED
    BY <2>1, <2>2, <2>5 DEF IsPrefix, all
<1> HIDE DEF I
<1> QED
  BY <1>1, <1>2, <1>3, PTL DEF Spec

-----------------------------------------------------------------------------
\* The channel of messages.

\* The values that MessageChannel's variables have.
Sent == [n \in DOMAIN sizes |-> n]
State ==
  CASE ~ whole                  -> "garbled"
    [] whole /\ link = "open"  -> "open"
    [] whole /\ link # "open"  -> "ended"

LEMMA WholeIs ==
  ASSUME whole \in BOOLEAN, [Next]_vars
  PROVE  whole' \in BOOLEAN /\ (whole' => whole)
<1> USE DEF reader
<1>1. CASE (\E x \in Sizes : WriteHeader(x)) \/ WriteBody \/ Close \/ Reset \/ UNCHANGED vars
  BY <1>1 DEF WriteHeader, WriteBody, Close, Reset, vars
<1>2. CASE ReadHeader
  <2>1. PICK k \in 1 .. Min({HeadLen, Len(stream)}) : whole' = (whole /\ k = HeadLen)
    BY <1>2 DEF ReadHeader
  <2> QED
    BY <2>1, Zenon
<1>3. CASE ReadNoHeader \/ ReadBody \/ ReadEnd \/ ReadRefused \/ ReadNoMemory
  BY <1>3 DEF ReadNoHeader, ReadBody, ReadEnd, ReadRefused, ReadNoMemory
<1> QED
  BY <1>1, <1>2, <1>3 DEF Next, Reader

LEMMA SentIs ==
  ASSUME sizes \in SizeSeqs
  PROVE  /\ Sent \in Seq(Nat) /\ Len(Sent) = Len(sizes)
         /\ \A n \in 1 .. Len(sizes) : Sent[n] = n
BY DEF Sent, SizeSeqs

LEMMA SentNext ==
  ASSUME sizes \in SizeSeqs, NEW x \in Sizes, WriteHeader(x)
  PROVE  Sent' = Append(Sent, Len(Sent) + 1)
<1>1. sizes' = Append(sizes, x) /\ x \in Nat \ {0}
  BY FramingAssumption DEF WriteHeader
<1>2. DOMAIN sizes = 1 .. Len(sizes) /\ Len(sizes) \in Nat
  BY DEF SizeSeqs
<1>3. DOMAIN sizes' = 1 .. Len(sizes) + 1
  BY <1>1, <1>2 DEF SizeSeqs
<1>4. Sent' = [n \in 1 .. Len(sizes) + 1 |-> n]
  BY <1>3 DEF Sent
<1>5. Sent = [n \in 1 .. Len(sizes) |-> n]
  BY <1>2 DEF Sent
<1> QED
  BY <1>2, <1>4, <1>5

\* A step of the reader adds the next message, or none.
LEMMA GotNext ==
  ASSUME StreamInv, ReadInv, OrderInv, OrderInv', whole', Reader
  PROVE  /\ UNCHANGED <<sizes, link>>
         /\ \/ got' = got
            \/ Len(got) < Len(sizes) /\ got' = Append(got, Len(got) + 1)
<1>1. UNCHANGED <<sizes, link>>
  BY DEF Reader, ReadHeader, ReadNoHeader, ReadBody, ReadEnd, ReadRefused, writer
<1>2. got' = got \/ \E m \in Nat : got' = Append(got, m)
  <2>1. CASE ReadBody
    <3>1. DOMAIN sizes \subseteq Nat
      BY DEF StreamInv, SizeSeqs
    <3>2. got' = got \/ \E cells : Unpack(cells)
      BY <2>1 DEF ReadBody
    <3> QED
      BY <3>1, <3>2 DEF Unpack
  <2>2. CASE ReadHeader \/ ReadNoHeader \/ ReadEnd \/ ReadRefused
    BY <2>2 DEF ReadHeader, ReadNoHeader, ReadEnd, ReadRefused
  <2> QED
    BY <2>1, <2>2 DEF Reader
<1>3. ASSUME NEW m \in Nat, got' = Append(got, m)
      PROVE  Len(got) < Len(sizes) /\ got' = Append(got, Len(got) + 1)
  <2>1. got \in Seq(Nat) /\ Len(sizes) \in Nat
    BY DEF ReadInv, StreamInv, SizeSeqs
  <2>2. Len(got') = Len(got) + 1 /\ got'[Len(got) + 1] = m
    BY <1>3, <2>1
  <2>3. Len(got') <= Len(sizes) /\ \A i \in 1 .. Len(got') : got'[i] = i
    BY <1>1 DEF OrderInv, Got
  <2>4. Len(got) + 1 \in 1 .. Len(got')
    BY <2>1, <2>2
  <2>5. m = Len(got) + 1
    BY <2>2, <2>3, <2>4
  <2> QED
    BY <1>3, <2>1, <2>2, <2>3, <2>5
<1> QED
  BY <1>1, <1>2, <1>3

LEMMA ChannelNext ==
  ASSUME StreamInv, ReadInv, OrderInv, OrderInv', whole \in BOOLEAN, [Next]_vars
  PROVE  [Channel!Next]_Channel!vars
<1>1. /\ Channel!vars = <<Sent, got, State>>
      /\ Channel!vars' = <<Sent', got', State'>>
  BY DEF Channel!vars, Sent, State
<1>2. /\ Channel!Send = (State = "open" /\ Sent' = Append(Sent, Len(Sent) + 1) /\ UNCHANGED <<got, State>>)
      /\ Channel!Receive = (/\ State # "garbled" /\ Len(got) < Len(Sent)
                            /\ got' = Append(got, Sent[Len(got) + 1])
                            /\ UNCHANGED <<Sent, State>>)
      /\ Channel!End = (State = "open" /\ State' = "ended" /\ UNCHANGED <<Sent, got>>)
      /\ Channel!Garble = (State' = "garbled")
  BY DEF Channel!Send, Channel!Receive, Channel!End, Channel!Garble, Sent, State
<1>3. whole' \in BOOLEAN /\ (whole' => whole)
  BY WholeIs
<1>4. CASE ~ whole'
  <2>1. State' = "garbled"
    BY <1>4 DEF State
  <2> QED
    BY <1>2, <2>1 DEF Channel!Next
<1>5. CASE whole'
  <2>1. /\ link = "open" => State = "open"
        /\ link # "open" => State = "ended"
        /\ link' = "open" => State' = "open"
        /\ link' # "open" => State' = "ended"
    BY <1>3, <1>5 DEF State
  <2>2. /\ Sent \in Seq(Nat) /\ Len(Sent) = Len(sizes)
        /\ \A n \in 1 .. Len(sizes) : Sent[n] = n
    BY SentIs DEF StreamInv
  <2>3. ASSUME NEW x \in Sizes, WriteHeader(x)
        PROVE  Channel!Send
    <3>1. Sent' = Append(Sent, Len(Sent) + 1)
      BY <2>3, SentNext DEF StreamInv
    <3>2. link = "open" /\ link' = "open" /\ got' = got
      BY <2>3 DEF WriteHeader, reader
    <3> QED
      BY <1>2, <2>1, <3>1, <3>2
  <2>4. CASE Close \/ Reset
    <3>1. link = "open" /\ link' # "open" /\ got' = got /\ sizes' = sizes
      BY <2>4 DEF Close, Reset, reader
    <3>2. Sent' = Sent
      BY <3>1 DEF Sent
    <3> QED
      BY <1>2, <2>1, <3>1, <3>2 DEF Channel!Next
  <2>5. CASE WriteBody \/ UNCHANGED vars
    <3>1. link' = link /\ got' = got /\ sizes' = sizes
      BY <2>5 DEF WriteBody, vars, writer, reader
    <3>2. Sent' = Sent /\ State' = State
      BY <2>1, <3>1 DEF Sent
    <3> QED
      BY <1>1, <3>1, <3>2
  <2>6. CASE Reader
    <3>1. /\ UNCHANGED <<sizes, link>>
          /\ \/ got' = got
             \/ Len(got) < Len(sizes) /\ got' = Append(got, Len(got) + 1)
      BY <1>5, <2>6, GotNext
    <3>2. Sent' = Sent /\ State' = State /\ State # "garbled"
      BY <2>1, <3>1 DEF Sent
    <3>3. CASE got' = got
      BY <1>1, <3>2, <3>3
    <3>4. CASE Len(got) < Len(sizes) /\ got' = Append(got, Len(got) + 1)
      <4>1. Len(got) + 1 \in 1 .. Len(sizes)
        BY <3>4 DEF ReadInv, StreamInv, SizeSeqs
      <4>2. Sent[Len(got) + 1] = Len(got) + 1 /\ Len(got) < Len(Sent)
        BY <2>2, <3>4, <4>1
      <4> QED
        BY <1>2, <3>2, <3>4, <4>2 DEF Channel!Next
    <3> QED
      BY <3>1, <3>3, <3>4
  <2>7. CASE ReadNoMemory
    <3>1. link' # "open" /\ got' = got /\ sizes' = sizes
      BY <2>7 DEF ReadNoMemory
    <3>2. Sent' = Sent
      BY <3>1 DEF Sent
    <3> QED
      BY <1>1, <1>2, <2>1, <3>1, <3>2 DEF Channel!Next
  <2> QED
    BY <2>3, <2>4, <2>5, <2>6, <2>7 DEF Next, Channel!Next
<1> QED
  BY <1>3, <1>4, <1>5

(* message.c is a channel of messages until a header comes in pieces: the   *)
(* safety part of ImplementsChannel, for every instance.                    *)
THEOREM IsAChannel == Spec => Channel!Init /\ [][Channel!Next]_Channel!vars
<1> DEFINE I == StreamInv /\ ReadInv /\ OrderInv /\ whole \in BOOLEAN
<1>1. Init => I
  BY StreamInit, ReadInit, OrderInit DEF Init
<1>2. I /\ [Next]_vars => I'
  BY StreamNext, ReadNext, OrderNext, WholeIs
<1>3. I /\ I' /\ [Next]_vars => [Channel!Next]_Channel!vars
  BY ChannelNext
<1>4. Init => Channel!Init
  <2> SUFFICES ASSUME Init
               PROVE  Channel!Init
    OBVIOUS
  <2>1. Sent = <<>> /\ got = <<>> /\ State = "open"
    BY DEF Init, Sent, State
  <2> QED
    BY <2>1 DEF Channel!Init, Sent, State
<1> HIDE DEF I
<1> QED
  BY <1>1, <1>2, <1>3, <1>4, PTL DEF Spec
=============================================================================
