---------------------------- MODULE HashTableProofs ---------------------------
(***************************************************************************)
(* Proofs about HashTable, for every set of keys and values, every number  *)
(* of lists, every hash and every memory: until the first write through a  *)
(* stale tail each node is in one place of the list of its key, a cell is  *)
(* free or in one node, and each operation does and answers what table.h   *)
(* promises; and it takes two keys of one list to get there.               *)
(***************************************************************************)
EXTENDS HashTable, FiniteSetTheorems, SequenceTheorems, TLAPS

TypeInv ==
  /\ chain \in [Lists -> Seq(Node)]
  /\ tail \in [Lists -> Cells \union {NoCell}]
  /\ free \subseteq Cells
  /\ life \in {"up", "crashed", "astray", "destroyed"}
  /\ torn \in Lists \union {NoList}

\* The nodes of the lists cs are all apart, in the lists of their keys.
Apart(cs) ==
  \A b, d \in Lists : \A i \in DOMAIN cs[b], j \in DOMAIN cs[d] :
    cs[b][i].cell = cs[d][j].cell \/ cs[b][i].key = cs[d][j].key => b = d /\ i = j
AtHome(cs) == \A b \in Lists : \A i \in DOMAIN cs[b] : Index(cs[b][i].key) = b

\* The cells of the nodes are the cells that are not free.
UsedIsNotFree ==
  \A c \in Cells : c \notin free <=> \E b \in Lists : \E i \in DOMAIN chain[b] : chain[b][i].cell = c

\* Two keys have the hash b.
Shared(b) == \E j, k \in Keys : j # k /\ Index(j) = b /\ Index(k) = b

WhileWhole ==
  torn = NoList =>
    /\ Apart(chain) /\ AtHome(chain) /\ UsedIsNotFree
    /\ \A b \in Lists : Stale(b) => Shared(b)

IInv == TypeInv /\ WhileWhole /\ TornNeedsCollision

-----------------------------------------------------------------------------
\* Sets of numbers, and what is found in a sequence.

LEMMA Induct ==
  ASSUME NEW A, 0 \in A, \A n \in Nat : n \in A => n + 1 \in A
  PROVE  Nat \subseteq A
<1> SUFFICES ASSUME Nat \ A # {}
             PROVE  FALSE
  OBVIOUS
<1> DEFINE R == OpToRel(<, Nat)
<1>1. IsWellFoundedOn(R, Nat)
  BY NatLessThanWellFounded
<1>2. \A x, y \in Nat : y < x => <<y, x>> \in R
  BY DEF OpToRel
<1> HIDE DEF R
<1>3. PICK x \in Nat \ A : \A y \in Nat \ A : ~ (<<y, x>> \in R)
  BY <1>1, WFMin
<1>4. x # 0 /\ x - 1 \in Nat /\ x - 1 < x /\ x - 1 + 1 = x
  BY <1>3
<1>5. x - 1 \in A
  BY <1>2, <1>3, <1>4
<1> QED
  BY <1>3, <1>4, <1>5

LEMMA MinOfNumbers ==
  ASSUME NEW I, I \subseteq Nat, I # {}
  PROVE  Min(I) \in I
<1> DEFINE R == OpToRel(<, Nat)
<1>1. IsWellFoundedOn(R, Nat)
  BY NatLessThanWellFounded
<1>2. \A x, y \in Nat : <<y, x>> \notin R => x <= y
  BY DEF OpToRel
<1> HIDE DEF R
<1>3. \E x \in I : \A y \in I : ~ (<<y, x>> \in R)
  BY <1>1, WFMin
<1>4. \E x \in I : \A y \in I : x <= y
  BY <1>2, <1>3
<1> QED
  BY <1>4 DEF Min

(* list_get_node, in any sequence of nodes.                                 *)
LEMMA FindKey ==
  ASSUME NEW s \in Seq(Node), NEW k
  PROVE  LET i == SelectInSeq(s, LAMBDA n : n.key = k)
         IN  \/ i = 0 /\ \A j \in 1 .. Len(s) : s[j].key # k
             \/ i \in 1 .. Len(s) /\ s[i].key = k
<1> DEFINE I == {j \in 1 .. Len(s) : s[j].key = k}
<1>1. SelectInSeq(s, LAMBDA n : n.key = k) = IF I # {} THEN Min(I) ELSE 0
  BY DEF SelectInSeq
<1>2. I \subseteq Nat /\ (I # {} => Min(I) \in I)
  BY MinOfNumbers
<1> QED
  BY <1>1, <1>2

LEMMA FindCell ==
  ASSUME NEW s \in Seq(Node), NEW c
  PROVE  LET i == SelectInSeq(s, LAMBDA n : n.cell = c)
         IN  \/ i = 0 /\ \A j \in 1 .. Len(s) : s[j].cell # c
             \/ i \in 1 .. Len(s) /\ s[i].cell = c
<1> DEFINE I == {j \in 1 .. Len(s) : s[j].cell = c}
<1>1. SelectInSeq(s, LAMBDA n : n.cell = c) = IF I # {} THEN Min(I) ELSE 0
  BY DEF SelectInSeq
<1>2. I \subseteq Nat /\ (I # {} => Min(I) \in I)
  BY MinOfNumbers
<1> QED
  BY <1>1, <1>2

(* list_remove takes one node out and leaves the order of the others.       *)
LEMMA RemoveProperties ==
  ASSUME NEW S, NEW s \in Seq(S), NEW i \in 1 .. Len(s)
  PROVE  /\ RemoveAt(s, i) \in Seq(S)
         /\ Len(RemoveAt(s, i)) = Len(s) - 1
         /\ \A j \in 1 .. Len(s) - 1 : RemoveAt(s, i)[j] = IF j < i THEN s[j] ELSE s[j + 1]
<1> DEFINE l == SubSeq(s, 1, i - 1)
           r == SubSeq(s, i + 1, Len(s))
<1>1. Len(s) \in Nat /\ i \in Nat /\ i <= Len(s) /\ 1 <= i
  OBVIOUS
<1>2. /\ l \in Seq(S) /\ Len(l) = i - 1
      /\ \A j \in 1 .. i - 1 : l[j] = s[j]
  BY <1>1
<1>3. /\ r \in Seq(S) /\ Len(r) = Len(s) - i
      /\ \A j \in 1 .. Len(s) - i : r[j] = s[i + j]
  BY <1>1
<1> HIDE DEF l, r
<1>4. /\ l \o r \in Seq(S) /\ Len(l \o r) = Len(s) - 1
      /\ \A j \in 1 .. Len(s) - 1 : (l \o r)[j] = IF j <= i - 1 THEN l[j] ELSE r[j - (i - 1)]
  <2>1. Len(l) + Len(r) = Len(s) - 1
    BY <1>1, <1>2, <1>3
  <2>2. /\ l \o r \in Seq(S) /\ Len(l \o r) = Len(l) + Len(r)
        /\ \A j \in 1 .. Len(l) + Len(r) : (l \o r)[j] = IF j <= Len(l) THEN l[j] ELSE r[j - Len(l)]
    BY <1>2, <1>3, ConcatProperties
  <2> QED
    BY <2>1, <2>2, <1>2
<1>5. ASSUME NEW j \in 1 .. Len(s) - 1
      PROVE  (l \o r)[j] = IF j < i THEN s[j] ELSE s[j + 1]
  <2>1. CASE j < i
    BY <2>1, <1>1, <1>2, <1>4
  <2>2. CASE ~ (j < i)
    <3>1. j - (i - 1) \in 1 .. Len(s) - i /\ i + (j - (i - 1)) = j + 1
      BY <2>2, <1>1
    <3> QED
      BY <2>2, <3>1, <1>1, <1>3, <1>4
  <2> QED
    BY <2>1, <2>2
<1> QED
  BY <1>4, <1>5 DEF RemoveAt, l, r

-----------------------------------------------------------------------------
\* Steps of the invariant.

(* What the nodes are made of.                                              *)
LEMMA NodesAreTyped ==
  ASSUME TypeInv
  PROVE  /\ \A b \in Lists : chain[b] \in Seq(Node) /\ Len(chain[b]) \in Nat /\ DOMAIN chain[b] = 1 .. Len(chain[b])
         /\ \A b \in Lists : \A i \in DOMAIN chain[b] :
              chain[b][i] \in Node /\ chain[b][i].cell \in Cells /\ chain[b][i].key \in Keys /\ chain[b][i].val \in Values
<1>1. \A b \in Lists : chain[b] \in Seq(Node)
  BY DEF TypeInv
<1>2. ASSUME NEW b \in Lists
      PROVE  chain[b] \in Seq(Node) /\ Len(chain[b]) \in Nat /\ DOMAIN chain[b] = 1 .. Len(chain[b])
  BY <1>1
<1>3. ASSUME NEW b \in Lists, NEW i \in DOMAIN chain[b]
      PROVE  chain[b][i] \in Node
  BY <1>1, ElementOfSeq
<1>4. \A n \in Node : n.cell \in Cells /\ n.key \in Keys /\ n.val \in Values
  BY DEF Node
<1> QED
  BY <1>2, <1>3, <1>4

LEMMA IInvInit == Init => IInv
<1> SUFFICES ASSUME Init
             PROVE  IInv
  OBVIOUS
<1>1. TypeInv
  BY TableAssumption DEF Init, TypeInv, Lists, NoList
<1>2. WhileWhole
  BY DEF Init, WhileWhole, Apart, AtHome, UsedIsNotFree, Stale
<1>3. TornNeedsCollision
  BY DEF Init, TornNeedsCollision
<1> QED
  BY <1>1, <1>2, <1>3 DEF IInv

(* What tail->next = new leaves: a node goes in after the first one that is *)
(* in the cell, or nowhere.                                                 *)
LEMMA LinkTypes ==
  ASSUME TypeInv, NEW c, NEW new \in Node
  PROVE  Link(c, new) \in [Lists -> Seq(Node)]
<1> SUFFICES ASSUME NEW b \in Lists
             PROVE  Link(c, new)[b] \in Seq(Node)
  BY DEF Link
<1> DEFINE i == SelectInSeq(chain[b], LAMBDA n : n.cell = c)
<1>1. chain[b] \in Seq(Node)
  BY DEF TypeInv
<1>2. \/ i = 0 /\ \A j \in 1 .. Len(chain[b]) : chain[b][j].cell # c
      \/ i \in 1 .. Len(chain[b]) /\ chain[b][i].cell = c
  BY <1>1, FindCell
<1>3. Link(c, new)[b] = IF i = 0 THEN chain[b] ELSE Append(SubSeq(chain[b], 1, i), new)
  BY DEF Link
<1> HIDE DEF i
<1>4. CASE i = 0
  BY <1>1, <1>3, <1>4
<1>5. CASE i # 0
  <2>1. SubSeq(chain[b], 1, i) \in Seq(Node)
    BY <1>1, <1>2, <1>5
  <2> QED
    BY <1>3, <1>5, <2>1
<1> QED
  BY <1>4, <1>5

(* With the tail in place, the new node goes to the end of its own list.    *)
LEMMA LinkAtTail ==
  ASSUME TypeInv, Apart(chain), NEW b \in Lists, chain[b] # <<>>, ~ Stale(b),
         NEW new \in Node
  PROVE  Link(tail[b], new) = [chain EXCEPT ![b] = Append(chain[b], new)]
<1> DEFINE i(d) == SelectInSeq(chain[d], LAMBDA n : n.cell = tail[b])
           L == Len(chain[b])
<1>1. /\ chain[b] \in Seq(Node) /\ L \in 1 .. L
      /\ tail[b] = chain[b][L].cell
  <2>1. chain[b] \in Seq(Node) /\ L \in 1 .. L
    BY EmptySeq DEF TypeInv
  <2> QED
    BY <2>1 DEF Stale, Last
<1>2. ASSUME NEW d \in Lists
      PROVE  Link(tail[b], new)[d] = IF d = b THEN Append(chain[b], new) ELSE chain[d]
  <2>1. chain[d] \in Seq(Node)
    BY DEF TypeInv
  <2>2. \/ i(d) = 0 /\ \A j \in 1 .. Len(chain[d]) : chain[d][j].cell # tail[b]
        \/ i(d) \in 1 .. Len(chain[d]) /\ chain[d][i(d)].cell = tail[b]
    BY <2>1, FindCell
  <2>3. Link(tail[b], new)[d] = IF i(d) = 0 THEN chain[d] ELSE Append(SubSeq(chain[d], 1, i(d)), new)
    BY DEF Link
  <2> HIDE DEF i
  <2>4. i(d) # 0 => d = b /\ i(d) = L
    BY <1>1, <2>1, <2>2 DEF Apart
  <2>5. d = b => i(d) # 0
    BY <1>1, <2>2
  <2>6. SubSeq(chain[b], 1, L) = chain[b]
    BY <1>1, SubSeqFull
  <2> QED
    BY <2>3, <2>4, <2>5, <2>6
<1>3. chain \in [Lists -> Seq(Node)] /\ DOMAIN Link(tail[b], new) = Lists
  BY DEF TypeInv, Link
<1>4. Link(tail[b], new) = [d \in Lists |-> Link(tail[b], new)[d]]
  BY DEF Link
<1> QED
  BY <1>2, <1>3, <1>4

(* A node that is added leaves the others where they are.                   *)
LEMMA AppendMoves ==
  ASSUME TypeInv, NEW b \in Lists, NEW new \in Node,
         chain' = [chain EXCEPT ![b] = Append(chain[b], new)]
  PROVE  /\ \A d \in Lists : \A i \in DOMAIN chain'[d] :
              \/ i \in DOMAIN chain[d] /\ chain'[d][i] = chain[d][i]
              \/ d = b /\ i = Len(chain[b]) + 1 /\ chain'[d][i] = new
         /\ \A d \in Lists : \A i \in DOMAIN chain[d] :
              i \in DOMAIN chain'[d] /\ chain'[d][i] = chain[d][i]
         /\ Len(chain[b]) + 1 \in DOMAIN chain'[b] /\ chain'[b][Len(chain[b]) + 1] = new
<1> DEFINE L == Len(chain[b])
<1>1. /\ L \in Nat /\ chain[b] \in Seq(Node) /\ DOMAIN chain[b] = 1 .. L
      /\ chain'[b] = Append(chain[b], new)
      /\ \A d \in Lists \ {b} : chain'[d] = chain[d]
  BY DEF TypeInv
<1>2. /\ DOMAIN chain'[b] = 1 .. L + 1 /\ chain'[b][L + 1] = new
      /\ \A i \in 1 .. L : chain'[b][i] = chain[b][i]
  BY <1>1
<1> QED
  BY <1>1, <1>2

(* A new node in a list keeps the nodes apart if its cell was free and its  *)
(* key is not in the list.                                                  *)
LEMMA AppendKeepsWhole ==
  ASSUME TypeInv, TypeInv', Apart(chain), AtHome(chain), UsedIsNotFree,
         NEW b \in Lists, NEW new \in Node, new.cell \in free, Index(new.key) = b,
         \A i \in 1 .. Len(chain[b]) : chain[b][i].key # new.key,
         chain' = [chain EXCEPT ![b] = Append(chain[b], new)],
         free' = free \ {new.cell}
  PROVE  Apart(chain') /\ AtHome(chain') /\ UsedIsNotFree'
<1> DEFINE L == Len(chain[b])
<1>1. /\ \A d \in Lists : \A i \in DOMAIN chain'[d] :
           \/ i \in DOMAIN chain[d] /\ chain'[d][i] = chain[d][i]
           \/ d = b /\ i = L + 1 /\ chain'[d][i] = new
      /\ \A d \in Lists : \A i \in DOMAIN chain[d] :
           i \in DOMAIN chain'[d] /\ chain'[d][i] = chain[d][i]
      /\ L + 1 \in DOMAIN chain'[b] /\ chain'[b][L + 1] = new
  BY AppendMoves, ZenonT(30)
<1>2. DOMAIN chain[b] = 1 .. L
  BY NodesAreTyped
<1>3. \A d \in Lists : \A i \in DOMAIN chain[d] :
        chain[d][i].cell # new.cell /\ chain[d][i].key # new.key
  <2> SUFFICES ASSUME NEW d \in Lists, NEW i \in DOMAIN chain[d]
               PROVE  chain[d][i].cell # new.cell /\ chain[d][i].key # new.key
    OBVIOUS
  <2>1. chain[d][i].cell # new.cell
    <3>1. new.cell \in Cells
      BY DEF Node
    <3> QED
      BY <3>1 DEF UsedIsNotFree
  <2>2. chain[d][i].key # new.key
    BY <1>2 DEF AtHome
  <2> QED
    BY <2>1, <2>2
<1> HIDE DEF L
<1>4. Apart(chain')
  <2> SUFFICES ASSUME NEW d \in Lists, NEW e \in Lists,
                      NEW i \in DOMAIN chain'[d], NEW j \in DOMAIN chain'[e],
                      chain'[d][i].cell = chain'[e][j].cell \/ chain'[d][i].key = chain'[e][j].key
               PROVE  d = e /\ i = j
    BY DEF Apart
  <2>1. CASE i \in DOMAIN chain[d] /\ chain'[d][i] = chain[d][i]
    <3>1. j \in DOMAIN chain[e] /\ chain'[e][j] = chain[e][j]
      BY <2>1, <1>1, <1>3
    <3> QED
      BY <2>1, <3>1 DEF Apart
  <2>2. CASE d = b /\ i = L + 1 /\ chain'[d][i] = new
    <3>1. e = b /\ j = L + 1
      BY <2>2, <1>1, <1>3
    <3> QED
      BY <2>2, <3>1
  <2> QED
    BY <2>1, <2>2, <1>1
<1>5. AtHome(chain')
  BY <1>1 DEF AtHome
<1>6. UsedIsNotFree'
  <2> SUFFICES ASSUME NEW c \in Cells
               PROVE  c \notin free' <=>
                        \E d \in Lists : \E i \in DOMAIN chain'[d] : chain'[d][i].cell = c
    BY DEF UsedIsNotFree
  <2>1. CASE c = new.cell
    BY <2>1, <1>1
  <2>2. CASE c # new.cell
    BY <2>2, <1>1 DEF UsedIsNotFree
  <2> QED
    BY <2>1, <2>2
<1> QED
  BY <1>4, <1>5, <1>6

(* A node that is taken out leaves the others where they are, or one place  *)
(* further up.                                                              *)
From(p, i) == IF i < p THEN i ELSE i + 1

LEMMA RemoveMoves ==
  ASSUME TypeInv, NEW b \in Lists, NEW p \in 1 .. Len(chain[b]),
         chain' = [chain EXCEPT ![b] = RemoveAt(chain[b], p)]
  PROVE  /\ \A d \in Lists \ {b} : chain'[d] = chain[d]
         /\ \A i \in DOMAIN chain'[b] :
              /\ From(p, i) \in DOMAIN chain[b] /\ From(p, i) # p
              /\ chain'[b][i] = chain[b][From(p, i)]
         /\ \A i, j \in DOMAIN chain'[b] : From(p, i) = From(p, j) => i = j
         /\ \A n \in DOMAIN chain[b] : n # p => \E i \in DOMAIN chain'[b] : From(p, i) = n
<1> DEFINE L == Len(chain[b])
<1>1. /\ L \in Nat /\ chain[b] \in Seq(Node) /\ p \in Nat
      /\ chain'[b] = RemoveAt(chain[b], p)
      /\ \A d \in Lists \ {b} : chain'[d] = chain[d]
      /\ DOMAIN chain[b] = 1 .. L
  BY DEF TypeInv
<1>2. /\ DOMAIN chain'[b] = 1 .. L - 1
      /\ \A i \in 1 .. L - 1 : chain'[b][i] = chain[b][From(p, i)]
  <2>1. /\ RemoveAt(chain[b], p) \in Seq(Node) /\ Len(RemoveAt(chain[b], p)) = L - 1
        /\ \A i \in 1 .. L - 1 : RemoveAt(chain[b], p)[i] = IF i < p THEN chain[b][i] ELSE chain[b][i + 1]
    BY <1>1, RemoveProperties
  <2> QED
    BY <2>1, <1>1 DEF From
<1>3. /\ \A i \in 1 .. L - 1 : From(p, i) \in 1 .. L /\ From(p, i) # p
      /\ \A i, j \in 1 .. L - 1 : From(p, i) = From(p, j) => i = j
      /\ \A n \in 1 .. L : n # p => \E i \in 1 .. L - 1 : From(p, i) = n
  <2>1. ASSUME NEW n \in 1 .. L, n # p
        PROVE  \E i \in 1 .. L - 1 : From(p, i) = n
    <3>1. CASE n < p
      BY <3>1, <1>1 DEF From
    <3>2. CASE n > p
      <4>1. n - 1 \in 1 .. L - 1 /\ From(p, n - 1) = n
        BY <3>2, <1>1 DEF From
      <4> QED
        BY <4>1
    <3> QED
      BY <2>1, <3>1, <3>2, <1>1
  <2> QED
    BY <2>1, <1>1 DEF From
<1> QED
  BY <1>1, <1>2, <1>3

(* So the nodes stay apart, and the cell of the one that is gone is free.   *)
LEMMA RemoveKeepsWhole ==
  ASSUME TypeInv, Apart(chain), AtHome(chain), UsedIsNotFree,
         NEW b \in Lists, NEW p \in 1 .. Len(chain[b]),
         chain' = [chain EXCEPT ![b] = RemoveAt(chain[b], p)],
         free' = free \union {chain[b][p].cell}
  PROVE  Apart(chain') /\ AtHome(chain') /\ UsedIsNotFree'
<1>1. /\ \A d \in Lists \ {b} : chain'[d] = chain[d]
      /\ \A i \in DOMAIN chain'[b] :
           /\ From(p, i) \in DOMAIN chain[b] /\ From(p, i) # p
           /\ chain'[b][i] = chain[b][From(p, i)]
      /\ \A i, j \in DOMAIN chain'[b] : From(p, i) = From(p, j) => i = j
      /\ \A n \in DOMAIN chain[b] : n # p => \E i \in DOMAIN chain'[b] : From(p, i) = n
  BY RemoveMoves, ZenonT(30)
<1>2. p \in DOMAIN chain[b]
  BY NodesAreTyped
<1>4. Apart(chain')
  <2> SUFFICES ASSUME NEW d \in Lists, NEW e \in Lists,
                      NEW i \in DOMAIN chain'[d], NEW j \in DOMAIN chain'[e],
                      chain'[d][i].cell = chain'[e][j].cell \/ chain'[d][i].key = chain'[e][j].key
               PROVE  d = e /\ i = j
    BY DEF Apart
  <2> DEFINE m == IF d = b THEN From(p, i) ELSE i
             n == IF e = b THEN From(p, j) ELSE j
  <2>1. m \in DOMAIN chain[d] /\ chain'[d][i] = chain[d][m]
    BY <1>1
  <2>2. n \in DOMAIN chain[e] /\ chain'[e][j] = chain[e][n]
    BY <1>1
  <2>3. d = e /\ m = n
    BY <2>1, <2>2 DEF Apart
  <2> QED
    BY <2>3, <1>1
<1>5. AtHome(chain')
  <2> SUFFICES ASSUME NEW d \in Lists, NEW i \in DOMAIN chain'[d]
               PROVE  Index(chain'[d][i].key) = d
    BY DEF AtHome
  <2>1. \E m \in DOMAIN chain[d] : chain'[d][i] = chain[d][m]
    BY <1>1
  <2> QED
    BY <2>1 DEF AtHome
<1>6. UsedIsNotFree'
  <2> SUFFICES ASSUME NEW c \in Cells
               PROVE  c \notin free' <=>
                        \E d \in Lists : \E i \in DOMAIN chain'[d] : chain'[d][i].cell = c
    BY DEF UsedIsNotFree
  <2>1. CASE c = chain[b][p].cell
    <3>1. ASSUME NEW d \in Lists, NEW i \in DOMAIN chain'[d], chain'[d][i].cell = c
          PROVE  FALSE
      <4> DEFINE m == IF d = b THEN From(p, i) ELSE i
      <4>1. m \in DOMAIN chain[d] /\ chain'[d][i] = chain[d][m] /\ (d = b => m # p)
        BY <1>1
      <4> QED
        BY <2>1, <3>1, <4>1, <1>2 DEF Apart
    <3> QED
      BY <2>1, <3>1
  <2>2. CASE c # chain[b][p].cell
    <3>1. ASSUME NEW d \in Lists, NEW i \in DOMAIN chain'[d]
          PROVE  \E m \in DOMAIN chain[d] : chain'[d][i] = chain[d][m]
      BY <1>1
    <3>2. ASSUME NEW d \in Lists, NEW m \in DOMAIN chain[d], d # b \/ m # p
          PROVE  \E i \in DOMAIN chain'[d] : chain'[d][i] = chain[d][m]
      <4>1. CASE d # b
        BY <4>1, <1>1
      <4>2. CASE d = b
        <5>1. PICK i \in DOMAIN chain'[b] : From(p, i) = m
          BY <3>2, <4>2, <1>1
        <5> QED
          BY <4>2, <5>1, <1>1
      <4> QED
        BY <4>1, <4>2
    <3>3. c \notin free' <=> c \notin free
      BY <2>2
    <3>4. ASSUME c \notin free
          PROVE  \E d \in Lists : \E i \in DOMAIN chain'[d] : chain'[d][i].cell = c
      <4>1. PICK d \in Lists : \E m \in DOMAIN chain[d] : chain[d][m].cell = c
        BY <3>4 DEF UsedIsNotFree
      <4>2. PICK m \in DOMAIN chain[d] : chain[d][m].cell = c
        BY <4>1
      <4>3. \E i \in DOMAIN chain'[d] : chain'[d][i] = chain[d][m]
        BY <4>2, <2>2, <3>2
      <4> QED
        BY <4>2, <4>3
    <3>5. ASSUME NEW d \in Lists, NEW i \in DOMAIN chain'[d], chain'[d][i].cell = c
          PROVE  c \notin free
      BY <3>1, <3>5 DEF UsedIsNotFree
    <3> QED
      BY <3>3, <3>4, <3>5
  <2> QED
    BY <2>1, <2>2
<1> QED
  BY <1>4, <1>5, <1>6

LEMMA AddStep ==
  ASSUME IInv, NEW b \in Lists, NEW new \in Node, new.cell \in free, Index(new.key) = b,
         \A i \in 1 .. Len(chain[b]) : chain[b][i].key # new.key,
         ListAdd(b, new)
  PROVE  /\ IInv'
         /\ torn' = NoList => chain' = [chain EXCEPT ![b] = Append(chain[b], new)]
<1>0. TypeInv /\ WhileWhole /\ TornNeedsCollision
  BY DEF IInv
<1>1. chain[b] \in Seq(Node) /\ NoList \notin Lists
  BY <1>0, TableAssumption DEF TypeInv, NoList, Lists
<1>2. TypeInv'
  <2>1. chain' \in [Lists -> Seq(Node)]
    <3>1. CASE chain[b] = <<>>
      BY <3>1, <1>0 DEF ListAdd, TypeInv
    <3>2. CASE chain[b] # <<>>
      <4>1. Link(tail[b], new) \in [Lists -> Seq(Node)]
        BY <1>0, LinkTypes
      <4> QED
        BY <4>1, <3>2 DEF ListAdd
    <3> QED
      BY <3>1, <3>2
  <2>2. new.cell \in Cells
    BY DEF Node
  <2>3. tail' \in [Lists -> Cells \union {NoCell}] /\ free' \subseteq Cells
    BY <2>2, <1>0 DEF ListAdd, TypeInv
  <2>4. life' \in {"up", "crashed", "astray", "destroyed"} /\ torn' \in Lists \union {NoList}
    BY <1>0 DEF ListAdd, TypeInv
  <2> QED
    BY <2>1, <2>3, <2>4 DEF TypeInv
<1>3. ASSUME torn' = NoList
      PROVE  /\ Apart(chain) /\ AtHome(chain) /\ UsedIsNotFree
             /\ \A d \in Lists : Stale(d) => Shared(d)
             /\ chain' = [chain EXCEPT ![b] = Append(chain[b], new)]
  <2>1. torn = NoList /\ ~ Stale(b)
    BY <1>1, <1>3 DEF ListAdd
  <2>2. Apart(chain) /\ AtHome(chain) /\ UsedIsNotFree /\ \A d \in Lists : Stale(d) => Shared(d)
    BY <2>1, <1>0 DEF WhileWhole
  <2>3. CASE chain[b] = <<>>
    <3>1. Append(chain[b], new) = <<new>>
      BY <2>3
    <3> QED
      BY <2>2, <2>3, <3>1 DEF ListAdd
  <2>4. CASE chain[b] # <<>>
    <3>1. Link(tail[b], new) = [chain EXCEPT ![b] = Append(chain[b], new)]
      BY <2>1, <2>2, <2>4, <1>0, LinkAtTail
    <3> QED
      BY <2>2, <2>4, <3>1 DEF ListAdd
  <2> QED
    BY <2>3, <2>4
<1>4. WhileWhole'
  <2> SUFFICES ASSUME torn' = NoList
               PROVE  /\ Apart(chain') /\ AtHome(chain') /\ UsedIsNotFree'
                      /\ \A d \in Lists : Stale(d)' => Shared(d)
    BY DEF WhileWhole, Shared
  <2>1. free' = free \ {new.cell} /\ tail' = [tail EXCEPT ![b] = new.cell]
    BY DEF ListAdd
  <2>2. Apart(chain') /\ AtHome(chain') /\ UsedIsNotFree'
    BY <1>0, <1>2, <1>3, <2>1, AppendKeepsWhole
  <2>3. ASSUME NEW d \in Lists, Stale(d)'
        PROVE  Shared(d)
    <3>1. CASE d = b
      <4>1. chain'[b] = Append(chain[b], new) /\ tail'[b] = new.cell
        BY <1>0, <1>3, <2>1 DEF TypeInv
      <4>2. Last(chain'[b]) = new
        BY <4>1, <1>1 DEF Last
      <4> QED
        BY <2>3, <3>1, <4>1, <4>2 DEF Stale
    <3>2. CASE d # b
      <4>1. chain'[d] = chain[d] /\ tail'[d] = tail[d]
        BY <3>2, <1>0, <1>3, <2>1 DEF TypeInv
      <4>2. Stale(d)
        BY <2>3, <4>1 DEF Stale
      <4> QED
        BY <4>2, <1>3
    <3> QED
      BY <3>1, <3>2
  <2> QED
    BY <2>2, <2>3
<1>5. TornNeedsCollision'
  <2>1. CASE torn' = torn
    BY <2>1, <1>0 DEF TornNeedsCollision
  <2>2. CASE torn' # torn
    <3>1. torn = NoList /\ Stale(b) /\ torn' = b
      BY <2>2 DEF ListAdd
    <3>2. Shared(b)
      BY <3>1, <1>0 DEF WhileWhole
    <3> QED
      BY <3>1, <3>2 DEF TornNeedsCollision, Shared
  <2> QED
    BY <2>1, <2>2
<1> QED
  BY <1>2, <1>3, <1>4, <1>5 DEF IInv

(* entry_replace changes the data of one node and nothing else.             *)
LEMMA ReplaceProperties ==
  ASSUME TypeInv, NEW b \in Lists, NEW p \in 1 .. Len(chain[b]), NEW v \in Values,
         chain' = [chain EXCEPT ![b][p].val = v]
  PROVE  /\ chain' \in [Lists -> Seq(Node)]
         /\ \A d \in Lists : DOMAIN chain'[d] = DOMAIN chain[d] /\ Len(chain'[d]) = Len(chain[d])
         /\ \A d \in Lists : \A i \in DOMAIN chain[d] :
              /\ chain'[d][i].cell = chain[d][i].cell
              /\ chain'[d][i].key = chain[d][i].key
              /\ (d = b /\ i = p => chain'[d][i].val = v) /\ (~ (d = b /\ i = p) => chain'[d][i].val = chain[d][i].val)
<1> DEFINE e == [chain[b][p] EXCEPT !.val = v]
<1>1. chain \in [Lists -> Seq(Node)] /\ chain[b] \in Seq(Node)
  BY DEF TypeInv
<1>2. chain[b][p] \in Node
  BY <1>1, ElementOfSeq
<1>3. e \in Node /\ e.cell = chain[b][p].cell /\ e.key = chain[b][p].key /\ e.val = v
  BY <1>2 DEF Node
<1>4. chain' = [chain EXCEPT ![b] = [chain[b] EXCEPT ![p] = e]]
  OBVIOUS
<1> HIDE DEF e
<1>5. /\ [chain[b] EXCEPT ![p] = e] \in Seq(Node)
      /\ Len([chain[b] EXCEPT ![p] = e]) = Len(chain[b])
      /\ \A i \in 1 .. Len(chain[b]) : [chain[b] EXCEPT ![p] = e][i] = IF i = p THEN e ELSE chain[b][i]
  BY <1>1, <1>3, ExceptSeq
<1>6. /\ chain' \in [Lists -> Seq(Node)]
      /\ chain'[b] = [chain[b] EXCEPT ![p] = e]
      /\ \A d \in Lists \ {b} : chain'[d] = chain[d]
  BY <1>1, <1>4, <1>5
<1>7. DOMAIN chain[b] = 1 .. Len(chain[b]) /\ DOMAIN chain'[b] = 1 .. Len(chain[b])
  BY <1>1, <1>5, <1>6, LenProperties
<1>8. \A d \in Lists : DOMAIN chain'[d] = DOMAIN chain[d] /\ Len(chain'[d]) = Len(chain[d])
  BY <1>5, <1>6, <1>7
<1>9. ASSUME NEW d \in Lists, NEW i \in DOMAIN chain[d]
      PROVE  /\ chain'[d][i].cell = chain[d][i].cell
             /\ chain'[d][i].key = chain[d][i].key
             /\ chain'[d][i].val = IF d = b /\ i = p THEN v ELSE chain[d][i].val
  <2>1. CASE d = b
    <3>1. i \in 1 .. Len(chain[b])
      BY <2>1, <1>7
    <3>2. chain'[d][i] = IF i = p THEN e ELSE chain[d][i]
      BY <2>1, <3>1, <1>5, <1>6
    <3> QED
      BY <2>1, <3>2, <1>3
  <2>2. CASE d # b
    BY <2>2, <1>6
  <2> QED
    BY <2>1, <2>2
<1> QED
  BY <1>6, <1>8, <1>9

LEMMA ReplaceStep ==
  ASSUME IInv, NEW b \in Lists, NEW p \in 1 .. Len(chain[b]), NEW v \in Values,
         chain' = [chain EXCEPT ![b][p].val = v],
         UNCHANGED <<tail, free, life, torn>>
  PROVE  IInv'
<1>0. TypeInv /\ WhileWhole /\ TornNeedsCollision
  BY DEF IInv
<1>1. /\ chain' \in [Lists -> Seq(Node)]
      /\ \A d \in Lists : DOMAIN chain'[d] = DOMAIN chain[d] /\ Len(chain'[d]) = Len(chain[d])
      /\ \A d \in Lists : \A i \in DOMAIN chain[d] :
           chain'[d][i].cell = chain[d][i].cell /\ chain'[d][i].key = chain[d][i].key
  BY <1>0, ReplaceProperties
<1>2. TypeInv'
  BY <1>0, <1>1 DEF TypeInv
<1>3. WhileWhole'
  <2> SUFFICES ASSUME torn = NoList
               PROVE  /\ Apart(chain') /\ AtHome(chain') /\ UsedIsNotFree'
                      /\ \A d \in Lists : Stale(d)' => Shared(d)
    BY DEF WhileWhole, Shared
  <2>0. /\ Apart(chain) /\ AtHome(chain) /\ UsedIsNotFree
        /\ \A d \in Lists : Stale(d) => Shared(d)
    BY <1>0 DEF WhileWhole
  <2>1. Apart(chain')
    BY <1>1, <2>0 DEF Apart
  <2>2. AtHome(chain')
    BY <1>1, <2>0 DEF AtHome
  <2>3. UsedIsNotFree'
    BY <1>1, <2>0 DEF UsedIsNotFree
  <2>4. ASSUME NEW d \in Lists, Stale(d)'
        PROVE  Shared(d)
    <3>1. chain'[d] \in Seq(Node) /\ chain[d] \in Seq(Node) /\ Len(chain'[d]) = Len(chain[d])
      BY <1>0, <1>1 DEF TypeInv
    <3>2. chain'[d] # <<>>
      BY <2>4 DEF Stale
    <3>3. Len(chain[d]) \in DOMAIN chain[d] /\ chain[d] # <<>>
      BY <3>1, <3>2, EmptySeq
    <3>4. Last(chain'[d]).cell = Last(chain[d]).cell
      BY <3>1, <3>3, <1>1 DEF Last
    <3>5. Stale(d)
      BY <2>4, <3>3, <3>4 DEF Stale
    <3> QED
      BY <3>5, <2>0
  <2> QED
    BY <2>1, <2>2, <2>3, <2>4
<1>4. TornNeedsCollision'
  BY <1>0 DEF TornNeedsCollision
<1> QED
  BY <1>2, <1>3, <1>4 DEF IInv

LEMMA RemoveStep ==
  ASSUME IInv, NEW b \in Lists, NEW p \in 1 .. Len(chain[b]),
         ListRemove(b, p), UNCHANGED <<tail, life, torn>>
  PROVE  IInv'
<1>0. TypeInv /\ WhileWhole /\ TornNeedsCollision
  BY DEF IInv
<1>1. /\ chain' = [chain EXCEPT ![b] = RemoveAt(chain[b], p)]
      /\ free' = free \union {chain[b][p].cell}
  BY DEF ListRemove
<1>2. /\ chain[b] \in Seq(Node) /\ p \in DOMAIN chain[b] /\ chain[b][p].cell \in Cells
  BY <1>0, NodesAreTyped
<1>3. /\ RemoveAt(chain[b], p) \in Seq(Node)
      /\ Len(RemoveAt(chain[b], p)) = Len(chain[b]) - 1
  BY <1>2, RemoveProperties
<1>4. TypeInv'
  BY <1>0, <1>1, <1>2, <1>3 DEF TypeInv
<1>5. WhileWhole'
  <2> SUFFICES ASSUME torn = NoList
               PROVE  /\ Apart(chain') /\ AtHome(chain') /\ UsedIsNotFree'
                      /\ \A d \in Lists : Stale(d)' => Shared(d)
    BY DEF WhileWhole, Shared
  <2>0. /\ Apart(chain) /\ AtHome(chain) /\ UsedIsNotFree
        /\ \A d \in Lists : Stale(d) => Shared(d)
    BY <1>0 DEF WhileWhole
  <2>1. Apart(chain') /\ AtHome(chain') /\ UsedIsNotFree'
    BY <1>0, <1>1, <2>0, RemoveKeepsWhole
  <2>2. ASSUME NEW d \in Lists, Stale(d)'
        PROVE  Shared(d)
    <3>1. CASE d = b
      <4>1. chain'[b] # <<>> /\ chain'[b] = RemoveAt(chain[b], p)
        BY <2>2, <3>1, <1>0, <1>1 DEF Stale, TypeInv
      <4>2. Len(chain[b]) \in Nat /\ Len(chain[b]) # 1
        BY <4>1, <1>2, <1>3, EmptySeq
      <4>3. 1 \in DOMAIN chain[b] /\ 2 \in DOMAIN chain[b]
        <5>1. DOMAIN chain[b] = 1 .. Len(chain[b])
          BY <1>2, LenProperties
        <5>2. 1 <= Len(chain[b])
          BY <4>2
        <5>3. 2 <= Len(chain[b])
          <6>1. \A n \in Nat : n # 1 /\ 1 <= n => 2 <= n
            OBVIOUS
          <6> QED
            BY <4>2, <5>2, <6>1
        <5> QED
          BY <4>2, <5>1, <5>2, <5>3
      <4>4. /\ chain[b][1].key # chain[b][2].key
            /\ Index(chain[b][1].key) = b /\ Index(chain[b][2].key) = b
        BY <4>3, <2>0 DEF Apart, AtHome
      <4>5. chain[b][1].key \in Keys /\ chain[b][2].key \in Keys
        BY <4>3, <1>0, NodesAreTyped
      <4> QED
        BY <3>1, <4>4, <4>5 DEF Shared
    <3>2. CASE d # b
      <4>1. chain'[d] = chain[d] /\ tail'[d] = tail[d]
        BY <3>2, <1>0, <1>1 DEF TypeInv
      <4>2. Stale(d)
        BY <2>2, <4>1 DEF Stale
      <4> QED
        BY <4>2, <2>0
    <3> QED
      BY <3>1, <3>2
  <2> QED
    BY <2>1, <2>2
<1>6. TornNeedsCollision'
  BY <1>0 DEF TornNeedsCollision
<1> QED
  BY <1>4, <1>5, <1>6 DEF IInv

LEMMA DestroyStep ==
  ASSUME IInv, Destroy
  PROVE  IInv'
<1>0. TypeInv /\ WhileWhole /\ TornNeedsCollision
  BY DEF IInv
<1>1. /\ free' = free \union UNION {ListDestroy(b) : b \in Lists}
      /\ chain' = [b \in Lists |-> <<>>] /\ life' = "destroyed"
      /\ tail' = tail /\ torn' = torn
  BY DEF Destroy
<1>2. \A c : c \in UNION {ListDestroy(b) : b \in Lists} <=>
        \E b \in Lists : \E i \in DOMAIN chain[b] : chain[b][i].cell = c
  BY DEF ListDestroy, ToSet
<1>3. TypeInv'
  <2>1. free' \subseteq Cells
    <3>1. \A b \in Lists : \A i \in DOMAIN chain[b] : chain[b][i].cell \in Cells
      BY <1>0, NodesAreTyped
    <3>2. UNION {ListDestroy(b) : b \in Lists} \subseteq Cells
      BY <1>2, <3>1
    <3> QED
      BY <3>2, <1>0, <1>1 DEF TypeInv
  <2> QED
    BY <2>1, <1>0, <1>1 DEF TypeInv
<1>4. WhileWhole'
  <2> SUFFICES ASSUME torn = NoList
               PROVE  /\ Apart(chain') /\ AtHome(chain') /\ UsedIsNotFree'
                      /\ \A d \in Lists : ~ Stale(d)'
    BY <1>1 DEF WhileWhole
  <2>1. UsedIsNotFree'
    BY <1>0, <1>1, <1>2 DEF WhileWhole, UsedIsNotFree
  <2> QED
    BY <2>1, <1>1 DEF Apart, AtHome, Stale
<1>5. TornNeedsCollision'
  BY <1>0, <1>1 DEF TornNeedsCollision
<1> QED
  BY <1>3, <1>4, <1>5 DEF IInv

LEMMA SameLists ==
  ASSUME IInv, UNCHANGED <<chain, tail, free, torn>>, life' \in {"up", "crashed", "astray", "destroyed"}
  PROVE  IInv'
<1>1. TypeInv'
  BY DEF IInv, TypeInv
<1>2. WhileWhole'
  BY DEF IInv, WhileWhole, Apart, AtHome, UsedIsNotFree, Stale, Shared
<1>3. TornNeedsCollision'
  BY DEF IInv, TornNeedsCollision
<1> QED
  BY <1>1, <1>2, <1>3 DEF IInv

(* list_get_node finds the node, and finds none only if there is none.      *)
LEMMA PositionFinds ==
  ASSUME TypeInv, NEW b \in Lists, NEW k
  PROVE  \/ Position(b, k) = 0 /\ \A i \in 1 .. Len(chain[b]) : chain[b][i].key # k
         \/ Position(b, k) \in 1 .. Len(chain[b]) /\ chain[b][Position(b, k)].key = k
<1>1. chain[b] \in Seq(Node)
  BY DEF TypeInv
<1> QED
  BY <1>1, FindKey DEF Position

LEMMA IInvNext == IInv /\ [Next]_vars => IInv'
<1> SUFFICES ASSUME IInv, [Next]_vars
             PROVE  IInv'
  OBVIOUS
<1>0. TypeInv
  BY DEF IInv
<1>1. ASSUME NEW k \in Keys, NEW v \in Values, Put(k, v)
      PROVE  IInv'
  <2>1. CASE Index(k) \notin Lists
    BY <1>1, <2>1, SameLists DEF Put, OffTheLists, Crash
  <2>2. CASE Index(k) \in Lists
    <3> DEFINE b == Index(k)
               i == Position(b, k)
    <3>1. CASE i = 0
      <4>1. \A j \in 1 .. Len(chain[b]) : chain[b][j].key # k
        BY <1>0, <2>2, <3>1, PositionFinds
      <4>2. CASE Crash
        BY <4>2, SameLists DEF Crash
      <4>3. CASE \E c \in free : ListAdd(b, [cell |-> c, key |-> k, val |-> v])
        <5>1. PICK c \in free : ListAdd(b, [cell |-> c, key |-> k, val |-> v])
          BY <4>3
        <5>2. [cell |-> c, key |-> k, val |-> v] \in Node
          BY <1>0 DEF Node, TypeInv
        <5> QED
          BY <2>2, <4>1, <5>1, <5>2, AddStep
      <4> QED
        BY <1>1, <2>2, <3>1, <4>2, <4>3 DEF Put
    <3>2. CASE i # 0
      <4>1. i \in 1 .. Len(chain[b])
        BY <1>0, <2>2, <3>2, PositionFinds
      <4>2. chain' = [chain EXCEPT ![b][i].val = v] /\ UNCHANGED <<tail, free, life, torn>>
        BY <1>1, <2>2, <3>2 DEF Put
      <4> QED
        BY <2>2, <4>1, <4>2, ReplaceStep
    <3> QED
      BY <3>1, <3>2
  <2> QED
    BY <2>1, <2>2
<1>2. ASSUME NEW k \in Keys, Del(k)
      PROVE  IInv'
  <2>1. CASE Index(k) \notin Lists
    BY <1>2, <2>1, SameLists DEF Del, OffTheLists, Crash
  <2>2. CASE Index(k) \in Lists
    <3> DEFINE b == Index(k)
               i == Position(b, k)
    <3>1. UNCHANGED <<tail, life, torn>>
      BY <1>2, <2>2 DEF Del
    <3>2. CASE i = 0
      <4>1. UNCHANGED <<chain, free>>
        BY <1>2, <2>2, <3>2 DEF Del
      <4>2. life' \in {"up", "crashed", "astray", "destroyed"}
        BY <1>0, <3>1 DEF TypeInv
      <4> QED
        BY <3>1, <4>1, <4>2, SameLists
    <3>3. CASE i # 0
      <4>1. i \in 1 .. Len(chain[b]) /\ ListRemove(b, i)
        BY <1>0, <1>2, <2>2, <3>3, PositionFinds DEF Del
      <4> QED
        BY <2>2, <3>1, <4>1, RemoveStep
    <3> QED
      BY <3>2, <3>3
  <2> QED
    BY <2>1, <2>2
<1>3. ASSUME NEW k \in Keys, Get(k)
      PROVE  IInv'
  BY <1>0, <1>3, SameLists DEF Get, OffTheLists, Crash, TypeInv
<1>4. CASE Size
  BY <1>0, <1>4, SameLists DEF Size, TypeInv
<1>5. CASE GetKeys
  BY <1>0, <1>5, SameLists DEF GetKeys, TypeInv
<1>6. CASE TableToString
  BY <1>0, <1>6, SameLists DEF TableToString, Crash, TypeInv
<1>7. CASE Destroy
  BY <1>7, DestroyStep
<1>8. CASE UNCHANGED vars
  BY <1>0, <1>8, SameLists DEF vars, TypeInv
<1> QED
  BY <1>1, <1>2, <1>3, <1>4, <1>5, <1>6, <1>7, <1>8 DEF Next

LEMMA IInvAlways == Spec => []IInv
<1>1. Init => IInv
  BY IInvInit
<1>2. IInv /\ [Next]_vars => IInv'
  BY IInvNext
<1> QED
  BY <1>1, <1>2, PTL DEF Spec

-----------------------------------------------------------------------------
\* All nodes in one sequence.

LEMMA Joined ==
  ASSUME NEW S, NEW s \in Seq(S), NEW t \in Seq(S)
  PROVE  /\ s \o t \in Seq(S)
         /\ \A i \in 1 .. Len(s \o t) :
              \/ i \in 1 .. Len(s) /\ (s \o t)[i] = s[i]
              \/ i - Len(s) \in 1 .. Len(t) /\ (s \o t)[i] = t[i - Len(s)]
         /\ \A i \in 1 .. Len(s) : i \in 1 .. Len(s \o t) /\ (s \o t)[i] = s[i]
         /\ \A i \in 1 .. Len(t) :
              Len(s) + i \in 1 .. Len(s \o t) /\ (s \o t)[Len(s) + i] = t[i]
<1>1. /\ s \o t \in Seq(S) /\ Len(s \o t) = Len(s) + Len(t)
      /\ \A i \in 1 .. Len(s) + Len(t) : (s \o t)[i] = IF i <= Len(s) THEN s[i] ELSE t[i - Len(s)]
  BY ConcatProperties
<1>2. Len(s) \in Nat /\ Len(t) \in Nat
  OBVIOUS
<1>3. ASSUME NEW i \in 1 .. Len(t)
      PROVE  Len(s) + i \in 1 .. Len(s \o t) /\ (s \o t)[Len(s) + i] = t[i]
  <2>1. Len(s) + i \in 1 .. Len(s) + Len(t) /\ ~ (Len(s) + i <= Len(s)) /\ Len(s) + i - Len(s) = i
    BY <1>2
  <2> QED
    BY <2>1, <1>1
<1>4. ASSUME NEW i \in 1 .. Len(s \o t)
      PROVE  \/ i \in 1 .. Len(s) /\ (s \o t)[i] = s[i]
             \/ i - Len(s) \in 1 .. Len(t) /\ (s \o t)[i] = t[i - Len(s)]
  <2>1. CASE i <= Len(s)
    BY <2>1, <1>1, <1>2
  <2>2. CASE ~ (i <= Len(s))
    <3>1. i - Len(s) \in 1 .. Len(t)
      BY <2>2, <1>1, <1>2
    <3> QED
      BY <2>2, <3>1, <1>1
  <2> QED
    BY <2>1, <2>2
<1>5. \A i \in 1 .. Len(s) : i \in 1 .. Len(s \o t) /\ (s \o t)[i] = s[i]
  BY <1>1, <1>2
<1> QED
  BY <1>1, <1>3, <1>4, <1>5

(* The sequences that FlattenSeq joins one after the other.                 *)
Joins(g, s, m) == g[1] = s[1] /\ \A i \in Nat : 1 <= i /\ i < m => g[i + 1] = g[i] \o s[i + 1]

LEMMA JoinsExist ==
  ASSUME NEW n \in Nat \ {0}, NEW s
  PROVE  \E g : Joins(g, s, n)
<1> DEFINE A == {m \in Nat : \E g : Joins(g, s, m + 1)}
<1>1. 0 \in A
  <2> DEFINE f == [i \in 1 .. 1 |-> s[1]]
  <2>1. f[1] = s[1]
    OBVIOUS
  <2> HIDE DEF f
  <2>2. Joins(f, s, 0 + 1)
    <3>1. \A i \in Nat : ~ (1 <= i /\ i < 0 + 1)
      OBVIOUS
    <3> QED
      BY <2>1, <3>1 DEF Joins
  <2> QED
    BY <2>2
<1>2. ASSUME NEW m \in Nat, m \in A
      PROVE  m + 1 \in A
  <2>1. PICK g : Joins(g, s, m + 1)
    BY <1>2
  <2> DEFINE f == [i \in 1 .. m + 2 |-> IF i <= m + 1 THEN g[i] ELSE g[m + 1] \o s[m + 2]]
  <2>2. \A i \in 1 .. m + 1 : f[i] = g[i]
    OBVIOUS
  <2>3. f[m + 2] = g[m + 1] \o s[m + 2]
    <3>1. m + 2 \in 1 .. m + 2 /\ ~ (m + 2 <= m + 1)
      OBVIOUS
    <3> QED
      BY <3>1
  <2> HIDE DEF f
  <2>4. f[1] = s[1]
    BY <2>1, <2>2 DEF Joins
  <2>5. ASSUME NEW i \in Nat, 1 <= i, i < m + 1 + 1
        PROVE  f[i + 1] = f[i] \o s[i + 1]
    <3>1. CASE i = m + 1
      <4>1. i + 1 = m + 2 /\ i \in 1 .. m + 1
        BY <3>1
      <4>2. f[i] = g[i]
        BY <4>1, <2>2
      <4>3. f[i + 1] = g[i] \o s[i + 1]
        BY ONLY <3>1, <4>1, <2>3
      <4> QED
        BY ONLY <4>2, <4>3
    <3>2. CASE i # m + 1
      <4>1. i < m + 1 /\ i \in 1 .. m + 1 /\ i + 1 \in 1 .. m + 1
        BY <2>5, <3>2
      <4>2. g[i + 1] = g[i] \o s[i + 1]
        BY <2>5, <4>1, <2>1 DEF Joins
      <4> QED
        BY <4>1, <4>2, <2>2
    <3> QED
      BY <3>1, <3>2
  <2>6. Joins(f, s, m + 1 + 1)
    BY <2>4, <2>5 DEF Joins
  <2> QED
    BY <2>6
<1> HIDE DEF A
<1>3. Nat \subseteq A
  BY <1>1, <1>2, Induct
<1>4. n - 1 \in Nat /\ n - 1 + 1 = n
  OBVIOUS
<1>5. n - 1 \in A
  BY <1>3, <1>4
<1> QED
  BY <1>4, <1>5 DEF A

LEMMA FlattenJoins ==
  ASSUME NEW S, NEW n \in Nat \ {0}, NEW s \in [1 .. n -> Seq(S)]
  PROVE  \E h : FlattenSeq(s) = h[n] /\ Joins(h, s, n)
<1> DEFINE F(h) == [i \in 1 .. n |-> IF i = 1 THEN s[i] ELSE h[i - 1] \o s[i]]
<1>1. \E h : h = F(h)
  <2>1. PICK g : Joins(g, s, n)
    BY JoinsExist
  <2> DEFINE f == [i \in 1 .. n |-> g[i]]
  <2>2. ASSUME NEW i \in 1 .. n
        PROVE  f[i] = IF i = 1 THEN s[i] ELSE f[i - 1] \o s[i]
    <3>1. CASE i = 1
      BY <3>1, <2>1 DEF Joins
    <3>2. CASE i # 1
      <4>1. i - 1 \in Nat /\ 1 <= i - 1 /\ i - 1 < n /\ i - 1 \in 1 .. n /\ i - 1 + 1 = i
        BY <3>2
      <4>2. g[i] = g[i - 1] \o s[i]
        BY <2>1, <4>1 DEF Joins
      <4> QED
        BY <3>2, <4>1, <4>2
    <3> QED
      BY <3>1, <3>2
  <2>3. f = F(f)
    BY <2>2
  <2> HIDE DEF f
  <2> QED
    BY <2>3
<1> DEFINE h == CHOOSE h : h = F(h)
<1>2. h = F(h)
  BY <1>1
<1>3. s \in Seq(Seq(S)) /\ Len(s) = n
  <2>1. Len(s) = n
    OBVIOUS
  <2> QED
    BY <2>1
<1>4. FlattenSeq(s) = h[n]
  BY <1>3 DEF FlattenSeq
<1> HIDE DEF h
<1>5. \A i \in 1 .. n : h[i] = IF i = 1 THEN s[i] ELSE h[i - 1] \o s[i]
  BY <1>2
<1> HIDE DEF F
<1>6. h[1] = s[1]
  BY <1>5
<1>7. ASSUME NEW i \in Nat, 1 <= i, i < n
      PROVE  h[i + 1] = h[i] \o s[i + 1]
  <2>1. i + 1 \in 1 .. n /\ i + 1 # 1 /\ i + 1 - 1 = i
    BY <1>7
  <2>2. ASSUME NEW j \in 1 .. n, j = i + 1
        PROVE  h[j] = h[i] \o s[j]
    <3>1. j # 1 /\ j - 1 = i
      BY <1>7, <2>2
    <3> QED
      BY <1>5, <3>1
  <2> QED
    BY <2>1, <2>2
<1>8. Joins(h, s, n)
  BY <1>6, <1>7 DEF Joins
<1> QED
  BY <1>4, <1>8

(* What table_get_keys visits: every node of every list, and each once.     *)
LEMMA AllNodesVisited ==
  ASSUME TypeInv
  PROVE  /\ AllNodes \in Seq(Node)
         /\ \A x \in DOMAIN AllNodes : \E b \in Lists : \E i \in DOMAIN chain[b] : AllNodes[x] = chain[b][i]
         /\ \A b \in Lists : \A i \in DOMAIN chain[b] : \E x \in DOMAIN AllNodes : AllNodes[x] = chain[b][i]
         /\ Apart(chain) => \A x, y \in DOMAIN AllNodes :
              AllNodes[x].cell = AllNodes[y].cell \/ AllNodes[x].key = AllNodes[y].key => x = y
<1> DEFINE s == [i \in 1 .. N |-> chain[i - 1]]
<1>1. /\ s \in [1 .. N -> Seq(Node)]
      /\ \A m \in Nat : m < N => s[m + 1] = chain[m] /\ chain[m] \in Seq(Node)
  <2>1. chain \in [Lists -> Seq(Node)] /\ \A m \in Nat : m < N => m \in Lists
    BY TableAssumption DEF TypeInv, Lists
  <2>2. \A i \in 1 .. N : i - 1 \in Lists
    BY TableAssumption DEF Lists
  <2>3. s \in [1 .. N -> Seq(Node)]
    BY <2>1, <2>2
  <2>4. \A m \in Nat : m < N => m + 1 \in 1 .. N /\ m + 1 - 1 = m
    BY TableAssumption
  <2>5. \A m \in Nat : m < N => s[m + 1] = chain[m]
    BY <2>4
  <2> QED
    BY <2>1, <2>3, <2>5
<1> DEFINE all == FlattenSeq(s)
<1>2. AllNodes = all
  BY DEF AllNodes
<1> HIDE DEF s
<1>3. PICK h : all = h[N] /\ Joins(h, s, N)
  BY <1>1, TableAssumption, FlattenJoins
<1>4. h[1] = chain[0] /\ \A m \in Nat : 1 <= m /\ m < N => h[m + 1] = h[m] \o chain[m]
  <2>1. s[1] = chain[0]
    BY <1>1, TableAssumption
  <2> QED
    BY <2>1, <1>1, <1>3 DEF Joins
<1> HIDE DEF all
<1> DEFINE Seen(m) ==
             /\ h[m] \in Seq(Node)
             /\ \A x \in 1 .. Len(h[m]) : \E b \in Lists : b < m /\ \E i \in DOMAIN chain[b] : h[m][x] = chain[b][i]
             /\ \A b \in Lists : b < m => \A i \in DOMAIN chain[b] : \E x \in 1 .. Len(h[m]) : h[m][x] = chain[b][i]
             /\ Apart(chain) => \A x, y \in 1 .. Len(h[m]) :
                  h[m][x].cell = h[m][y].cell \/ h[m][x].key = h[m][y].key => x = y
           A == {m \in Nat : m < N => Seen(m + 1)}
<1>5. /\ \A b \in Lists : chain[b] \in Seq(Node) /\ DOMAIN chain[b] = 1 .. Len(chain[b])
      /\ Lists \subseteq Nat /\ \A m \in Nat : m < N => m \in Lists
  BY NodesAreTyped, TableAssumption DEF Lists
<1>6. Seen(1)
  <2>1. h[1] \in Seq(Node) /\ DOMAIN chain[0] = 1 .. Len(h[1]) /\ 0 \in Lists
    BY <1>4, <1>5, TableAssumption
  <2>2. \A b \in Lists : b < 1 => b = 0
    BY <1>5
  <2>3. 0 < 1
    OBVIOUS
  <2>4. \A x \in 1 .. Len(h[1]) : \E b \in Lists : b < 1 /\ \E i \in DOMAIN chain[b] : h[1][x] = chain[b][i]
    BY <2>1, <2>3, <1>4
  <2>5. \A b \in Lists : b < 1 => \A i \in DOMAIN chain[b] : \E x \in 1 .. Len(h[1]) : h[1][x] = chain[b][i]
    BY <2>1, <2>2, <1>4
  <2>6. Apart(chain) => \A x, y \in 1 .. Len(h[1]) :
          h[1][x].cell = h[1][y].cell \/ h[1][x].key = h[1][y].key => x = y
    BY <2>1, <1>4 DEF Apart
  <2> QED
    BY <2>1, <2>4, <2>5, <2>6
<1>7. ASSUME NEW m \in Nat, 1 <= m, m < N, Seen(m)
      PROVE  Seen(m + 1)
  <2> DEFINE u == h[m]
             t == chain[m]
             w == h[m + 1]
  <2>1. u \in Seq(Node) /\ t \in Seq(Node) /\ m \in Lists /\ DOMAIN t = 1 .. Len(t) /\ w = u \o t
    BY <1>4, <1>5, <1>7
  <2>2. /\ w \in Seq(Node)
        /\ \A x \in 1 .. Len(w) :
             \/ x \in 1 .. Len(u) /\ w[x] = u[x]
             \/ x - Len(u) \in 1 .. Len(t) /\ w[x] = t[x - Len(u)]
        /\ \A x \in 1 .. Len(u) : x \in 1 .. Len(w) /\ w[x] = u[x]
        /\ \A i \in 1 .. Len(t) : Len(u) + i \in 1 .. Len(w) /\ w[Len(u) + i] = t[i]
    <3> HIDE DEF u, t, w
    <3>1. u \in Seq(Node) /\ t \in Seq(Node)
      BY <2>1
    <3>2. w = u \o t
      BY <2>1
    <3> QED
      BY ONLY <3>1, <3>2, Joined
  <2>3. /\ \A x \in 1 .. Len(u) : \E b \in Lists : b < m /\ \E i \in DOMAIN chain[b] : u[x] = chain[b][i]
        /\ \A b \in Lists : b < m => \A i \in DOMAIN chain[b] : \E x \in 1 .. Len(u) : u[x] = chain[b][i]
        /\ Apart(chain) => \A x, y \in 1 .. Len(u) :
             u[x].cell = u[y].cell \/ u[x].key = u[y].key => x = y
    BY <1>7
  <2>4. Len(u) \in Nat /\ Len(t) \in Nat
    BY <2>1
  <2> HIDE DEF Seen, u, w
  <2>5. \A b \in Lists : b < m + 1 <=> b < m \/ b = m
    BY <1>5
  <2>6. \A x \in 1 .. Len(w) : \E b \in Lists : b < m + 1 /\ \E i \in DOMAIN chain[b] : w[x] = chain[b][i]
    <3> TAKE x \in 1 .. Len(w)
    <3>1. CASE x \in 1 .. Len(u) /\ w[x] = u[x]
      BY <3>1, <2>3, <2>5
    <3>2. CASE x - Len(u) \in 1 .. Len(t) /\ w[x] = t[x - Len(u)]
      <4>1. x - Len(u) \in DOMAIN chain[m] /\ w[x] = chain[m][x - Len(u)]
        BY <3>2, <2>1
      <4>2. \E i \in DOMAIN chain[m] : w[x] = chain[m][i]
        BY <4>1
      <4> QED
        BY <4>2, <2>1, <2>5
    <3> QED
      BY <3>1, <3>2, <2>2
  <2>7. ASSUME NEW b \in Lists, b < m + 1, NEW i \in DOMAIN chain[b]
        PROVE  \E x \in 1 .. Len(w) : w[x] = chain[b][i]
    <3>1. CASE b < m
      BY <3>1, <2>2, <2>3
    <3>2. CASE b = m
      BY <3>2, <2>1, <2>2
    <3> QED
      BY <3>1, <3>2, <2>5, <2>7
  <2>8. ASSUME Apart(chain), NEW x \in 1 .. Len(w), NEW y \in 1 .. Len(w),
               w[x].cell = w[y].cell \/ w[x].key = w[y].key
        PROVE  x = y
    <3> DEFINE Old(z) == z \in 1 .. Len(u) /\ w[z] = u[z]
               New(z) == z - Len(u) \in 1 .. Len(t) /\ w[z] = t[z - Len(u)]
    <3>1. CASE Old(x) /\ Old(y)
      BY <3>1, <2>3, <2>8
    <3>2. CASE New(x) /\ New(y)
      <4>1. x - Len(u) \in DOMAIN chain[m] /\ y - Len(u) \in DOMAIN chain[m]
        BY <3>2, <2>1
      <4>2. w[x] = chain[m][x - Len(u)] /\ w[y] = chain[m][y - Len(u)]
        BY <3>2
      <4>3. \A i, j \in DOMAIN chain[m] :
              chain[m][i].cell = chain[m][j].cell \/ chain[m][i].key = chain[m][j].key => i = j
        BY <2>1, <2>8 DEF Apart
      <4>4. x - Len(u) = y - Len(u)
        <5>1. \/ chain[m][x - Len(u)].cell = chain[m][y - Len(u)].cell
              \/ chain[m][x - Len(u)].key = chain[m][y - Len(u)].key
          BY <2>8, <4>2
        <5> HIDE DEF t
        <5> QED
          BY ONLY <4>1, <4>3, <5>1
      <4> QED
        BY <4>4, <2>4
    <3>3. ASSUME NEW z, NEW q, Old(z), New(q)
          PROVE  w[z].cell # w[q].cell /\ w[z].key # w[q].key
      <4>1. PICK b \in Lists : b < m /\ \E i \in DOMAIN chain[b] : u[z] = chain[b][i]
        BY <3>3, <2>3
      <4>2. PICK i \in DOMAIN chain[b] : u[z] = chain[b][i]
        BY <4>1
      <4>3. b # m
        BY <4>1, <1>5
      <4>4. w[z] = chain[b][i] /\ q - Len(u) \in DOMAIN chain[m] /\ w[q] = chain[m][q - Len(u)]
        BY <3>3, <4>2, <2>1
      <4> QED
        BY <4>3, <4>4, <2>1, <2>8, SMTT(30) DEF Apart
    <3>4. (Old(x) \/ New(x)) /\ (Old(y) \/ New(y))
      BY <2>2
    <3> HIDE DEF Old, New
    <3> QED
      BY <3>1, <3>2, <3>3, <3>4, <2>8
  <2> QED
    BY <2>2, <2>6, <2>7, <2>8 DEF Seen, w
<1>8. 0 \in A
  BY <1>6
<1>9. ASSUME NEW m \in Nat, m \in A
      PROVE  m + 1 \in A
  <2> HIDE DEF Seen
  <2>1. m + 1 < N => m < N /\ 1 <= m + 1 /\ m + 1 \in Nat
    BY TableAssumption
  <2>2. m + 1 < N => Seen(m + 1 + 1)
    BY <2>1, <1>7, <1>9
  <2> QED
    BY <2>2
<1> HIDE DEF A
<1>10. Nat \subseteq A
  BY <1>8, <1>9, Induct
<1>11. N - 1 \in Nat /\ N - 1 < N /\ N - 1 + 1 = N
  BY TableAssumption
<1> HIDE DEF Seen
<1>12. Seen(N)
  BY <1>10, <1>11 DEF A
<1>13. \A b \in Lists : b < N
  BY TableAssumption DEF Lists
<1>14. AllNodes = h[N]
  BY <1>2, <1>3
<1>15. DOMAIN AllNodes = 1 .. Len(h[N])
  BY <1>12, <1>14, LenProperties DEF Seen
<1> QED
  BY <1>12, <1>13, <1>14, <1>15 DEF Seen

-----------------------------------------------------------------------------
\* What the table holds.

\* The map m holds the nodes of the lists cs and nothing else.
Holds(m, cs) ==
  /\ \A b \in Lists : \A i \in DOMAIN cs[b] : m[cs[b][i].key] = cs[b][i].val
  /\ \A k \in Keys : (\A b \in Lists : \A i \in DOMAIN cs[b] : cs[b][i].key # k) => m[k] = Absent

Entries == [k \in Keys |-> Lookup(k)]

LEMMA EntriesHold ==
  ASSUME TypeInv, Apart(chain), AtHome(chain)
  PROVE  Holds(Entries, chain)
<1>1. ASSUME NEW b \in Lists, NEW i \in DOMAIN chain[b]
      PROVE  Entries[chain[b][i].key] = chain[b][i].val
  <2> DEFINE k == chain[b][i].key
  <2>1. k \in Keys /\ Index(k) = b /\ DOMAIN chain[b] = 1 .. Len(chain[b])
    BY NodesAreTyped DEF AtHome
  <2>2. Position(b, k) \in 1 .. Len(chain[b]) /\ chain[b][Position(b, k)].key = k
    BY <2>1, PositionFinds
  <2>3. Position(b, k) = i /\ Position(b, k) # 0
    BY <2>1, <2>2 DEF Apart
  <2> HIDE DEF k
  <2>4. Lookup(k) = chain[b][i].val
    BY <2>1, <2>3 DEF Lookup
  <2> QED
    BY <2>1, <2>4 DEF Entries, k
<1>2. ASSUME NEW k \in Keys, \A b \in Lists : \A i \in DOMAIN chain[b] : chain[b][i].key # k
      PROVE  Entries[k] = Absent
  <2>1. CASE Index(k) \in Lists
    <3>1. DOMAIN chain[Index(k)] = 1 .. Len(chain[Index(k)])
      BY <2>1, NodesAreTyped
    <3>2. Position(Index(k), k) = 0
      BY <1>2, <2>1, <3>1, PositionFinds
    <3> QED
      BY <3>2 DEF Lookup, Entries
  <2>2. CASE Index(k) \notin Lists
    BY <2>2 DEF Lookup, Entries
  <2> QED
    BY <2>1, <2>2
<1> QED
  BY <1>1, <1>2 DEF Holds

\* A state in which no write has gone through a stale tail.
Whole == TypeInv /\ Apart(chain) /\ AtHome(chain)

LEMMA EntriesAreTyped ==
  ASSUME TypeInv
  PROVE  Entries \in [Keys -> Values \union {Absent}]
<1>1. ASSUME NEW k \in Keys
      PROVE  Lookup(k) \in Values \union {Absent}
  <2>1. CASE Index(k) \in Lists /\ Position(Index(k), k) # 0
    <3>1. Position(Index(k), k) \in DOMAIN chain[Index(k)]
      BY <2>1, NodesAreTyped, PositionFinds
    <3> QED
      BY <2>1, <3>1, NodesAreTyped DEF Lookup
  <2> QED
    BY <2>1 DEF Lookup
<1> QED
  BY <1>1 DEF Entries

(* The map is determined by the nodes.                                      *)
LEMMA HoldsOne ==
  ASSUME NEW cs, NEW m, NEW w, DOMAIN m = Keys, DOMAIN w = Keys,
         m = [k \in Keys |-> m[k]], w = [k \in Keys |-> w[k]],
         Holds(m, cs), Holds(w, cs)
  PROVE  m = w
<1>1. ASSUME NEW k \in Keys
      PROVE  m[k] = w[k]
  <2>1. CASE \A b \in Lists : \A i \in DOMAIN cs[b] : cs[b][i].key # k
    BY <2>1 DEF Holds
  <2>2. CASE ~ (\A b \in Lists : \A i \in DOMAIN cs[b] : cs[b][i].key # k)
    <3>1. PICK b \in Lists : ~ (\A i \in DOMAIN cs[b] : cs[b][i].key # k)
      BY <2>2
    <3>2. PICK i \in DOMAIN cs[b] : cs[b][i].key = k
      BY <3>1
    <3>3. m[cs[b][i].key] = cs[b][i].val /\ w[cs[b][i].key] = cs[b][i].val
      BY DEF Holds
    <3> QED
      BY <3>2, <3>3
  <2> QED
    BY <2>1, <2>2
<1> QED
  BY <1>1

(* What table_put of a new key does to the map.                             *)
LEMMA AppendHolds ==
  ASSUME TypeInv, NEW b \in Lists, NEW new \in Node,
         \A d \in Lists : \A i \in DOMAIN chain[d] : chain[d][i].key # new.key,
         chain' = [chain EXCEPT ![b] = Append(chain[b], new)],
         NEW m \in [Keys -> Values \union {Absent}], Holds(m, chain)
  PROVE  Holds([m EXCEPT ![new.key] = new.val], chain')
<1>1. /\ \A d \in Lists : \A i \in DOMAIN chain'[d] :
           \/ i \in DOMAIN chain[d] /\ chain'[d][i] = chain[d][i]
           \/ d = b /\ i = Len(chain[b]) + 1 /\ chain'[d][i] = new
      /\ \A d \in Lists : \A i \in DOMAIN chain[d] :
           i \in DOMAIN chain'[d] /\ chain'[d][i] = chain[d][i]
      /\ Len(chain[b]) + 1 \in DOMAIN chain'[b] /\ chain'[b][Len(chain[b]) + 1] = new
  BY AppendMoves
<1> DEFINE w == [m EXCEPT ![new.key] = new.val]
<1>2. new.key \in Keys
  BY DEF Node
<1>3. w[new.key] = new.val /\ \A k \in Keys \ {new.key} : w[k] = m[k]
  BY <1>2
<1> HIDE DEF w
<1>4. ASSUME NEW d \in Lists, NEW i \in DOMAIN chain'[d]
      PROVE  w[chain'[d][i].key] = chain'[d][i].val
  <2>1. CASE i \in DOMAIN chain[d] /\ chain'[d][i] = chain[d][i]
    <3>1. chain[d][i].key \in Keys \ {new.key}
      BY <2>1, NodesAreTyped
    <3> QED
      BY <2>1, <3>1, <1>3 DEF Holds
  <2>2. CASE chain'[d][i] = new
    BY <2>2, <1>3
  <2> QED
    BY <2>1, <2>2, <1>1
<1>5. ASSUME NEW k \in Keys, \A d \in Lists : \A i \in DOMAIN chain'[d] : chain'[d][i].key # k
      PROVE  w[k] = Absent
  <2>1. k # new.key
    BY <1>1, <1>5
  <2>2. \A d \in Lists : \A i \in DOMAIN chain[d] : chain[d][i].key # k
    BY <1>1, <1>5
  <2> QED
    BY <2>1, <2>2, <1>3 DEF Holds
<1> QED
  BY <1>4, <1>5 DEF Holds, w

(* And of a key that is there.                                              *)
LEMMA ReplaceHolds ==
  ASSUME Whole, NEW b \in Lists, NEW p \in 1 .. Len(chain[b]), NEW v \in Values,
         chain' = [chain EXCEPT ![b][p].val = v]
  PROVE  \A m \in [Keys -> Values \union {Absent}] :
           Holds(m, chain) => Holds([m EXCEPT ![chain[b][p].key] = v], chain')
<1>0. TypeInv
  BY DEF Whole
<1>1. /\ chain' \in [Lists -> Seq(Node)]
      /\ \A d \in Lists : DOMAIN chain'[d] = DOMAIN chain[d] /\ Len(chain'[d]) = Len(chain[d])
      /\ \A d \in Lists : \A i \in DOMAIN chain[d] :
           /\ chain'[d][i].cell = chain[d][i].cell
           /\ chain'[d][i].key = chain[d][i].key
           /\ (d = b /\ i = p => chain'[d][i].val = v) /\ (~ (d = b /\ i = p) => chain'[d][i].val = chain[d][i].val)
  BY <1>0, ReplaceProperties
<1> SUFFICES ASSUME NEW m \in [Keys -> Values \union {Absent}], Holds(m, chain)
             PROVE  Holds([m EXCEPT ![chain[b][p].key] = v], chain')
  OBVIOUS
<1> DEFINE k0 == chain[b][p].key
           w == [m EXCEPT ![k0] = v]
<1>2. p \in DOMAIN chain[b] /\ k0 \in Keys
  BY NodesAreTyped DEF Whole
<1>3. w[k0] = v /\ \A k \in Keys \ {k0} : w[k] = m[k]
  BY <1>2
<1> HIDE DEF w
<1>4. ASSUME NEW d \in Lists, NEW i \in DOMAIN chain'[d]
      PROVE  w[chain'[d][i].key] = chain'[d][i].val
  <2>1. CASE d = b /\ i = p
    BY <2>1, <1>1, <1>2, <1>3
  <2>2. CASE ~ (d = b /\ i = p)
    <3>1. i \in DOMAIN chain[d]
      BY <1>1
    <3>2. chain[d][i].key # k0
      BY <2>2, <3>1, <1>2 DEF Whole, Apart
    <3>3. chain[d][i].key \in Keys
      BY <3>1, NodesAreTyped DEF Whole
    <3>4. w[chain[d][i].key] = chain[d][i].val
      BY <3>1, <3>2, <3>3, <1>3 DEF Holds
    <3> QED
      BY <2>2, <3>1, <3>4, <1>1
  <2> QED
    BY <2>1, <2>2
<1>5. ASSUME NEW k \in Keys, \A d \in Lists : \A i \in DOMAIN chain'[d] : chain'[d][i].key # k
      PROVE  w[k] = Absent
  <2>1. \A d \in Lists : \A i \in DOMAIN chain[d] : chain[d][i].key # k
    BY <1>1, <1>5
  <2>2. k # k0
    BY <2>1, <1>2
  <2> QED
    BY <2>1, <2>2, <1>3 DEF Holds
<1> QED
  BY <1>4, <1>5 DEF Holds, w

(* And what table_del does.                                                 *)
LEMMA RemoveHolds ==
  ASSUME Whole, NEW b \in Lists, NEW p \in 1 .. Len(chain[b]),
         chain' = [chain EXCEPT ![b] = RemoveAt(chain[b], p)]
  PROVE  \A m \in [Keys -> Values \union {Absent}] :
           Holds(m, chain) => Holds([m EXCEPT ![chain[b][p].key] = Absent], chain')
<1>0. TypeInv
  BY DEF Whole
<1>1. /\ \A d \in Lists \ {b} : chain'[d] = chain[d]
      /\ \A i \in DOMAIN chain'[b] :
           /\ From(p, i) \in DOMAIN chain[b] /\ From(p, i) # p
           /\ chain'[b][i] = chain[b][From(p, i)]
      /\ \A i, j \in DOMAIN chain'[b] : From(p, i) = From(p, j) => i = j
      /\ \A n \in DOMAIN chain[b] : n # p => \E i \in DOMAIN chain'[b] : From(p, i) = n
  BY <1>0, RemoveMoves, ZenonT(30)
<1> SUFFICES ASSUME NEW m \in [Keys -> Values \union {Absent}], Holds(m, chain)
             PROVE  Holds([m EXCEPT ![chain[b][p].key] = Absent], chain')
  OBVIOUS
<1> DEFINE k0 == chain[b][p].key
           w == [m EXCEPT ![k0] = Absent]
<1>2. p \in DOMAIN chain[b] /\ k0 \in Keys
  BY NodesAreTyped DEF Whole
<1>3. w[k0] = Absent /\ \A k \in Keys \ {k0} : w[k] = m[k]
  BY <1>2
<1> HIDE DEF w
<1>4. ASSUME NEW d \in Lists, NEW i \in DOMAIN chain'[d]
      PROVE  w[chain'[d][i].key] = chain'[d][i].val
  <2>1. PICK n \in DOMAIN chain[d] : chain'[d][i] = chain[d][n] /\ (d = b => n # p)
    <3>1. CASE d = b
      BY <3>1, <1>1
    <3>2. CASE d # b
      BY <3>2, <1>1
    <3> QED
      BY <3>1, <3>2
  <2>2. chain[d][n].key # k0
    BY <2>1, <1>2 DEF Whole, Apart
  <2>3. chain[d][n].key \in Keys
    BY NodesAreTyped DEF Whole
  <2>4. m[chain[d][n].key] = chain[d][n].val
    BY DEF Holds
  <2> QED
    BY <2>1, <2>2, <2>3, <2>4, <1>3
<1>5. ASSUME NEW k \in Keys, \A d \in Lists : \A i \in DOMAIN chain'[d] : chain'[d][i].key # k
      PROVE  w[k] = Absent
  <2>1. CASE k = k0
    BY <2>1, <1>3
  <2>2. CASE k # k0
    <3>1. ASSUME NEW d \in Lists, NEW n \in DOMAIN chain[d], chain[d][n].key = k
          PROVE  FALSE
      <4>1. CASE d = b
        <5>1. n # p
          BY <2>2, <3>1, <4>1
        <5>2. PICK i \in DOMAIN chain'[b] : From(p, i) = n
          BY <4>1, <5>1, <1>1
        <5> QED
          BY <3>1, <4>1, <5>2, <1>1, <1>5
      <4>2. CASE d # b
        BY <3>1, <4>2, <1>1, <1>5
      <4> QED
        BY <4>1, <4>2
    <3> QED
      BY <2>2, <3>1, <1>3 DEF Holds
  <2> QED
    BY <2>1, <2>2
<1> QED
  BY <1>4, <1>5 DEF Holds, w

(* The keys of all the nodes are the keys of the map, each once.            *)
LEMMA KeysAreStored ==
  ASSUME Whole
  PROVE  /\ {AllNodes[x].key : x \in DOMAIN AllNodes} = Stored(Entries)
         /\ \A b \in Lists : \A i \in DOMAIN chain[b] :
              chain[b][i].key \in Stored(Entries) /\ Entries[chain[b][i].key] = chain[b][i].val
         /\ \A k \in Stored(Entries) : \E b \in Lists : \E i \in DOMAIN chain[b] : chain[b][i].key = k
         /\ Len(AllNodes) = Cardinality(Stored(Entries))
<1>0. TypeInv /\ Apart(chain) /\ AtHome(chain)
  BY DEF Whole
<1>1. Holds(Entries, chain) /\ Entries \in [Keys -> Values \union {Absent}]
  BY <1>0, EntriesHold, EntriesAreTyped
<1>2. ASSUME NEW b \in Lists, NEW i \in DOMAIN chain[b]
      PROVE  chain[b][i].key \in Stored(Entries) /\ Entries[chain[b][i].key] = chain[b][i].val
  <2>1. chain[b][i].key \in Keys /\ chain[b][i].val \in Values
    BY <1>0, NodesAreTyped
  <2>2. Entries[chain[b][i].key] = chain[b][i].val
    BY <1>1 DEF Holds
  <2> QED
    BY <2>1, <2>2, ValuesAssumption DEF Stored
<1>3. ASSUME NEW k \in Stored(Entries)
      PROVE  \E b \in Lists : \E i \in DOMAIN chain[b] : chain[b][i].key = k
  BY <1>1 DEF Holds, Stored
<1> DEFINE T == Stored(Entries)
           n == Len(AllNodes)
           f == [x \in 1 .. n |-> AllNodes[x].key]
<1>4. /\ AllNodes \in Seq(Node)
      /\ \A x \in DOMAIN AllNodes : \E b \in Lists : \E i \in DOMAIN chain[b] : AllNodes[x] = chain[b][i]
      /\ \A b \in Lists : \A i \in DOMAIN chain[b] : \E x \in DOMAIN AllNodes : AllNodes[x] = chain[b][i]
      /\ \A x, y \in DOMAIN AllNodes :
           AllNodes[x].cell = AllNodes[y].cell \/ AllNodes[x].key = AllNodes[y].key => x = y
  BY <1>0, AllNodesVisited
<1>5. n \in Nat /\ DOMAIN AllNodes = 1 .. n
  BY <1>4, LenProperties
<1> HIDE DEF n, T
<1>6. \A x \in 1 .. n : AllNodes[x].key \in T
  <2> SUFFICES ASSUME NEW x \in 1 .. n
               PROVE  AllNodes[x].key \in T
    OBVIOUS
  <2>1. PICK b \in Lists : \E i \in DOMAIN chain[b] : AllNodes[x] = chain[b][i]
    BY <1>4, <1>5
  <2> QED
    BY <2>1, <1>2 DEF T
<1>7. \A k \in T : \E x \in 1 .. n : AllNodes[x].key = k
  <2> SUFFICES ASSUME NEW k \in T
               PROVE  \E x \in 1 .. n : AllNodes[x].key = k
    OBVIOUS
  <2>1. PICK b \in Lists : \E i \in DOMAIN chain[b] : chain[b][i].key = k
    BY <1>3 DEF T
  <2>2. PICK i \in DOMAIN chain[b] : chain[b][i].key = k
    BY <2>1
  <2> QED
    BY <2>2, <1>4, <1>5
<1>8. \A x, y \in 1 .. n : AllNodes[x].key = AllNodes[y].key => x = y
  BY <1>4, <1>5
<1>9. f \in [1 .. n -> T]
  BY <1>6
<1>10. f \in Injection(1 .. n, T)
  BY <1>8, <1>9 DEF Injection, IsInjective
<1>11. f \in Surjection(1 .. n, T)
  BY <1>7, <1>9 DEF Surjection
<1>12. ExistsBijection(1 .. n, T)
  BY <1>10, <1>11 DEF ExistsBijection, Bijection
<1>13. Cardinality(T) = n
  BY <1>5, <1>12, FS_CountingElements
<1>14. {AllNodes[x].key : x \in DOMAIN AllNodes} = T
  BY <1>5, <1>6, <1>7
<1> QED
  BY <1>2, <1>3, <1>13, <1>14 DEF T, n

-----------------------------------------------------------------------------
\* What the operations promise.

LEMMA Keeps ==
  ASSUME NEW r \in Requests, Entries' = After(Entries, r), IsAnswer(Entries, r, reply')
  PROVE  Contract!Next
<1>1. r \in Contract!Requests
  BY DEF Requests, Contract!Requests
<1>2. After(Entries, r) = Contract!After(Entries, r)
  BY DEF After, Contract!After
<1>3. Stored(Entries) = Contract!Stored(Entries)
  BY DEF Stored, Contract!Stored
<1>4. IsAnswer(Entries, r, reply') = Contract!IsAnswer(Entries, r, reply')
  BY <1>3 DEF IsAnswer, Contract!IsAnswer
<1> QED
  BY <1>1, <1>2, <1>4 DEF Contract!Next, Entries

LEMMA RequestsAre ==
  ASSUME NEW k \in Keys, NEW v \in Values
  PROVE  /\ [op |-> "put", key |-> k, val |-> v] \in Requests
         /\ [op |-> "get", key |-> k] \in Requests
         /\ [op |-> "del", key |-> k] \in Requests
  BY DEF Requests

LEMMA EntriesHoldNext == Whole' => Holds(Entries', chain')
<1>1. Whole => Holds(Entries, chain)
  BY EntriesHold DEF Whole
<1>2. (Whole => Holds(Entries, chain))'
  BY <1>1, PTL
<1> QED
  BY <1>2

LEMMA EntriesNext ==
  ASSUME Whole', NEW m \in [Keys -> Values \union {Absent}], Holds(m, chain')
  PROVE  Entries' = m
<1>1. Holds(Entries', chain')
  BY EntriesHoldNext
<1>2. DOMAIN Entries' = Keys /\ Entries' = [k \in Keys |-> Entries'[k]]
  BY DEF Entries
<1>3. DOMAIN m = Keys /\ m = [k \in Keys |-> m[k]]
  OBVIOUS
<1> QED
  BY <1>1, <1>2, <1>3, HoldsOne

LEMMA SameEntries ==
  ASSUME Whole, Whole', chain' = chain
  PROVE  Entries' = Entries
<1>1. Holds(Entries, chain) /\ Entries \in [Keys -> Values \union {Absent}]
  BY EntriesHold, EntriesAreTyped DEF Whole
<1>2. Holds(Entries, chain')
  BY <1>1
<1> QED
  BY <1>1, <1>2, EntriesNext

LEMMA PutKeeps ==
  ASSUME IInv, IInv', Whole, Whole', NEW k \in Keys, NEW v \in Values, Put(k, v),
         torn' = NoList, life' = "up"
  PROVE  Contract!Next
<1> DEFINE b == Index(k)
           i == Position(b, k)
           r == [op |-> "put", key |-> k, val |-> v]
<1>0. TypeInv /\ AtHome(chain)
  BY DEF Whole
<1>1. b \in Lists
  BY DEF Put, OffTheLists, Crash
<1>2. r \in Requests /\ r.op = "put" /\ r.key = k /\ r.val = v /\ reply' = [ok |-> TRUE]
  BY <1>1, RequestsAre DEF Put, Crash
<1>3. Entries \in [Keys -> Values \union {Absent}] /\ Holds(Entries, chain)
  BY EntriesHold, EntriesAreTyped DEF Whole
<1>5. Holds([Entries EXCEPT ![k] = v], chain')
  <2>1. CASE i = 0
    <3>1. PICK c \in free : ListAdd(b, [cell |-> c, key |-> k, val |-> v])
      BY <1>1, <2>1 DEF Put, Crash
    <3> DEFINE new == [cell |-> c, key |-> k, val |-> v]
    <3>2. new \in Node /\ new.cell = c /\ new.key = k /\ new.val = v
      BY <1>0 DEF Node, TypeInv
    <3>3. \A j \in 1 .. Len(chain[b]) : chain[b][j].key # k
      BY <1>0, <1>1, <2>1, PositionFinds
    <3> HIDE DEF new
    <3>4. chain' = [chain EXCEPT ![b] = Append(chain[b], new)]
      BY <1>1, <3>1, <3>2, <3>3, AddStep DEF new
    <3>5. \A d \in Lists : \A j \in DOMAIN chain[d] : chain[d][j].key # new.key
      BY <1>0, <1>1, <3>2, <3>3, NodesAreTyped DEF AtHome
    <3>6. Holds([Entries EXCEPT ![new.key] = new.val], chain')
      BY <1>0, <1>1, <1>3, <3>2, <3>4, <3>5, AppendHolds
    <3> QED
      BY <3>2, <3>6
  <2>2. CASE i # 0
    <3>1. i \in 1 .. Len(chain[b]) /\ chain[b][i].key = k
      BY <1>0, <1>1, <2>2, PositionFinds
    <3>2. chain' = [chain EXCEPT ![b][i].val = v]
      BY <1>1, <2>2 DEF Put
    <3> HIDE DEF i
    <3>3. \A m \in [Keys -> Values \union {Absent}] :
            Holds(m, chain) => Holds([m EXCEPT ![chain[b][i].key] = v], chain')
      BY <1>1, <3>1, <3>2, ReplaceHolds
    <3> QED
      BY <1>3, <3>1, <3>3
  <2> QED
    BY <2>1, <2>2
<1> DEFINE w == [Entries EXCEPT ![k] = v]
<1>6. w \in [Keys -> Values \union {Absent}]
  BY <1>3
<1> HIDE DEF w
<1>7. Entries' = w
  BY <1>5, <1>6, EntriesNext DEF w
<1>8. w = After(Entries, r) /\ IsAnswer(Entries, r, reply')
  BY <1>2 DEF After, IsAnswer, w
<1> HIDE DEF r
<1> QED
  BY <1>2, <1>7, <1>8, Keeps

LEMMA DelKeeps ==
  ASSUME Whole, Whole', NEW k \in Keys, Del(k), life' = "up"
  PROVE  Contract!Next
<1> DEFINE b == Index(k)
           i == Position(b, k)
           r == [op |-> "del", key |-> k]
           w == [Entries EXCEPT ![k] = Absent]
<1>0. TypeInv /\ AtHome(chain)
  BY DEF Whole
<1>1. b \in Lists
  BY DEF Del, OffTheLists, Crash
<1>2. r \in Requests /\ r.op = "del" /\ r.key = k
  BY RequestsAre, ValuesAssumption
<1>3. Entries \in [Keys -> Values \union {Absent}] /\ Holds(Entries, chain)
  BY EntriesHold, EntriesAreTyped DEF Whole
<1>4. Entries' = w /\ reply' = [ok |-> Entries[k] # Absent]
  <2>1. CASE i = 0
    <3>1. \A j \in 1 .. Len(chain[b]) : chain[b][j].key # k
      BY <1>0, <1>1, <2>1, PositionFinds
    <3>2. \A d \in Lists : \A j \in DOMAIN chain[d] : chain[d][j].key # k
      BY <1>0, <1>1, <3>1, NodesAreTyped DEF AtHome
    <3>3. Entries[k] = Absent
      BY <1>3, <3>2 DEF Holds
    <3>4. chain' = chain /\ reply' = [ok |-> FALSE]
      BY <1>1, <2>1 DEF Del
    <3>5. Entries' = Entries
      BY <3>4, SameEntries
    <3>6. w = Entries
      BY <1>3, <3>3
    <3> QED
      BY <3>3, <3>4, <3>5, <3>6
  <2>2. CASE i # 0
    <3>1. i \in 1 .. Len(chain[b]) /\ chain[b][i].key = k
      BY <1>0, <1>1, <2>2, PositionFinds
    <3>2. chain' = [chain EXCEPT ![b] = RemoveAt(chain[b], i)] /\ reply' = [ok |-> TRUE]
      BY <1>1, <2>2 DEF Del, ListRemove
    <3> HIDE DEF i
    <3>3. \A m \in [Keys -> Values \union {Absent}] :
            Holds(m, chain) => Holds([m EXCEPT ![chain[b][i].key] = Absent], chain')
      BY <1>1, <3>1, <3>2, RemoveHolds
    <3>4. Holds(w, chain') /\ w \in [Keys -> Values \union {Absent}]
      BY <1>3, <3>1, <3>3
    <3>5. Entries' = w
      BY <3>4, EntriesNext
    <3>6. Entries[k] # Absent
      <4>1. i \in DOMAIN chain[b] /\ chain[b][i].val \in Values
        BY <1>0, <1>1, <3>1, NodesAreTyped
      <4>2. Entries[k] = chain[b][i].val
        BY <1>1, <1>3, <3>1, <4>1 DEF Holds
      <4> QED
        BY <4>1, <4>2, ValuesAssumption
    <3> QED
      BY <3>2, <3>5, <3>6
  <2> QED
    BY <2>1, <2>2
<1>5. w = After(Entries, r) /\ IsAnswer(Entries, r, reply')
  BY <1>2, <1>4 DEF After, IsAnswer
<1> HIDE DEF r, w
<1> QED
  BY <1>2, <1>4, <1>5, Keeps

LEMMA GetKeeps ==
  ASSUME Whole, Whole', NEW k \in Keys, Get(k), life' = "up"
  PROVE  Contract!Next
<1> DEFINE r == [op |-> "get", key |-> k]
<1>1. chain' = chain /\ reply' = [data |-> IF Lookup(k) = Absent THEN NoData ELSE Lookup(k)]
  BY DEF Get, OffTheLists, Crash
<1>2. r \in Requests /\ r.op = "get" /\ r.key = k
  BY RequestsAre, ValuesAssumption
<1>3. Entries' = Entries /\ Entries[k] = Lookup(k)
  BY <1>1, SameEntries DEF Entries
<1>4. Entries = After(Entries, r) /\ IsAnswer(Entries, r, reply')
  BY <1>1, <1>2, <1>3 DEF After, IsAnswer
<1> HIDE DEF r
<1> QED
  BY <1>2, <1>3, <1>4, Keeps

LEMMA ListingsKeep ==
  ASSUME Whole, Whole', Size \/ GetKeys \/ TableToString, life' = "up"
  PROVE  Contract!Next
<1>1. Entries' = Entries
  BY SameEntries DEF Size, GetKeys, TableToString, Crash
<1>2. /\ [op |-> "size"] \in Requests
      /\ [op |-> "keys"] \in Requests
      /\ [op |-> "print"] \in Requests
  BY DEF Requests
<1>3. /\ {AllNodes[x].key : x \in DOMAIN AllNodes} = Stored(Entries)
      /\ \A b \in Lists : \A i \in DOMAIN chain[b] :
           chain[b][i].key \in Stored(Entries) /\ Entries[chain[b][i].key] = chain[b][i].val
      /\ \A k \in Stored(Entries) : \E b \in Lists : \E i \in DOMAIN chain[b] : chain[b][i].key = k
      /\ Len(AllNodes) = Cardinality(Stored(Entries))
  BY KeysAreStored
<1>4. CASE Size
  <2> DEFINE r == [op |-> "size"]
  <2>1. Entries' = After(Entries, r) /\ IsAnswer(Entries, r, reply')
    BY <1>1, <1>3, <1>4 DEF Size, After, IsAnswer
  <2> QED
    BY <1>2, <2>1, Keeps
<1>5. CASE GetKeys
  <2> DEFINE r == [op |-> "keys"]
             ks == [i \in DOMAIN AllNodes |-> AllNodes[i].key]
  <2>1. reply' = [keys |-> ks]
    BY <1>5 DEF GetKeys
  <2>2. DOMAIN AllNodes = 1 .. Len(AllNodes) /\ Len(AllNodes) \in Nat
    BY AllNodesVisited, LenProperties DEF Whole
  <2>3. Len(ks) = Len(AllNodes)
    BY <2>2
  <2>4. {ks[i] : i \in DOMAIN ks} = Stored(Entries)
    BY <1>3
  <2> HIDE DEF ks
  <2>5. IsAnswer(Entries, r, reply')
    BY <1>3, <2>1, <2>3, <2>4 DEF IsAnswer
  <2>6. Entries' = After(Entries, r)
    BY <1>1 DEF After
  <2> QED
    BY <1>2, <2>5, <2>6, Keeps
<1>6. CASE TableToString
  <2> DEFINE r == [op |-> "print"]
             text == {<<k, Entries[k]>> : k \in Stored(Entries)}
  <2>1. /\ \A b \in Lists : Readable(b)
        /\ reply' = [text |-> UNION {ListToString(b) : b \in Lists}]
    BY <1>6 DEF TableToString, Crash
  <2>2. \A k \in Stored(Entries) : Entries[k] # NoData
    <3> SUFFICES ASSUME NEW k \in Stored(Entries)
                 PROVE  Entries[k] # NoData
      OBVIOUS
    <3>1. PICK b \in Lists : \E i \in DOMAIN chain[b] : chain[b][i].key = k
      BY <1>3
    <3>2. PICK i \in DOMAIN chain[b] : chain[b][i].key = k
      BY <3>1
    <3> QED
      BY <3>2, <1>3, <2>1 DEF Readable, ToSet
  <2>3. UNION {ListToString(b) : b \in Lists} \subseteq text
    <3> SUFFICES ASSUME NEW b \in Lists, NEW x \in ListToString(b)
                 PROVE  x \in text
      OBVIOUS
    <3>1. PICK i \in DOMAIN chain[b] : x = <<chain[b][i].key, chain[b][i].val>>
      BY DEF ListToString, ToSet
    <3> QED
      BY <3>1, <1>3
  <2>4. text \subseteq UNION {ListToString(b) : b \in Lists}
    <3> SUFFICES ASSUME NEW k \in Stored(Entries)
                 PROVE  \E b \in Lists : <<k, Entries[k]>> \in ListToString(b)
      OBVIOUS
    <3>1. PICK b \in Lists : \E i \in DOMAIN chain[b] : chain[b][i].key = k
      BY <1>3
    <3>2. PICK i \in DOMAIN chain[b] : chain[b][i].key = k
      BY <3>1
    <3>3. <<chain[b][i].key, chain[b][i].val>> \in ListToString(b)
      BY DEF ListToString, ToSet
    <3> QED
      BY <3>2, <3>3, <1>3
  <2>5. reply' = [text |-> text]
    BY <2>1, <2>3, <2>4
  <2> HIDE DEF text
  <2>6. IsAnswer(Entries, r, reply')
    BY <2>2, <2>5 DEF IsAnswer, text
  <2>7. Entries' = After(Entries, r)
    BY <1>1 DEF After
  <2> QED
    BY <1>2, <2>6, <2>7, Keeps
<1> QED
  BY <1>4, <1>5, <1>6

LEMMA IsWhole == IInv /\ torn = NoList => Whole
  BY DEF IInv, WhileWhole, Whole

LEMMA IsWholeNext == (IInv /\ torn = NoList)' => Whole'
<1>1. (IInv /\ torn = NoList => Whole)'
  BY IsWhole, PTL
<1> QED
  BY <1>1

-----------------------------------------------------------------------------
(* A torn list is one that two keys of the table have: whatever is put,     *)
(* replaced and removed, the tail of every other list stays right           *)
(* (list_add and list_remove of list.c).                                    *)
THEOREM TornByCollision == Spec => []TornNeedsCollision
<1>1. IInv => TornNeedsCollision
  BY DEF IInv
<1> QED
  BY <1>1, IInvAlways, PTL

(* The lists hold nodes, the tails point to cells, and malloc hands out     *)
(* cells only (struct list_t, struct table_t).                              *)
THEOREM HashTableTypes == Spec => []TypeOK
<1>1. TypeInv => TypeOK
  <2> SUFFICES ASSUME TypeInv
               PROVE  TypeOK
    OBVIOUS
  <2>1. DOMAIN chain = Lists
    BY DEF TypeInv
  <2>2. \A b \in Lists : ToSet(chain[b]) \subseteq Node
    BY NodesAreTyped DEF ToSet
  <2> QED
    BY <2>1, <2>2 DEF TypeInv, TypeOK
<1>2. IInv => TypeOK
  BY <1>1 DEF IInv
<1> QED
  BY <1>2, IInvAlways, PTL

(* Until a list is torn no node leaks, none is freed twice, and             *)
(* table_destroy frees every one (list_add, list_remove, list_destroy).     *)
THEOREM NoNodeLeaks == Spec => []MemoryAccounted
<1>1. ASSUME IInv, torn = NoList
      PROVE  /\ IsInjective([i \in DOMAIN AllNodes |-> AllNodes[i].cell])
             /\ {n.cell : n \in ToSet(AllNodes)} = Cells \ free
  <2>1. TypeInv /\ Apart(chain) /\ UsedIsNotFree
    BY <1>1 DEF IInv, WhileWhole
  <2>2. /\ \A x \in DOMAIN AllNodes : \E b \in Lists : \E i \in DOMAIN chain[b] : AllNodes[x] = chain[b][i]
        /\ \A b \in Lists : \A i \in DOMAIN chain[b] : \E x \in DOMAIN AllNodes : AllNodes[x] = chain[b][i]
        /\ \A x, y \in DOMAIN AllNodes :
             AllNodes[x].cell = AllNodes[y].cell \/ AllNodes[x].key = AllNodes[y].key => x = y
    BY <2>1, AllNodesVisited
  <2>3. IsInjective([i \in DOMAIN AllNodes |-> AllNodes[i].cell])
    BY <2>2 DEF IsInjective
  <2>4. {n.cell : n \in ToSet(AllNodes)} = {AllNodes[x].cell : x \in DOMAIN AllNodes}
    BY DEF ToSet
  <2>5. ASSUME NEW x \in DOMAIN AllNodes
        PROVE  AllNodes[x].cell \in Cells \ free
    <3>1. PICK b \in Lists : \E i \in DOMAIN chain[b] : AllNodes[x] = chain[b][i]
      BY <2>2
    <3>2. PICK i \in DOMAIN chain[b] : AllNodes[x] = chain[b][i]
      BY <3>1
    <3>3. chain[b][i].cell \in Cells
      BY <2>1, NodesAreTyped
    <3> QED
      BY <2>1, <3>2, <3>3 DEF UsedIsNotFree
  <2>6. ASSUME NEW c \in Cells \ free
        PROVE  \E x \in DOMAIN AllNodes : AllNodes[x].cell = c
    <3>1. PICK b \in Lists : \E i \in DOMAIN chain[b] : chain[b][i].cell = c
      BY <2>1 DEF UsedIsNotFree
    <3>2. PICK i \in DOMAIN chain[b] : chain[b][i].cell = c
      BY <3>1
    <3> QED
      BY <2>2, <3>2
  <2> QED
    BY <2>3, <2>4, <2>5, <2>6, ZenonT(30)
<1>2. IInv => MemoryAccounted
  BY <1>1 DEF MemoryAccounted
<1> QED
  BY <1>2, IInvAlways, PTL

(* Until a list is torn every call of table.h does to the map what the      *)
(* header says, and answers what it says: whatever keys share a list, in    *)
(* whatever order they are put, replaced and removed.                       *)
THEOREM TableKeepsContract == Spec => ContractUntilTorn
<1>1. ASSUME IInv, IInv', [Next]_vars, life' = "up", torn' = NoList, vars' # vars
      PROVE  Contract!Next
  <2>1. Whole'
    BY <1>1, IsWholeNext
  <2>2. NoList \notin Lists
    BY TableAssumption DEF NoList, Lists
  <2>3. ASSUME NEW k \in Keys, NEW v \in Values, Put(k, v)
        PROVE  Contract!Next
    <3>1. torn = NoList
      BY <1>1, <2>2, <2>3 DEF Put, OffTheLists, Crash, ListAdd
    <3>2. Whole
      BY <1>1, <3>1, IsWhole
    <3> QED
      BY <1>1, <2>1, <2>3, <3>2, PutKeeps
  <2>4. CASE ~ \E k \in Keys, v \in Values : Put(k, v)
    <3>1. torn = NoList
      BY <1>1, <2>4 DEF Next, Get, Del, Size, GetKeys, TableToString, Destroy, OffTheLists, Crash
    <3>2. Whole
      BY <1>1, <3>1, IsWhole
    <3>3. ASSUME NEW k \in Keys, Get(k) \/ Del(k)
          PROVE  Contract!Next
      BY <1>1, <2>1, <3>2, <3>3, GetKeeps, DelKeeps
    <3>4. CASE Size \/ GetKeys \/ TableToString
      BY <1>1, <2>1, <3>2, <3>4, ListingsKeep
    <3>5. ~ Destroy
      BY <1>1 DEF Destroy
    <3> QED
      BY <1>1, <2>4, <3>3, <3>4, <3>5 DEF Next
  <2> QED
    BY <2>3, <2>4
<1>2. IInv /\ IInv' /\ [Next]_vars => [life' # "up" \/ torn' # NoList \/ Contract!Next]_vars
  BY <1>1
<1> QED
  BY <1>2, IInvAlways, PTL DEF Spec, ContractUntilTorn
====
