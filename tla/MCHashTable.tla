----------------------------- MODULE MCHashTable -----------------------------
(***************************************************************************)
(* HashTable for TLC: two lists; k1 and k2 share the first, k3 has the     *)
(* second, and k4 has none: its chars, those of "a\~a" in UTF-8, add up to *)
(* 97 - 61 - 93.  A cell is as good as another, and malloc may return any: *)
(* the runs reduce by the permutations of Cells.                           *)
(***************************************************************************)
EXTENDS HashTable, TLC

CONSTANTS k1, k2, k3, k4

Sums == k1 :> 194 @@ k2 :> 196 @@ k3 :> 195 @@ k4 :> -57

CellSymmetry == Permutations(Cells)
=============================================================================
