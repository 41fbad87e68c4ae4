----------------------------- MODULE MCBlockSoft -----------------------------
(* BlockSoft for TLC: two keys for one category, one for another, and one  *)
(* that ends in no number.                                                 *)
EXTENDS BlockSoft, TLC

CONSTANTS k1, k2, k3, k4, c1, c2, s1, s2

CateOf == (k1 :> c1) @@ (k2 :> c1) @@ (k3 :> c2) @@ (k4 :> NoCate)

\* A key without a list, the same software twice, and two different ones.
SomeLists == {<<>>, <<s1, s1>>, <<s2, s1>>}
=============================================================================
