--------------------------- MODULE MCTrustMaterial ---------------------------
(* The two roots of the demonstration data, the second yet to be imported;  *)
(* the new leaf comes with a cross-signed certificate of the old root's.    *)
EXTENDS TrustMaterial, TLC

CONSTANTS a1, a2, c1, c2, c3, oldRoot, newRoot, oldLeaf, newLeaf

OldRootOnly == a1 :> oldRoot
OldLeafOnly == c1 :> oldLeaf
SignedBy == {<<oldRoot, oldLeaf>>, <<newRoot, newLeaf>>, <<oldRoot, newLeaf>>}

Bounds == a1 :> 2 @@ a2 :> 1 @@ c1 :> 2 @@ c2 :> 1 @@ c3 :> 1

Symmetry == Permutations(Request) \cup Permutations({c2, c3})
=============================================================================
