------------------------- MODULE MCMerkleAccumulator -------------------------
(***************************************************************************)
(* Model-checking instance of MerkleAccumulator: two leaf values (so that *)
(* equal leaves and equal subtrees occur), up to MaxLeaves leaves.         *)
(***************************************************************************)
EXTENDS MerkleAccumulator

CONSTANTS a, b

MCLeafHashes == {a, b}

\* Leaf values are interchangeable: no action or property names one.
MCSymmetry == Permutations(MCLeafHashes)
=============================================================================
