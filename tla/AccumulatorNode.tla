--------------------------- MODULE AccumulatorNode ---------------------------
(***************************************************************************)
(* The node model of the Merkle accumulator (spec section 3 and 4.5).      *)
(*                                                                         *)
(* A hash is kept symbolic: a leaf hash is one of the caller-supplied      *)
(* values in LeafHashes, and the hash of an internal node is the pair of   *)
(* its children's hashes.  Pairs are equal exactly when their components   *)
(* are, which is the collision resistance the accumulator relies on, and  *)
(* a pair never equals a leaf value, which is the domain separation of     *)
(* section 4.5.  PLACEHOLDER is ACCUMULATOR_PLACEHOLDER_HASH.              *)
(***************************************************************************)
EXTENDS Naturals

CONSTANTS
  LeafHashes,   \* the pre-hashed leaf values callers append
  PLACEHOLDER   \* ACCUMULATOR_PLACEHOLDER_HASH

ASSUME PLACEHOLDER \notin LeafHashes

\* The hash of an internal node: H(left || right).
InternalHash(left, right) == <<left, right>>

\* h is a hash of a tree of at most d levels.
RECURSIVE IsHash(_, _)
IsHash(h, d) ==
  \/ h \in LeafHashes \union {PLACEHOLDER}
  \/ /\ d > 0
     /\ h = InternalHash(h[1], h[2])
     /\ IsHash(h[1], d - 1)
     /\ IsHash(h[2], d - 1)

\* The stored node values.  A leaf node carries no children.
Leaf == [kind |-> "leaf", left |-> PLACEHOLDER, right |-> PLACEHOLDER]
Internal(left, right) == [kind |-> "internal", left |-> left, right |-> right]
\* What a lookup of an absent hash yields.
Missing == [kind |-> "missing", left |-> PLACEHOLDER, right |-> PLACEHOLDER]
=============================================================================
