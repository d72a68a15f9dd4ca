--------------------------- MODULE AccumulatorNaive ---------------------------
(***************************************************************************)
(* The independent reference construction of the accumulator test suite  *)
(* (core/accumulator/src/accumulator_test.rs): pad the leaves with        *)
(* PLACEHOLDER to the next power of two, hash the padded tree bottom-up   *)
(* keyed by NodeIndex, and read the root at root_from_leaf_index of the   *)
(* rightmost leaf.  The assert_eq!(insert, None) checks of the test are   *)
(* kept: every position is inserted once.                                 *)
(***************************************************************************)
EXTENDS AccumulatorNode, NodeIndex, Sequences, FiniteSets, TLC

\* compute_parent_hash: two placeholders make a placeholder, anything else
\* is a real internal node.
ComputeParentHash(nodeIndex, leftHash, rightHash) ==
  IF leftHash = PLACEHOLDER /\ rightHash = PLACEHOLDER
  THEN PLACEHOLDER
  ELSE InternalHash(leftHash, rightHash)

\* usize::next_power_of_two for n >= 1.
RECURSIVE NextPowerOfTwo(_, _)
NextPowerOfTwo(n, p) == IF p >= n THEN p ELSE NextPowerOfTwo(n, 2 * p)

\* current_leaves.resize(next_power_of_two, PLACEHOLDER)
Padded(leaves) ==
  LET w == NextPowerOfTwo(Len(leaves), 1)
  IN [k \in 1..w |-> IF k <= Len(leaves) THEN leaves[k] ELSE PLACEHOLDER]

\* The while loop of compute_hashes_for_all_positions, one level per call.
RECURSIVE HashLevels(_, _, _)
HashLevels(current, level, positionToHash) ==
  LET here == [idx \in {FromLevelAndPos(level, j) : j \in 0..Len(current) - 1}
                 |-> current[IndexPos(idx) + 1]]
      merged == IF /\ Cardinality(DOMAIN here) = Len(current)
                   /\ DOMAIN here \cap DOMAIN positionToHash = {}
                THEN positionToHash @@ here
                ELSE Assert(FALSE, "position inserted twice")
  IN  IF Len(current) = 1
      THEN merged
      ELSE HashLevels(
             [k \in 1..Len(current) \div 2 |->
                ComputeParentHash(Parent(FromLevelAndPos(level, 2 * k - 2)),
                                  current[2 * k - 1], current[2 * k])],
             level + 1,
             merged)

\* compute_hashes_for_all_positions
ComputeHashesForAllPositions(leaves) ==
  IF leaves = <<>> THEN <<>> ELSE HashLevels(Padded(leaves), 0, <<>>)

\* compute_root_hash_naive
ComputeRootHashNaive(leaves) ==
  LET positionToHash == ComputeHashesForAllPositions(leaves)
      root == RootFromLeafIndex(Len(leaves) - 1)
  IN  CASE leaves = <<>> -> PLACEHOLDER
        [] root \in DOMAIN positionToHash -> positionToHash[root]
        [] OTHER -> Assert(FALSE, "Root position should exist in the map.")
=============================================================================
