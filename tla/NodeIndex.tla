------------------------------ MODULE NodeIndex ------------------------------
(***************************************************************************)
(* Position algebra of the accumulator (spec sections 3 and 4.1): a node   *)
(* (level, pos) of the conceptually infinite perfect binary tree is the    *)
(* integer (pos << (level+1)) + (2^level - 1), i.e. the in-order index.    *)
(***************************************************************************)
EXTENDS Naturals

\* NodeIndex::from_level_and_pos
FromLevelAndPos(level, pos) == pos * 2^(level + 1) + 2^level - 1

\* The level of an index is the number of trailing one bits.
RECURSIVE IndexLevel(_)
IndexLevel(idx) == IF idx % 2 = 1 THEN 1 + IndexLevel(idx \div 2) ELSE 0

\* The position of an index within its level.
IndexPos(idx) == idx \div 2^(IndexLevel(idx) + 1)

\* NodeIndex::parent
Parent(idx) ==
  FromLevelAndPos(IndexLevel(idx) + 1, IndexPos(idx) \div 2)

\* Number of bits needed to write x (0 for x = 0).
RECURSIVE BitLength(_)
BitLength(x) == IF x = 0 THEN 0 ELSE 1 + BitLength(x \div 2)

\* NodeIndex::root_from_leaf_index: smear the ones of the leaf's index
\* below its top bit, then shift right by one.
RootFromLeafIndex(i) == (2^BitLength(2 * i) - 1) \div 2
=============================================================================
