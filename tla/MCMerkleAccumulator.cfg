CONSTANTS
  a = a
  b = b
  PLACEHOLDER = PLACEHOLDER
  LeafHashes <- MCLeafHashes
  MaxLeaves = 5
  MaxBatch = 2
  MaxRestarts = 2

SYMMETRY MCSymmetry

SPECIFICATION Spec

INVARIANT TypeOK
INVARIANT RootMatchesNaive
INVARIANT ProofsVerify
INVARIANT SavedSnapshotDurable
