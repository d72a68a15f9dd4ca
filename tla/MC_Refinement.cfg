CONSTANTS
  a = a
  b = b
  PLACEHOLDER = PLACEHOLDER
  LeafHashes <- MCLeafHashes
  MaxLeaves = 4
  MaxBatch = 2
  MaxRestarts = 2

SYMMETRY MCSymmetry

SPECIFICATION Spec

PROPERTY RefinesAccumulatorLog
