CONSTANTS
  g = g
  b1 = b1
  f1 = f1
  b2 = b2
  r1 = r1
  Blocks <- MCBlocks
  Number <- MCNumber
  Readers <- MCReaders
  BlockStates = {Executed, Verified}
  NONE = NONE
  U64MAX = U64MAX
  OverflowChecks = TRUE
  MaxPutFailures = 1
  Bytes = {0, 1}
  HashSize = 2
  MaxHashes = 3
  TxnIds <- MCTxnIds
SPECIFICATION Spec
INVARIANT GetLatestBlockNoPanic
