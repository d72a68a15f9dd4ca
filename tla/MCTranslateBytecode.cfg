CONSTANTS
  Ops <- MCOps
  MayAbort <- MCMayAbort
  MaxCode = 4
SPECIFICATION Spec
INVARIANTS
  AbortReported
