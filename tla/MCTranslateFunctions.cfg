CONSTANTS
  f1 = f1
  f2 = f2
  m1 = m1
  m2 = m2
  Order <- MCOrder
  Modules <- MCModules
  VcTimeout = 1
  Estimates = {0, 1, 2}
SPECIFICATION Spec
INVARIANT CallsResolve
