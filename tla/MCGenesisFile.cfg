CONSTANTS
  GenesisValues = {g1, g2}
  EncLen = 3
  NONE = NONE
  MaxCrashes = 2
SPECIFICATION Spec
INVARIANTS
  TypeOK
  SavedGenesisLoads
