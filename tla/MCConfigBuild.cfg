CONSTANTS
  Names = {"alice", "Alice", "bob", "default"}
  Lower <- MCLower
  GenesisNames = {"association", "genesis"}
  MaxEntries = 3
SPECIFICATION Spec
INVARIANTS
  TypeOK
  KeysDistinct
