SPECIFICATION Spec
CONSTANTS
  MEMORY_MAP <- MCMap
  MAX_TABLES = 3
  VPAGES = 3
  CODE_PAGES <- MCCodePages
INVARIANTS
  TypeOK
  MemoryAccounted
  FreedCompletely
PROPERTIES
  TilingKept
  OwnershipKept
CONSTRAINT UntilOutOfOrder
