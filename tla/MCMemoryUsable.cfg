SPECIFICATION Spec
CONSTANTS
  MEMORY_MAP <- MCMap
  MAX_TABLES = 3
  VPAGES = 3
  CODE_PAGES <- MCCodePages
INVARIANTS
  OnlyUsableFrames
