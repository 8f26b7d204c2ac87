SPECIFICATION Spec
CONSTANTS
  p1 = p1
  Procs <- MCProcs
  NULL = NULL
  SCREENS = 2
  ROWS = 1
  COLUMNS = 3
  WORD = 10
  Texts <- MCTexts
  PROMPT = 2
  MAX_CURSOR = 4
  FARTHEST = 4
  Lines <- MCLines
CONSTRAINT Bounded
INVARIANTS
  StartIsScroll
PROPERTIES
  PrintShowsCursor
  ImplementsTerminals
