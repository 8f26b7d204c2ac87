SPECIFICATION Spec
CONSTANTS
  p1 = p1
  p2 = p2
  p3 = p3
  Procs <- MCProcs
  Logins <- MCLogins
  NULL = NULL
  PRINTS = TRUE
  LEAKS = TRUE
  MAX_DEPTH = 2
  MAX_MUTEX = 3
CHECK_DEADLOCK FALSE
INVARIANTS
  SectionsExclude
  HaltsEnabled
