SPECIFICATION Spec
CONSTANTS
  p1 = p1
  p2 = p2
  f1 = f1
  Procs <- MCProcs
  Logins <- MCLogins
  Files <- MCFile
  NULL = NULL
  OVERLAP = TRUE
  Garbage <- NoGarbage
  MAX_ENTRIES <- MC44
  MAX_OFFSET <- Far10
CHECK_DEADLOCK FALSE
INVARIANTS
  TransferAtOwnOffset
