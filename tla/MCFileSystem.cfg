SPECIFICATION Spec
CONSTANTS
  p1 = p1
  p2 = p2
  n1 = n1
  n2 = n2
  Procs <- MCProcs
  Names <- MCNames
  Blocks <- MCBlocks
  INODES = 4
  LENGTH = 3
  NULL = NULL
  PREEMPT = FALSE
  THROUGH_FILES = FALSE
  Cuts <- MCCuts
  MAX_CRASHES = 1
CHECK_DEADLOCK FALSE
INVARIANTS
  OneOwnerPerBlock
  DiskConsistent
  TreeKept
  NoBlockLost
PROPERTIES
  FilesStay
