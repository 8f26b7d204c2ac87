SPECIFICATION Spec
CONSTANTS
  p1 = p1
  p2 = p2
  f1 = f1
  f2 = f2
  a = a
  b = b
  Procs <- MCProcs
  Files <- MCFiles
  Bytes <- MCBytes
  ZERO = ZERO
  EOF = EOF
  NULL = NULL
  IMAGE <- MCImage
  BLOCK = 4
  BLOCKS = 2
  Data <- MCData
  Counts <- MCCounts
  MAX_SIZE = 4
  MAX_OPEN = 1
  MAX_CRASHES = 1
SYMMETRY MCSymmetry
INVARIANTS
  TypeOK
  CopiesAreDisk
  DiskHoldsWritten
  TransfersFit
PROPERTIES
  ImplementsByteFile
