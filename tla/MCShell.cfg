SPECIFICATION ShellSpec
CONSTANTS
  p1 = p1
  p2 = p2
  c1 = c1
  c2 = c2
  f1 = f1
  us = us
  im = im
  users = us
  image = im
  Readable <- MCReadable
  Writable <- MCWritable
  Procs <- MCProcs
  Logins <- MCLogins
  Files <- MCFiles
  NULL = NULL
  OVERLAP = FALSE
  Garbage <- NoGarbage
  MAX_ENTRIES <- MCEntries
  MAX_OFFSET <- MCOffsets
CHECK_DEADLOCK FALSE
INVARIANTS
  RedirectionUndone
  CommandsRedirected
  OnlyErrorsLeak
  NoDescriptorLeak
  OneDescriptorPerFile
PROPERTIES
  ClosedWithoutSharers
