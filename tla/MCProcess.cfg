SPECIFICATION FairSpec
CONSTANTS
  p1 = p1
  p2 = p2
  p3 = p3
  Procs <- MCProcs
  Logins <- MCLogins
  Uids <- MCUids
  QUANTUM = 2
  KERNEL_PAGE_TABLE = KERNEL_PAGE_TABLE
  NULL = NULL
INVARIANTS
  TypeOK
  ContextsOwned
  AddressSpaces
  CallTree
  SomeoneCanRun
  CredentialsInherited
PROPERTIES
  ExecuteIsACall
  ImplementsFairTimeSharing
  ExecuteReturns
