SPECIFICATION FairSpec
CONSTANTS
  p1 = p1
  p2 = p2
  Procs <- MCProcs
  screen_index <- MCTwoScreens
  NULL = NULL
  ATOMIC = TRUE
  SLOW = TRUE
  CommandKeys <- MCAllKeys
  LENGTH = 2
  MAX_LENGTH = 3
INVARIANTS
  InputIsTyped
PROPERTIES
  LineIsRead
