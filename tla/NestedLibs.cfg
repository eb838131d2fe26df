CONSTANTS
  MaxLinks = 2
  NameOrder <- MCNameOrder
  Shared <- MCShared
  Chars <- MCChars
  Worlds <- NestedWorld
  NumWorkers = 2
  MaxLevels = 9
  Depth = 9
SPECIFICATION Spec
INVARIANTS
  AllIndexed
CHECK_DEADLOCK FALSE
