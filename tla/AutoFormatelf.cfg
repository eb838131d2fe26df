CONSTANTS
  MaxLinks = 2
  NameOrder <- MCNameOrder
  Shared <- MCShared
  Chars <- MCChars
  Worlds <- MCWorlds
  NumWorkers = 2
  MaxLevels = 9
  Depth = 9
SPECIFICATION FairSpec
INVARIANTS
  TypeOK
  AllIndexed
  RootsOutrank
  Loads
PROPERTIES
  MergedInOrder
  ImplementsResolution
  Terminates
CHECK_DEADLOCK FALSE
