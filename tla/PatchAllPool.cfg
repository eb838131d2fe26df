CONSTANTS
  N = 4
  Paths <- MCPaths
  PathOf <- MCPathOf
  Fate <- MCFate
  Unresolved <- MCUnresolved
  NumWorkers = 3
  MaxFaults = 1
  MaxUnread = 1
  MaxCrashes = 1
SPECIFICATION FairSpec
INVARIANTS
  TypeOK
  Whole
  OneOwner
  OthersGoOn
PROPERTIES
  ImplementsPatchSet
  Terminates
CHECK_DEADLOCK FALSE
