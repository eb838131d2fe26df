CONSTANTS
  N = 4
  Paths <- MCPaths
  PathOf <- MCPathOf
  Fate <- MCFate
  Unresolved <- MCUnresolved
  NumWorkers = 2
  MaxFaults = 0
  MaxUnread = 3
  MaxCrashes = 0
SPECIFICATION Spec
INVARIANTS
  SuccessMeansPatched
CHECK_DEADLOCK FALSE
