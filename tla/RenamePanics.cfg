CONSTANTS
  Names <- MCNames
  GnuHash <- MCGnuHash
  SysvHash <- MCSysvHash
  WordBits = 4
  Objects <- BfdObjects
  Maps <- MCMaps
  Cleared <- MCCleared
  MaxRuns = 1
SPECIFICATION Spec
INVARIANTS
  NeverPanics
CHECK_DEADLOCK FALSE
