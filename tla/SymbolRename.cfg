CONSTANTS
  Names <- MCNames
  GnuHash <- MCGnuHash
  SysvHash <- MCSysvHash
  WordBits = 4
  Objects <- MCObjects
  Maps <- MCMaps
  Cleared <- MCCleared
  MaxRuns = 4
SPECIFICATION Spec
INVARIANTS
  TypeOK
  GnuFinds
  SysvFinds
PROPERTIES
  ImplementsSymbolSet
CHECK_DEADLOCK FALSE
