CONSTANTS
  Width <- MCWidth
  Page = 8
  SecAlign = 2
  Dirs <- MCDirs
  Relative <- MCRelative
  Provided <- MCProvided
  Abis <- MCAbis
  Jobs <- StrippedExe
SPECIFICATION Spec
INVARIANTS
  OutputParses
CHECK_DEADLOCK FALSE
