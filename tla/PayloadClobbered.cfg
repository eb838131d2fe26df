CONSTANTS
  Width <- MCWidth
  Page = 8
  SecAlign = 2
  Dirs <- MCDirs
  Relative <- MCRelative
  Provided <- MCProvided
  Abis <- MCAbis
  Jobs <- PackedPie
SPECIFICATION Spec
INVARIANTS
  PayloadKept
CHECK_DEADLOCK FALSE
