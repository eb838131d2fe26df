CONSTANTS
  Width <- MCWidth
  Page = 8
  SecAlign = 2
  Dirs <- MCDirs
  Relative <- MCRelative
  Provided <- MCProvided
  Abis <- MCAbis
  Jobs <- StubOfPie
SPECIFICATION Spec
INVARIANTS
  StubInstalls
CHECK_DEADLOCK FALSE
