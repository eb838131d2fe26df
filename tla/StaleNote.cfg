CONSTANTS
  Width <- MCWidth
  Page = 8
  SecAlign = 2
  Dirs <- MCDirs
  Relative <- MCRelative
  Provided <- MCProvided
  Abis <- MCAbis
  Jobs <- CacheOfOverlay
SPECIFICATION Spec
INVARIANTS
  NoteAnchored
CHECK_DEADLOCK FALSE
