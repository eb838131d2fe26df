CONSTANTS
  Width <- MCWidth
  Page = 8
  SecAlign = 2
  Dirs <- MCDirs
  Relative <- MCRelative
  Provided <- MCProvided
  Abis <- MCAbis
  Jobs <- AllJobs
SPECIFICATION Spec
INVARIANTS
  TypeOK
  ImageIntact
  OutputSound
  FileUsable
  LayoutNeverRejected
  NoteAnchoredByAppend
  RldMapReachable
  PayloadLast
  PayloadKept
  BunTemplate
PROPERTIES
  ImplementsObject
  RegionReplaced
  RepeatIsNoop
  ShrinkResolves
CHECK_DEADLOCK FALSE
