CONSTANTS
  Width <- MCWidth
  Cell <- MCCell
  Original <- MCOriginal
  SpanLists <- MCSpanLists
  MaxAt = 4
  MaxSpans = 3
  Shift = 2
  Size = 5
SPECIFICATION Spec
INVARIANTS
  TypeOK
  Faithful
  OverlapDetected
CHECK_DEADLOCK FALSE
