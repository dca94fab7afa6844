CONSTANTS
  PageSize = 8
  Sizes <- MCSizes
  Aligns <- MCAligns
  PointerAlign = 2
  Counts <- MCCounts
  WordSize = 64
  MallocAlign = 4
  MaxAddr = 39
SPECIFICATION Spec
INVARIANTS NoOverlap InsidePages RoomForAll
CHECK_DEADLOCK FALSE
