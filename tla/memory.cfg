SPECIFICATION Spec
CONSTANTS
  Null = Null
  BlockBytes = 10
  kMaxBlocks = 4
  SlabSlots = 2
  SlotBytes = 4
  SlotAlign = 2
  SlabHeader = 4
  kMaxSlabs = 2
  NameBytes = 1
  ValueBytes = {2}
  PtrBytes = 2
  RangeBytes = 4
  RangeAlign = 2
  InitialItems = 1
  MaxItems = 2
  InitialRanges = 3
  MaxRanges = 3
  MaxClock = 6
INVARIANTS
  Compact
  ContainsCovered
  NoOverlap
  SlotOnce
PROPERTIES
  Implements
CHECK_DEADLOCK FALSE
