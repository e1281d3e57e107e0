SPECIFICATION Spec
CONSTANTS
  Clients = {1, 2, 3}
  Texts = {t}
  Keys = {}
  Lens = {1}
  NoParent = NoParent
  NoJob = NoJob
  MaxConflict = 8
  MaxOriginChain = 8
  Budget <- OneOneTwo
  Deleters = {}
  Compacters = {}
  Links <- UpTheLine
  Publishers = {2}
  MaxMessages = 2
INVARIANTS
  NextClockFree
  OriginsStored
  ConsistentOrder
PROPERTIES
  NothingDropped
CHECK_DEADLOCK FALSE
