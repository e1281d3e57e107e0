SPECIFICATION ManagedSpec
CONSTANTS
  Clients = {1, 2}
  Texts = {}
  Keys = {k}
  Lens = {1}
  NoParent = NoParent
  NoJob = NoJob
  MaxConflict = 8
  MaxOriginChain = 8
  Budget <- ThreeOne
  Deleters = {}
  Compacters = {}
  Links <- AllLinks
  Publishers = {}
  MaxMessages = 0
  Me = 1
  Origins = {o}
  MaxTracked = 1
  MaxFrames = 2
  NotOpen = NotOpen
INVARIANTS
  FramesKept
  FramesInOrder
CHECK_DEADLOCK FALSE
