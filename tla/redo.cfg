SPECIFICATION ManagedSpec
CONSTANTS
  Clients = {1, 2}
  Texts = {t}
  Keys = {}
  Lens = {1}
  NoParent = NoParent
  NoJob = NoJob
  MaxConflict = 8
  MaxOriginChain = 8
  Budget <- OneEach
  Deleters = {}
  Compacters = {}
  Links <- AllLinks
  Publishers = {}
  MaxMessages = 0
  Me = 1
  Origins = {o}
  MaxTracked = 1
  MaxFrames = 2
  NotOpen = NotOpen
INVARIANTS
  Converged
CHECK_DEADLOCK FALSE
