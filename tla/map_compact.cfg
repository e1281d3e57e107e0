SPECIFICATION Spec
CONSTANTS
  Clients = {1, 2, 3}
  Texts = {}
  Keys = {k}
  Lens = {2}
  NoParent = NoParent
  NoJob = NoJob
  MaxConflict = 8
  MaxOriginChain = 8
  Budget <- FourTwoTwo
  Deleters = {}
  Compacters = {1, 2, 3}
  Links <- AllLinks
  Publishers = {}
  MaxMessages = 0
INVARIANTS
  TypeOK
  HeadIsRightmost
  Converged
  OneLiveValue
  HeadsAgree
CHECK_DEADLOCK FALSE
