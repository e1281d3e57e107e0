SPECIFICATION Spec
CONSTANTS
  Clients = {1, 2, 3}
  Texts = {t}
  Keys = {}
  Lens = {1}
  NoParent = NoParent
  NoJob = NoJob
  MaxConflict = 8
  MaxOriginChain = 8
  Budget <- TwoOneOne
  Deleters = {3}
  Compacters = {}
  Links <- FromTwo
  Publishers = {}
  MaxMessages = 0
INVARIANTS
  Converged
CHECK_DEADLOCK FALSE
