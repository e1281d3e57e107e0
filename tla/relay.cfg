SPECIFICATION FairSpec
CONSTANTS
  Clients = {1, 2, 3}
  Texts = {t}
  Keys = {}
  Lens = {1}
  NoParent = NoParent
  NoJob = NoJob
  MaxConflict = 8
  MaxOriginChain = 8
  Budget <- TwoNoneOne
  Deleters = {1}
  Compacters = {}
  Links <- Relay
  Publishers = {}
  MaxMessages = 0
INVARIANTS
  BetweenOrigins
  DeletedIsFlagged
  Converged
PROPERTIES
  InsertsWhereAsked
  EventuallyConverged
CHECK_DEADLOCK FALSE
