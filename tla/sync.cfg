SPECIFICATION SyncSpec
CONSTANTS
  Clients = {1, 2, 3}
  Texts = {t}
  Keys = {k}
  Lens = {2}
  NoParent = NoParent
  NoJob = NoJob
  NoEnvelope = NoEnvelope
  MaxConflict = 1
  MaxOriginChain = 8
  Budget <- FourTwoNone
  Deleters = {}
  Compacters = {2, 3}
  Links = {}
  Publishers = {1}
  MaxMessages = 2
  Sessions <- TwoThree
  Staging = 25
  GroupBits = 2
  WordBits = 5
  kMaxVarintBytes = 3
INVARIANTS
  Dense
  SameHistory
  IInv
  AnswersFit
  WireFaithful
  EchoesForeign
  CutIsSeen
  VarintExact
PROPERTIES
  ImplementsLog
CHECK_DEADLOCK FALSE
