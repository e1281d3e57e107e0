SPECIFICATION FairSpec
CONSTANTS
  Peers = {1, 2, 3}
  States = {here, gone}
  Unknown = Unknown
  MaxClients = 3
  Links <- Chain
  Restarters = {2}
  Budget <- Ends
  MaxRestarts = 1
  MaxMessages = 2
INVARIANTS
  Truthful
PROPERTIES
  NeverBack
  OwnStateStands
  EventuallyAgree
CHECK_DEADLOCK FALSE
