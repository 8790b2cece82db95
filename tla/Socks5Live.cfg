SPECIFICATION FairSpec
CONSTANTS
  Conns = {c1, c2}
  FDs = {3, 4, 5, 6}
  MaxAddrs = 2
  BufferSize = 1
  ReplySize = 1
  Methods = {"no_auth"}
  Requests = {"address", "name"}
  ThreadsFail = FALSE
INVARIANT ReferencesCountItems
PROPERTIES
  ConnectingEnds
  EveryRequestIsAnswered
CHECK_DEADLOCK FALSE
