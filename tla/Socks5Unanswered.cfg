SPECIFICATION FairSpec
CONSTANTS
  Conns = {c1, c2}
  FDs = {3, 4, 5}
  MaxAddrs = 1
  BufferSize = 1
  ReplySize = 1
  Methods = {"no_auth"}
  Requests = {"address", "unsupported"}
  ThreadsFail = FALSE
PROPERTY EveryRequestIsAnswered
CHECK_DEADLOCK FALSE
