SPECIFICATION Spec
CONSTANTS
  Conns = {c1, c2}
  FDs = {3, 4, 5}
  MaxAddrs = 2
  BufferSize = 2
  ReplySize = 1
  Methods = {"no_auth"}
  Requests = {"name"}
  ThreadsFail = FALSE
SYMMETRY ConnSymmetry
PROPERTY AcceptedOriginIsKept
CHECK_DEADLOCK FALSE
