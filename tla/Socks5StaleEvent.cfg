SPECIFICATION Spec
CONSTANTS
  Conns = {c1, c2, c3}
  FDs = {3, 4, 5, 6}
  MaxAddrs = 0
  BufferSize = 2
  ReplySize = 1
  Methods = {"no_auth"}
  Requests = {"address"}
  ThreadsFail = FALSE
SYMMETRY ConnSymmetry
INVARIANT SuccessIsTrue
CHECK_DEADLOCK FALSE
