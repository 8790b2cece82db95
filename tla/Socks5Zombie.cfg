SPECIFICATION Spec
CONSTANTS
  Conns = {c1, c2}
  FDs = {3, 4, 5}
  MaxAddrs = 3
  BufferSize = 2
  ReplySize = 1
  Methods = {"no_auth"}
  Requests = {"name"}
  ThreadsFail = FALSE
SYMMETRY ConnSymmetry
INVARIANT RegisteredIsOpen
CHECK_DEADLOCK FALSE
