SPECIFICATION Spec
CONSTANTS
  Conns = {c1, c2}
  FDs = {3, 4, 5}
  MaxAddrs = 3
  BufferSize = 2
  ReplySize = 1
  Methods = {"none", "no_auth", "userpass"}
  Requests = {"address", "name", "unsupported"}
  ThreadsFail = TRUE
SYMMETRY ConnSymmetry
INVARIANTS
  TypeOK
  EveryEventHasAHandler
  JobsBelongToResolv
  ParserOutlivesResolver
  DoneCanUnregister
  ItemsPointToLiveStructs
  PolledIsOpen
  FailureReachesClient
  AuthenticatedFirst
  RelayIsNeverStuck
  ReadImpliesRoom
PROPERTY ImplementsSessions
CHECK_DEADLOCK FALSE
