SPECIFICATION Spec
CONSTANTS
  BufferSize = 3
  ReplySize = 3
  MAX_FQDN_SIZE = 3
  IPV4_LEN = 1
  IPV6_LEN = 2
  Messages <- MCMessages
  Accounts <- MCAccounts
  UserWord <- MCUserWord
  PassWord <- MCPassWord
  MaxName = 4
  BUFFER_SIZE = 2
  ClientBytes = {117, 10, 200}
  OriginBytes = {13}
INVARIANTS
  TypeOK
  MethodIsOneOffered
  FieldsAreThoseSent
  DestinationIsTheOneAsked
  DissectorMemoryIsSound
PROPERTIES
  PatientClientIsServed
  RelayIsTwoQueues
  QueuedBytesMove
CHECK_DEADLOCK FALSE
