SPECIFICATION Spec
CONSTANTS
  Admins = {m1}
  Sessions = {s1}
  Names = {"", "bo"}
  Passwords = {"p"}
  NameLength <- MCNameLength
  MAX_USERS = 2
  Blocks = {b1, b2}
  ArgvBlocks = {}
  BufferSize = 5
  Pieces = 1
  MaxConcurrent = 1
PROPERTY RegisterNamesTheUser
CHECK_DEADLOCK FALSE
