SPECIFICATION Spec
CONSTANTS
  Blocks = {b1, b2, b3}
  fd_size = 4
  max_pool = 2
  MaxReferences = 4
SYMMETRY BlockSymmetry
INVARIANTS
  TypeOK
  PoolsAreSound
  FreedOnce
  AllFreedInTheEnd
CHECK_DEADLOCK FALSE
