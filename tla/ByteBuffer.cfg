SPECIFICATION Spec
CONSTANTS
  BufferSize = 5
  Byte = {0, 1}
INVARIANT CursorsWellFormed
PROPERTY IsFifo
