CONSTANTS
  MemorySize = 6
  NbSpaces = 8
  Sizes = {1, 2}
SPECIFICATION Spec
CHECK_DEADLOCK FALSE
INVARIANT ChunksKept
