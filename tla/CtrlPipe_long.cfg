SPECIFICATION Spec
CONSTANTS
  CharMax = 3
  Lengths <- MCUpTo
  PipeSize = 8
CHECK_DEADLOCK FALSE
INVARIANTS PipeAssertHolds
