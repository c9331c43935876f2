SPECIFICATION Spec
CONSTANTS
  CharMax = 3
  Lengths <- MCShort
  PipeSize = 8
INVARIANTS FramingKept
