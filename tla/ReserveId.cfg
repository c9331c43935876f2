SPECIFICATION Spec
CONSTANTS
  t1 = t1
  t2 = t2
  t3 = t3
  Threads <- MCThreads
  MaxSocket = 2
  MaxInt = 3
SYMMETRY Symmetry
INVARIANTS TypeOK SlotsExclusive IdMatchesSlot
