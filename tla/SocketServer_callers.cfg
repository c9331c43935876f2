SPECIFICATION Spec
CONSTANTS
  MaxSocket = 1
  MaxEvents = 2
  MaxId = 2
  MaxFd = 2
  MaxPipe = 1
  Callers = {u1, u2}
  SameThread = FALSE
SYMMETRY Symmetry
CHECK_DEADLOCK FALSE
INVARIANTS NewFdAssertHolds ReservedUntilHandled StaleOnlyIfTaken FdOwnership
PROPERTIES RequestsKeepToTheirId
