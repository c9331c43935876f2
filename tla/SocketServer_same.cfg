SPECIFICATION Spec
CONSTANTS
  MaxSocket = 2
  MaxEvents = 2
  MaxId = 3
  MaxFd = 2
  MaxPipe = 1
  Callers = {u1}
  SameThread = TRUE
CHECK_DEADLOCK FALSE
INVARIANTS TypeOK NoStaleDispatch
PROPERTIES AcceptedNeverConnected
