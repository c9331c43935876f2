SPECIFICATION FairSpec
CONSTANTS
  MaxSocket = 1
  MaxEvents = 1
  MaxId = 1
  MaxFd = 2
  MaxPipe = 1
  Callers = {u1, u2}
  SameThread = FALSE
CHECK_DEADLOCK FALSE
PROPERTIES ShutdownTakesEffect CallsReturn HalfCloseOnlyCloses
