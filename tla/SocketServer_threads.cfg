SPECIFICATION Spec
CONSTANTS
  MaxSocket = 2
  MaxEvents = 1
  MaxId = 3
  MaxFd = 2
  MaxPipe = 1
  Callers = {u1}
  SameThread = FALSE
CONSTRAINT NothingLost
CHECK_DEADLOCK FALSE
INVARIANTS EpollMatchesTable WriteInterestKept
PROPERTIES NoSilentClose CloseIsFinal FailedOpenKeepsSlot
