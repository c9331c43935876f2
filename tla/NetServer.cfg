SPECIFICATION FairSpec
CONSTANTS
  MinQueueSize = 2
  Junk = Junk
  MaxSockets = 3
  MaxId = 5
  MaxFd = 4
  MaxReads = 3
CHECK_DEADLOCK FALSE
INVARIANTS AssertsHold DescriptorsOwned GlobalListSound
PROPERTIES ImplementsMailbox
