SPECIFICATION FairSpec
CONSTANTS
  MaxMsg = 5
  Size <- MCSize
CHECK_DEADLOCK FALSE
INVARIANTS OnlyHighHeadPartial WbSizeIsBacklog MessagesNotInterleaved NothingLost FifoPerPriority GracefulCloseDelivers
PROPERTIES HalfCloseEnds ImplementsWriteSide
