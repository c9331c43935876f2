SPECIFICATION FairSpec
CONSTANTS
  Conns = {c1, c2}
  MaxFd = 2
  MaxUnread = 1
  MaxEvents = 2
CHECK_DEADLOCK FALSE
INVARIANTS TypeOK EventsCurrent OnlyResetsEnd SignalOnlyAfterFailedReply
PROPERTIES EveryPeerServed PeerGoneThenClosed
