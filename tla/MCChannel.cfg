SPECIFICATION FairSpec
CONSTANTS
  Producers = {p1, p2}
  Receivers = {r1}
  MaxSend = 3
  NoOne = NoOne
INVARIANTS FifoOrder LinksAreLive
PROPERTY ReceiveReturns
CHECK_DEADLOCK FALSE
