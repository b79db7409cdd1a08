SPECIFICATION FairSpec
CONSTANTS
  Producers = {p1}
  Receivers = {r1}
  MaxSend = 1
  NoOne = NoOne
PROPERTY BlockedReceiverWoken
CHECK_DEADLOCK FALSE
