SPECIFICATION Spec
CONSTANTS
  Producers = {p1}
  Receivers = {r1, r2}
  MaxSend = 2
  NoOne = NoOne
INVARIANT ReceivedOnce
CHECK_DEADLOCK FALSE
