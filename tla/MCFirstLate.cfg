SPECIFICATION Spec
CONSTANTS
  Count = 3
  Workers = {w1, w2}
  Value <- MCValue
  MaxSuspends = 0
  Main = Main
  NoOne = NoOne
INVARIANT NoLateAccess
CHECK_DEADLOCK FALSE
