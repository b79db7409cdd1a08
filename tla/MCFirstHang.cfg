SPECIFICATION FairSpec
CONSTANTS
  Count = 2
  Workers = {w1, w2}
  Value <- MCValue
  MaxSuspends = 0
  Main = Main
  NoOne = NoOne
PROPERTY WaitReturns
CHECK_DEADLOCK FALSE
