SPECIFICATION FairSpec
CONSTANTS
  Count = 3
  Workers = {w1, w2, w3}
  Value <- MCValue
  NoTask = NoTask
INVARIANTS ResultsComplete
PROPERTY WaitReturns
CHECK_DEADLOCK FALSE
