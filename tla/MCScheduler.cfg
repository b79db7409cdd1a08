SPECIFICATION FairSpec
CONSTANTS
  Mains = {m1}
  N = 2
  MaxTasks = 4
  None = None
INVARIANTS NoTaskLostOrDoubled ResumedWithItsValue
PROPERTY JoinReturns
CHECK_DEADLOCK FALSE
