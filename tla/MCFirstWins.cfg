SPECIFICATION FairSpec
CONSTANTS
  Count = 3
  Workers = {w1, w2}
  Value <- MCValue
  MaxSuspends = 1
  Main = Main
  NoOne = NoOne
INVARIANTS TallyExact ReturnsLowestIndex CancelledOnlyBehindWinner WinnerValueSettled
PROPERTY AllCounted
CHECK_DEADLOCK FALSE
