SPECIFICATION Spec
CONSTANTS
  Owner = owner
  Thieves = {t1, t2}
  Null = Null
  InitialCapacity = 2
  MaxPush = 4
INVARIANTS ReadIsFresh
PROPERTY ImplementsDeque
CHECK_DEADLOCK FALSE
