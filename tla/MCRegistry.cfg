SPECIFICATION Spec
CONSTANTS
  Threads = {t1, t2, t3}
  Null = Null
  Bounds <- Mixed
SYMMETRY Symmetry
INVARIANTS Registered NoWalkToFreed NoDeadForgotten ScannedIsMapped
CHECK_DEADLOCK FALSE
