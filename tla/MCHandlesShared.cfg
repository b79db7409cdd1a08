CONSTANTS
  Threads = {t1, t2}
  PoolSize = 1
  MaxSize = 4
  Bounds <- GrowOnly
SPECIFICATION Spec
SYMMETRY Symmetry
INVARIANT ThreadOwnsHandle
\* The threads stop when the handles of the bounds are used up.
CHECK_DEADLOCK FALSE
