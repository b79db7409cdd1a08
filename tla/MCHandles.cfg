CONSTANTS
  Threads = {t1, t2}
  PoolSize = 1
  MaxSize = 4
  Bounds <- GrowAndReuse
SPECIFICATION Spec
SYMMETRY Symmetry
INVARIANTS OneOwner NoHandleLost PointerCurrent PopsCurrentLink
\* The threads stop when the handles of the bounds are used up.
CHECK_DEADLOCK FALSE
\* All that is claimed is claimed of undisturbed runs, and a run once disturbed stays so.
CONSTRAINT Undisturbed
