CONSTANTS
  t1 = t1
  t2 = t2
  Threads = {t1, t2}
  Slots = 2
  MaxBuffers = 8
  Poison = 1000
  Bounds <- Mixed
SPECIFICATION Spec
INVARIANTS MemoryPresent CountExact NewbornWritesKept
\* The program ends when the objects of the bounds are allocated and collected.
CHECK_DEADLOCK FALSE
\* All that is claimed is claimed of runs without a lapse, and a lapse is never taken back.
CONSTRAINT Unlapsed
