SPECIFICATION Spec
CONSTANTS
  Mutators = {m1}
  Objects = {o1}
  Null = Null
  Bounds <- Single
INVARIANT AckedInThisCycle
CHECK_DEADLOCK FALSE
