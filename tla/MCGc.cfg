SPECIFICATION Spec
CONSTANTS
  Mutators = {m1}
  Objects = {o1, o2}
  Null = Null
  Bounds <- Mixed
SYMMETRY Symmetry
INVARIANTS WatermarkHeld StableRootMarked NoTracedToUntraced
PROPERTY SurvivesTwoMisses
CHECK_DEADLOCK FALSE
