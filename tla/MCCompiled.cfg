SPECIFICATION CompiledSpec
CONSTANTS
  Names = {a, b, c}
  Kinds = {"map", "array"}
  MaxBody = 2
  Bodies <- BodiesDef
  Parameters = {0, 2}
  Fuel = 3
SYMMETRY NamesSymmetry
INVARIANTS Independent SoleOwner StepsFollowBody
CHECK_DEADLOCK FALSE
