SPECIFICATION CompiledSpec
CONSTANTS
  Names = {a, b, c}
  Kinds = {}
  MaxBody = 2
  Bodies <- BodiesDef
  Parameters = {0, 2}
  Fuel = 3
INVARIANT StepsAlwaysFollowBody
CHECK_DEADLOCK FALSE
