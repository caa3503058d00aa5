CONSTANTS
  Programs <- Cat
  Missing <- NoFile
  Inputs <- Four
  Capacity = 1
  ForkFails = FALSE
SPECIFICATION Spec
PROPERTIES SpawnReturns
CHECK_DEADLOCK FALSE
