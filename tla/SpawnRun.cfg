CONSTANTS
  Programs <- AnyProgram
  Missing <- NoFile
  Inputs <- UpToThree
  Capacity = 1
  ForkFails = TRUE
SPECIFICATION Spec
INVARIANTS RightOutput EffectsPrecede
PROPERTIES SpawnReturns
CHECK_DEADLOCK FALSE
