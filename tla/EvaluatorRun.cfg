CONSTANTS
  Units <- MCUnits
  MaxDepth = 4
SPECIFICATION Spec
INVARIANTS Soundness OnlyDataFails NamesAreBound NoRecursion
PROPERTY Terminates
CHECK_DEADLOCK FALSE
