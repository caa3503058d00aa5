CONSTANTS
  Units <- LookedUp
  MaxDepth = 4
SPECIFICATION Spec
INVARIANT NoRecursion
CHECK_DEADLOCK FALSE
