CONSTANTS
  ChunkLen = 16
  MaxRun = 15
  WordLen = 2
  ByteBits = 4
  Inputs <- MCInputs
SPECIFICATION Spec
INVARIANTS ColumnComesBack RefusedIfCut
PROPERTY ChunksAreShortest
CHECK_DEADLOCK FALSE
