CONSTANTS
  Words <- MCWords
  IntOf <- MCIntOf
  FloatOf <- MCFloatOf
  Texts <- MCTexts
  Vals <- MCVals
  ChunkLen = 8
  MaxRun = 7
  WordLen = 2
  ByteBits = 7
  CutLen = 60
SPECIFICATION Spec
INVARIANTS Lossless CutIsRefused
