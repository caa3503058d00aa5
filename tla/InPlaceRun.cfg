CONSTANTS
  Nil = Nil
  NoCol = NoCol
  Half = 2
  Ops = {"div"}
  Names = {p}
  Literals <- SomeLiterals
  Scalars <- SomeScalars
  Cols = {c1, c2, c3, c4}
  MaxStack = 3
  MaxCount = 3
SYMMETRY AnyCol
SPECIFICATION Spec
INVARIANTS CountsExact CountsCover
PROPERTIES ImplementsPureColumns
