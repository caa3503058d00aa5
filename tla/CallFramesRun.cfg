CONSTANTS
  x = x
  y = y
  v = v
  w = w
  NoVal = NoVal
  NoTab = NoTab
  Vars = {x, y}
  Vals = {v, w}
  Closures <- TwoClosures
  Slots = {s1}
  MaxCalls = 2
  Tabs = {t1, t2, t3, t4}
  PoolMax = 1
  MaxBlocks = 1
SYMMETRY AnyTab
SPECIFICATION Spec
INVARIANTS PoolIsClean FramesAreOwn KeysUnique NothingLeaks
PROPERTIES ImplementsPureCalls
