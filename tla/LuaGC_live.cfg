SPECIFICATION MCFairSpec
CONSTANTS
  M = M
  R = R
  c1 = c1
  t1 = t1
  f1 = f1
  f2 = f2
  u1 = u1
  d1 = d1
  s1 = s1
  a = a
  b = b
  Main = M
  Registry = R
  Coroutines = {c1}
  OtherTables = {}
  Closures = {}
  Upvals = {}
  Userdata = {d1}
  Strings = {s1}
  Slots = {a}
  Scalar = Scalar
  Closed = Closed
  None = None
  Shapes <- MCShapes
  MaxEntries = 1
  Pools <- OnePool
PROPERTIES GarbageIsFreed
