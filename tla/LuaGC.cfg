SPECIFICATION MCSpec
CONSTANTS
  M = M
  R = R
  c1 = c1
  t1 = t1
  f1 = f1
  f2 = f2
  u1 = u1
  d1 = d1
  s1 = s1
  a = a
  b = b
  Main = M
  Registry = R
  Coroutines = {c1}
  OtherTables = {t1}
  Closures = {f1, f2}
  Upvals = {u1}
  Userdata = {d1}
  Strings = {}
  Slots = {a, b}
  Scalar = Scalar
  Closed = Closed
  None = None
  Shapes <- MCShapes
  MaxEntries = 1
  Pools <- PoolsOfBoth
SYMMETRY Swaps
INVARIANTS NothingDangles NoBlackToWhite FinalizedOnce
PROPERTIES CondemnsExactly
