SPECIFICATION Spec
CONSTANTS
  a = a
  b = b
  p = p
  x = x
  y = y
  NoOne = NoOne
  Cars = {a, b}
  Parts = {p}
  Vals = {x, y}
  Default = x
  MaxHistory = 2
  MaxOps = 6
  LateToasts = TRUE
SYMMETRY Symmetry
INVARIANTS
  UniqueIds
CHECK_DEADLOCK FALSE
