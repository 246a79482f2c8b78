SPECIFICATION Spec
CONSTANTS
  a = a
  b = b
  p = p
  x = x
  y = y
  NoOne = NoOne
  Cars = {a, b}
  Parts = {p}
  Vals = {x, y}
  Default = x
  MaxHistory = 2
  MaxOps = 6
  LateToasts = FALSE
SYMMETRY Symmetry
INVARIANTS
  UniqueIds
  SnapshotsMatchEntries
  NoOrphans
PROPERTIES
  StepsCanBeUndone
  EntriesMatchTheScene
  UndoneStepsComeBack
CHECK_DEADLOCK FALSE
