SPECIFICATION Spec
CONSTANTS
  c1 = c1
  c2 = c2
  cleared = cleared
  s1 = s1
  s2 = s2
  m1 = m1
  m2 = m2
  NoMap = NoMap
  Omitted = Omitted
  Clients = {c1, c2}
  Scenes = {cleared, s1, s2}
  EmptyScenes = {cleared}
  Maps = {NoMap, m1, m2}
  Bodies <- EditorBodies
  Concurrent = TRUE
  BlindSaves = FALSE
  MaxRevision = 3
  MaxRows = 1
SYMMETRY Symmetry
PROPERTIES
  NoLostUpdate
CHECK_DEADLOCK FALSE
