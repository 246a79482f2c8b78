SPECIFICATION Spec
CONSTANTS
  c1 = c1
  c2 = c2
  cleared = cleared
  s1 = s1
  m1 = m1
  NoMap = NoMap
  Omitted = Omitted
  Clients = {c1, c2}
  Scenes = {cleared, s1}
  EmptyScenes = {cleared}
  Maps = {NoMap, m1}
  Bodies <- ApiBodies
  Concurrent = TRUE
  BlindSaves = TRUE
  MaxRevision = 2
  MaxRows = 2
SYMMETRY Symmetry
PROPERTIES
  ChangesStayWithTheirRow
  DeletedStaysDeleted
CHECK_DEADLOCK FALSE
