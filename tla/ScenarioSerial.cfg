SPECIFICATION Spec
CONSTANTS
  c1 = c1
  c2 = c2
  c3 = c3
  cleared = cleared
  s1 = s1
  s2 = s2
  m1 = m1
  m2 = m2
  NoMap = NoMap
  Omitted = Omitted
  Clients = {c1, c2, c3}
  Scenes = {cleared, s1, s2}
  EmptyScenes = {cleared}
  Maps = {NoMap, m1, m2}
  Bodies <- ApiBodies
  Concurrent = FALSE
  BlindSaves = FALSE
  MaxRevision = 4
  MaxRows = 1
SYMMETRY Symmetry
INVARIANTS
  RevisionNamesContent
PROPERTIES
  NoLostUpdate
  SceneStaysOnItsMap
CHECK_DEADLOCK FALSE
