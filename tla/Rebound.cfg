SPECIFICATION Spec
SYMMETRY IdSymmetry
CONSTANTS
  A = A
  B = B
  m1 = m1
  m2 = m2
  j1 = j1
  j2 = j2
  NoId = NoId
  NoMap = NoMap
  NoJob = NoJob
  Ids = {A, B}
  Maps = {m1, m2}
  Large = {m2}
  Jobs = {j1, j2}
  MaxVer = 2
  MaxRev = 3
  Upsets = {}
PROPERTIES
  EverySaveKeepsItsScenario
