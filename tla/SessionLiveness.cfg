SPECIFICATION Spec
CONSTANTS
  A = A
  B = B
  m1 = m1
  m2 = m2
  j1 = j1
  j2 = j2
  NoId = NoId
  NoMap = NoMap
  NoJob = NoJob
  Ids = {A}
  Maps = {m1}
  Large = {m1}
  Jobs = {j1, j2}
  MaxVer = 1
  MaxRev = 1
  Upsets = {"leave", "build", "escape", "parse", "reload", "edit"}
PROPERTIES
  LoadingEnds
  SavingIsEnabledAgain
