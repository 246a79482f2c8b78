SPECIFICATION Spec
CONSTANTS
  c = c
  l = l
  p = p
  r = r
  b = b
  NoOne = NoOne
  Cars = {c}
  Lidars = {l}
  Pedestrians = {p}
  Rsus = {r}
  Buildings = {b}
  CarOf <- OnTheCar
  MaxVer = 2
  MaxOps = 1
  Scenes = {{c, l}, {p, r}, {b}}
  Typed = FALSE
CHECK_DEADLOCK FALSE
INVARIANTS
  SceneShowsTheStore
  GizmoInScene
PROPERTIES
  DragKeepsItsObject
