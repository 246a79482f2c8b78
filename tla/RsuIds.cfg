SPECIFICATION Spec
CONSTANTS
  Typed = {}
  Entered = {}
  MaxItems = 0
  Cars = {}
  Rsus = {r1, r2}
  Buildings = {}
  Pedestrians = {}
  Lidars = {}
  Carrier <- MCCarrier
  Routed = {}
  MaxEdits = 2
INVARIANT RsuIdsDistinct
CHECK_DEADLOCK FALSE
