SPECIFICATION Spec
CONSTANTS
  Typed <- MCTyped
  Entered <- MCEntered
  MaxItems = 2
  Cars = {c1}
  Rsus = {r1, r2}
  Buildings = {b1}
  Pedestrians = {p1}
  Lidars = {l1}
  Carrier <- MCCarrier
  Routed = {c1}
  MaxEdits = 2
INVARIANTS ServiceAccepts SettingsReachAFile NoHiddenOverride EveryFieldIsKept
PROPERTIES ReopenedRunsTheSame
CHECK_DEADLOCK FALSE
