SPECIFICATION Spec
CONSTANTS
  r1 = r1
  w1 = w1
  Runs = {r1}
  Workers = {w1}
  NoRun = NoRun
  NoWorker = NoWorker
  Faults = {}
  MaxFaults = 0
PROPERTIES
  CancelledReplyHolds
CHECK_DEADLOCK FALSE
