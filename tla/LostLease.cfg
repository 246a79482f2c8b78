SPECIFICATION Spec
CONSTANTS
  r1 = r1
  r2 = r2
  w1 = w1
  w2 = w2
  Runs = {r1, r2}
  Workers = {w1, w2}
  NoRun = NoRun
  NoWorker = NoWorker
  Faults = {"lease_drop"}
  MaxFaults = 1
SYMMETRY Symmetry
INVARIANTS
  OneRunOnCarla
CHECK_DEADLOCK FALSE
