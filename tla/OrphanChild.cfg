SPECIFICATION Spec
CONSTANTS
  r1 = r1
  r2 = r2
  w1 = w1
  Runs = {r1, r2}
  Workers = {w1}
  NoRun = NoRun
  NoWorker = NoWorker
  Faults = {"db_error"}
  MaxFaults = 1
SYMMETRY RunSymmetry
INVARIANTS
  OneRunOnCarla
CHECK_DEADLOCK FALSE
