SPECIFICATION Spec
CONSTANTS
  r1 = r1
  r2 = r2
  w1 = w1
  w2 = w2
  Runs = {r1, r2}
  Workers = {w1, w2}
  NoRun = NoRun
  NoWorker = NoWorker
  Faults = {"worker_crash", "session_linger", "shutdown"}
  MaxFaults = 1
SYMMETRY Symmetry
INVARIANTS
  TypeOK
  OneRunOnCarla
  LiveRunIsSupervised
  IdleMeansNoActiveRecord
  NoOvertaking
PROPERTIES
  ImplementsSlot
  StatusFollowsContract
CHECK_DEADLOCK FALSE
