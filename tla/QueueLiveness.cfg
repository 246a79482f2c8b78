SPECIFICATION FairSpec
CONSTANTS
  r1 = r1
  r2 = r2
  w1 = w1
  Runs = {r1, r2}
  Workers = {w1}
  NoRun = NoRun
  NoWorker = NoWorker
  Faults = {"worker_crash"}
  MaxFaults = 1
PROPERTIES
  ActiveRunEnds
  QueuedRunIsServed
CHECK_DEADLOCK FALSE
