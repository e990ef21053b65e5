\* Everything may happen; the system and the application are fair.
SPECIFICATION FairSpec
CONSTANTS
  f1 = f1
  f2 = f2
  w1 = w1
  Batches = {f1, f2}
  Waiters = {w1}
  SelfEnding = TRUE
  Allowed = {"overlap", "batchInWait", "finaliseInBatch", "cancel", "cancelInWait", "cancelExited", "workerDies", "mainKilled"}
  MaxGcs = 2
  MaxAppends = 1
  MaxSplits = 0
CHECK_DEADLOCK FALSE
PROPERTIES
  WaitReturns
  GcEnds
