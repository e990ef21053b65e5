\* A batch runs while a fiber waits for the collection.
SPECIFICATION Spec
CONSTANTS
  f1 = f1
  f2 = f2
  w1 = w1
  Batches = {f1}
  Waiters = {w1}
  SelfEnding = FALSE
  Allowed = {"batchInWait"}
  MaxGcs = 1
  MaxAppends = 2
  MaxSplits = 0
CHECK_DEADLOCK FALSE
INVARIANTS
  CommittedKept
