\* Batches and waits that do not overlap, collections cancelled or losing their worker.
SPECIFICATION Spec
CONSTANTS
  f1 = f1
  f2 = f2
  w1 = w1
  Batches = {f1, f2}
  Waiters = {w1}
  SelfEnding = TRUE
  Allowed = {"cancel", "workerDies"}
  MaxGcs = 3
  MaxAppends = 3
  MaxSplits = 2
CHECK_DEADLOCK FALSE
INVARIANTS
  Coherent
  CommittedKept
  IsFinishedHonest
  NoSpuriousFailure
  NoLeftovers
  CallbackCalled
