SPECIFICATION Spec
CONSTANTS
  c1 = c1  c2 = c2  n1 = n1  s1 = s1  s2 = s2
  Hashes = {c1}
  Indexed <- MCIndexed
  Strings <- MCStrings
  StepOf <- MCStepOf
  DictCapacity = 0
  UseFsync = TRUE
  PowerFails = FALSE
  Failing = {"append", "flush", "fsync"}
  Junk = Junk
  NoHash = NoHash
  MaxEntries = 2
  MaxCrashes = 1
INVARIANTS ConsistentStore IndexBehindControl
CHECK_DEADLOCK FALSE
