\* Splits and collections under a reader; no crash.
SPECIFICATION Spec
CONSTANTS
  Needs <- MCNeeds
  AutoFlush = TRUE
  DiesAt = {}
  HasReader = TRUE
  MaxEntries = 4
  MaxAppends = 4
  MaxChunks = 2
  MaxGcs = 2
  MaxCrashes = 0
CHECK_DEADLOCK FALSE
INVARIANTS
  Reads
