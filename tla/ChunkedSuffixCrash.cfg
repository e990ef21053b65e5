\* The writer dies and restarts, but never with bytes after a published end.
SPECIFICATION Spec
CONSTANTS
  Needs <- MCNeeds
  AutoFlush = FALSE
  DiesAt = {"ready", "batch", "split"}
  HasReader = FALSE
  MaxEntries = 3
  MaxAppends = 4
  MaxChunks = 2
  MaxGcs = 2
  MaxCrashes = 2
CHECK_DEADLOCK FALSE
INVARIANTS
  SurvivesDeath
  ResidueBounded
PROPERTIES
  CollectedSpec
