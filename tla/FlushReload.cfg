\* One writer and one reader; the writer dies or the power fails once.
SPECIFICATION Spec
CONSTANTS
  c1 = c1  c2 = c2  n1 = n1  s1 = s1  s2 = s2
  Hashes = {c1, n1}
  Indexed <- MCIndexed
  Strings <- MCStrings
  StepOf <- MCStepOf
  DictCapacity = 1
  UseFsync = TRUE
  PowerFails = TRUE
  Failing = {}
  Junk = Junk
  NoHash = NoHash
  MaxEntries = 3
  MaxCrashes = 1
CHECK_DEADLOCK FALSE
INVARIANTS
  PublishedDecodes
  ReaderReads
  WriterReads
  AckedSurvives
PROPERTIES
  LogSpec
