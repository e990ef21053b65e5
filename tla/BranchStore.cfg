\* One store with two branches; callbacks, a reader, closes and a death.
SPECIFICATION FairSpec
CONSTANTS
  main = main  dev = dev  c1 = c1  c2 = c2  s1 = s1  s2 = s2
  None = None
  Keys = {main, dev}
  Values = {c1, c2}
  Stores = {s1}
  Allowed = {}
  MaxWatches = 2
  MaxEvents = 6
CHECK_DEADLOCK FALSE
INVARIANTS
  FileAndTables
  ServedUntilGiven
  DiffsChain
  OneCallAtATime
PROPERTIES
  MapSpec
  DiffsDelivered
