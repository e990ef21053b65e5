\* Two fibers on two branches, one of them open twice, and a store without a branch,
\* from an empty store and from branches that were merged into each other.
SPECIFICATION FairSpec
CONSTANTS
  f1 = f1  f2 = f2  main = main  dev = dev  tmp = tmp  v1 = v1  v2 = v2
  sMain1 = sMain1  sMain2 = sMain2  sDev = sDev  sTmp = sTmp
  None = None  Absent = Absent
  Fibers = {f1, f2}
  Branches = {main, dev}
  Detached = {tmp}
  Stores = {sMain1, sMain2, sDev, sTmp}
  Values = {v1, v2}
  Requests <- MCRequests
  Pasts <- MCPasts
  Retries = 1
  SameInfo = FALSE
  MaxCalls = 3
CHECK_DEADLOCK FALSE
INVARIANTS
  RetriesHonest
  HistoryOK
PROPERTIES
  NoOrphan
  AnswersHonest
  MergeKeepsBoth
  EndsOrLoses
