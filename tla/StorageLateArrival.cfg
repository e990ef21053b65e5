\* Three fibers that call at any time.
SPECIFICATION Spec
CONSTANTS
  f1 = f1  f2 = f2  f3 = f3  main = main  dev = dev  c1 = c1  c2 = c2
  None = None
  Keys = {main, dev}
  Values = {c1, c2}
  Fibers = {f1, f2, f3}
  Mutexes = {1, 2, 3, 4, 5}
  Requests <- MCRequests
  Allowed = {"lateArrival"}
INVARIANTS
  MutualExclusion
