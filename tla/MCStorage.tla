----------------------------- MODULE MCStorage -----------------------------
EXTENDS Storage

CONSTANTS f1, f2, f3, main, dev, c1, c2

\* A removal, two test_and_sets that cannot both win, and a call for another
\* branch.
MCRequests ==
  {[op |-> "set", key |-> main, head |-> None],
   [op |-> "test_and_set", key |-> main, test |-> None, head |-> c1],
   [op |-> "test_and_set", key |-> main, test |-> None, head |-> c2],
   [op |-> "set", key |-> dev, head |-> c1]}
=============================================================================
