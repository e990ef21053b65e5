---------------------------- MODULE MCStoreHead ----------------------------
EXTENDS StoreHead

CONSTANTS f1, f2, main, dev, tmp, sMain1, sMain2, sDev, sTmp, v1, v2

Commit(parents, tree, info) == [parents |-> parents, tree |-> tree, info |-> info]
Heads(m, d, t) == (main :> m) @@ (dev :> d) @@ (tmp :> t)

\* An empty store; and two branches that were merged into each other twice over,
\* with commits 4 and 5 that have the lowest common ancestors 2 and 3;
\* and a branch ahead of the other, with a merge of one that left before it.
MCPasts ==
  {[history |-> << >>, head |-> Heads(NoCommit, NoCommit, NoCommit)],
   [history |-> <<Commit({}, v1, 0), Commit({1}, v2, 0), Commit({1}, v1, 0),
                  Commit({2, 3}, v2, 0), Commit({2, 3}, v2, 1)>>,
    head |-> Heads(4, 5, 3)],
   [history |-> <<Commit({}, v1, 0), Commit({1}, v2, 0), Commit({1}, v1, 1),
                  Commit({2}, Absent, 0), Commit({3, 4}, Absent, 0)>>,
    head |-> Heads(5, 2, NoCommit)]}

\* Two branches with the lowest common ancestors 3 and 5, made with Commit.v.  Commit 4 is
\* a parent of 5 and is reached from both branches beside it, too.  Both 3 and 5 have
\* nothing, 4 has v2, and so has one of the branches.
MCPastsCrossed ==
  {[history |-> <<Commit({}, Absent, 0), Commit({1}, v1, 0), Commit({2}, Absent, 0),
                  Commit({1}, v2, 0), Commit({2, 4}, Absent, 0), Commit({3, 5}, Absent, 0),
                  Commit({3, 5}, Absent, 4), Commit({2, 4}, Absent, 4), Commit({4}, v2, 0),
                  Commit({7, 9}, v2, 0), Commit({6, 8}, Absent, 0)>>,
    head |-> Heads(10, 11, NoCommit)]}

MCRequests ==
  {[op |-> "set", store |-> sMain1, ref |-> main, tree |-> v1, empty |-> FALSE, info |-> 0],
   [op |-> "set", store |-> sMain2, ref |-> main, tree |-> v2, empty |-> FALSE, info |-> 1],
   [op |-> "set", store |-> sDev, ref |-> dev, tree |-> Absent, empty |-> TRUE, info |-> 0],
   [op |-> "set", store |-> sTmp, ref |-> tmp, tree |-> v2, empty |-> FALSE, info |-> 1],
   [op |-> "test_and_set", store |-> sMain1, ref |-> main, test |-> v2, tree |-> Absent,
    empty |-> FALSE, info |-> 1],
   [op |-> "merge_tree", store |-> sMain1, ref |-> main, test |-> v1, tree |-> v2,
    empty |-> FALSE, info |-> 0],
   [op |-> "merge", store |-> sMain1, ref |-> main, from |-> dev, info |-> 2],
   [op |-> "merge", store |-> sMain2, ref |-> main, from |-> dev, info |-> 4],
   [op |-> "merge", store |-> sDev, ref |-> dev, from |-> main, info |-> 1],
   [op |-> "merge", store |-> sTmp, ref |-> tmp, from |-> main, info |-> 3],
   [op |-> "fast_forward", store |-> sDev, ref |-> dev, from |-> main, info |-> 0],
   [op |-> "fast_forward", store |-> sTmp, ref |-> tmp, from |-> dev, info |-> 0],
   [op |-> "force", store |-> sDev, ref |-> dev, from |-> main, info |-> 0],
   [op |-> "force", store |-> sTmp, ref |-> tmp, from |-> main, info |-> 0]}
=============================================================================
