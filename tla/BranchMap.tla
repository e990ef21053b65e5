----------------------------- MODULE BranchMap -----------------------------
(***************************************************************************)
(* What a store of branches promises: a map from keys to values in which   *)
(* set, remove and test_and_set are atomic, and test_and_set answers        *)
(* whether the key had the value it was tested for.                         *)
(***************************************************************************)
CONSTANTS Keys, Values, None

VARIABLES
  branch,   \* the value of each key, or None
  answer    \* what a test_and_set was asked and what it answers, in the state
            \* after it

vars == <<branch, answer>>

Held == Values \cup {None}
Answer == [key : Keys, test : Held, set : Held, ok : BOOLEAN]

Init == branch = [k \in Keys |-> None] /\ answer = None

Set(k, v) ==
  /\ branch' = [branch EXCEPT ![k] = v]
  /\ answer' = None

TestAndSet(k, t, v) ==
  /\ answer' = [key |-> k, test |-> t, set |-> v, ok |-> branch[k] = t]
  /\ branch' = IF branch[k] = t THEN [branch EXCEPT ![k] = v] ELSE branch

Read == UNCHANGED branch /\ answer' = None

Next ==
  \/ Read
  \/ \E k \in Keys, v \in Held :
       Set(k, v) \/ \E t \in Held : TestAndSet(k, t, v)

Spec == Init /\ [][Next]_vars
=============================================================================
