---------------------------- MODULE MCLowerLayer ----------------------------
(* Small stores with a lower layer. *)
EXTENDS LowerLayer, TLC

\* Four commits, the third a fork from the first, and objects that they share.
MCCommits == {2, 4, 6, 8}
MCUses == (2 :> {1}) @@ (4 :> {3}) @@ (6 :> {1, 5}) @@ (8 :> {5, 7})
MCParent == (2 :> 0) @@ (4 :> 2) @@ (6 :> 2) @@ (8 :> 6)
MCMigrations == {0, 2, 4}

\* The commits are as the proofs assume.
ASSUME MCAssumption == TreesGrow /\ ObjectsAdded
=============================================================================
