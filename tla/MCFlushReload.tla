---------------------------- MODULE MCFlushReload ----------------------------
(* Constants of FlushReload for TLC: c1 and c2 are commits, n1 is a node; c1 *)
(* has a path step of its own. *)
EXTENDS FlushReload

CONSTANTS c1, c2, n1, s1, s2

MCIndexed == Hashes \cap {c1, c2}
MCStrings == {s1, s2}
MCStepOf == [h \in Hashes |-> IF h = c1 THEN s1 ELSE s2]
=============================================================================
