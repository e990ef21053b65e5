---------------------------- MODULE AppendOnlyLog ----------------------------
(***************************************************************************)
(* What the flush and reload protocol of irmin-pack promises to the readers *)
(* of a store, whatever the files, buffers and offsets behind it: the       *)
(* published entries form one log that only ever grows, a reader sees a     *)
(* prefix of it, a prefix it holds never shrinks while it stays open, and   *)
(* what a completed flush acknowledged is never lost.                       *)
(***************************************************************************)
EXTENDS Naturals, Sequences

CONSTANT Entry

VARIABLES
  published,  \* the entries the control file covers, in offset order
  acked,      \* how many of them the last completed flush acknowledged
  seen        \* how many of them the reader can read; 0 when it is closed

vars == <<published, acked, seen>>

TypeOK ==
  /\ published \in Seq(Entry)
  /\ acked \in Nat
  /\ seen \in Nat

Init ==
  /\ published = << >>
  /\ acked = 0
  /\ seen = 0

(* The first n entries of two logs are the same. *)
AgreeUpTo(n, s, t) == \A i \in 1..n : s[i] = t[i]

(* The writer makes more entries readable. *)
Publish ==
  /\ published' \in Seq(Entry)
  /\ Len(published') >= Len(published)
  /\ AgreeUpTo(Len(published), published', published)
  /\ UNCHANGED <<acked, seen>>

(* A flush returns: everything published so far is safe. *)
Acknowledge ==
  /\ acked' = Len(published)
  /\ UNCHANGED <<published, seen>>

(* The reader moves forward to a later prefix. *)
Advance ==
  /\ seen' \in seen..Len(published)
  /\ UNCHANGED <<published, acked>>

(* The reader closes its instance. *)
Leave ==
  /\ seen' = 0
  /\ UNCHANGED <<published, acked>>

(* The machine stops: unacknowledged entries may be lost, readers are gone. *)
Lose ==
  /\ published' \in Seq(Entry)
  /\ Len(published') \in acked..Len(published)
  /\ AgreeUpTo(Len(published'), published', published)
  /\ seen' = 0
  /\ UNCHANGED acked

Next == Publish \/ Acknowledge \/ Advance \/ Leave \/ Lose

Spec == Init /\ [][Next]_vars
=============================================================================
