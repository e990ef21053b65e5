---------------------------- MODULE CollectedLog ----------------------------
(***************************************************************************)
(* What the chunks, prefixes and control file of an irmin-pack store        *)
(* promise together: each offset is given to one entry, publishing adds     *)
(* entries at the next offsets, a garbage collection on a commit forgets    *)
(* entries older than that commit that it does not reach, and nothing else  *)
(* is ever forgotten, moved or changed.                                     *)
(***************************************************************************)
EXTENDS Integers

CONSTANT Needs  \* the offsets reachable from the entry at each offset

VARIABLES
  store,    \* the readable entries, by offset
  end       \* the next offset to be published

vars == <<store, end>>

Init == store = << >> /\ end = 0

(* The writer publishes the entries at the next offsets. *)
Publish ==
  /\ end' \in Nat /\ end' > end
  /\ DOMAIN store' = DOMAIN store \cup end..end' - 1
  /\ \A o \in DOMAIN store : store'[o] = store[o]

(* A collection on the commit at offset c. *)
Collect ==
  /\ UNCHANGED end
  /\ DOMAIN store' # DOMAIN store
  /\ \E c \in DOMAIN store :
       store' = [o \in {p \in DOMAIN store : p > c \/ p \in Needs[c]} |-> store[o]]

Next == Publish \/ Collect

Spec == Init /\ [][Next]_vars
=============================================================================
