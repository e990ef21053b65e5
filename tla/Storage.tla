------------------------------ MODULE Storage ------------------------------
(***************************************************************************)
(* The branch store that irmin/storage.ml builds from any storage of keys   *)
(* and values: set, remove and test_and_set run under the lock of their key *)
(* and notify the watchers before they release it.  A fiber may be          *)
(* suspended in each operation of the storage.                              *)
(***************************************************************************)
EXTENDS Lock

CONSTANTS
  Values,    \* the heads of branches
  None,      \* no head
  Requests,  \* the calls that fibers make
  Allowed    \* which of Situations may happen

Situations ==
  {"lateArrival",   \* a call for a key is made while others have a mutex of it
                    \* that is not in the table any more
   "failure"}       \* an operation of the storage fails

Held == Values \cup {None}
NoRequest == [op |-> "none"]
Calls ==
  [op : {"set"}, key : Keys, head : Held] \cup
  [op : {"test_and_set"}, key : Keys, test : Held, head : Held]

ASSUME StorageAssumption ==
  /\ Requests \subseteq Calls /\ None \notin Values
  /\ Allowed \subseteq Situations

VARIABLES
  storage,   \* the head the storage has for each key, or None
  pc,        \* where each fiber is
  request,   \* the call it makes
  \* history
  answer,    \* what a test_and_set answers, in the state after it is settled
  told,      \* the head that the watchers of each key were last told of
  failed     \* the keys an operation failed for

vars == <<lockVars, storage, pc, request, answer, told, failed>>

\* Where a fiber is in a call.
Inside == {"locking", "finding", "writing", "notifying", "releasing"}

Init ==
  /\ InitLocks
  /\ storage = [k \in Keys |-> None]
  /\ pc = [f \in Fibers |-> "idle"] /\ request = [f \in Fibers |-> NoRequest]
  /\ answer = None /\ told = [k \in Keys |-> None] /\ failed = {}

To(f, l) == pc' = [pc EXCEPT ![f] = l]
NoAnswer == answer' = None
-----------------------------------------------------------------------------
\* Another fiber works on the key, on a mutex that is not in the table.
LateFor(k) ==
  table[k] = NoMutex /\ \E g \in Fibers : pc[g] \in Inside /\ request[g].key = k

\* Mutant of Call: test_and_set looks at the storage before it locks the key.
CallPeeks(f) ==
  /\ pc[f] = "idle"
  /\ \E r \in Requests :
       /\ "lateArrival" \in Allowed \/ ~LateFor(r.key)
       /\ request' = [request EXCEPT ![f] =
            IF r.op = "test_and_set" /\ storage[r.key] = r.test
            THEN [op |-> "set", key |-> r.key, head |-> r.head] ELSE r]
       /\ Asked(f, r.key)
       /\ answer' = IF r.op = "test_and_set" /\ storage[r.key] = r.test
                    THEN [key |-> r.key, test |-> r.test, set |-> r.head, ok |-> TRUE]
                    ELSE None
  /\ To(f, "locking")
  /\ UNCHANGED <<storage, told, failed>>

\* set, remove (a set of None) and test_and_set ask for the lock of the key.
Call(f) ==
  /\ pc[f] = "idle"
  /\ \E r \in Requests :
       /\ "lateArrival" \in Allowed \/ ~LateFor(r.key)
       /\ request' = [request EXCEPT ![f] = r]
       /\ Asked(f, r.key)
  /\ To(f, "locking")
  /\ NoAnswer
  /\ UNCHANGED <<storage, told, failed>>

Enter(f) ==
  /\ pc[f] = "locking" /\ Holds(f)
  /\ To(f, IF request[f].op = "test_and_set" THEN "finding" ELSE "writing")
  /\ NoAnswer
  /\ UNCHANGED <<lockVars, storage, request, told, failed>>

\* S.find, for test_and_set.
Find(f) ==
  LET r == request[f]
      same == storage[r.key] = r.test
  IN /\ pc[f] = "finding"
     /\ To(f, IF same THEN "writing" ELSE "releasing")
     /\ answer' = IF same THEN None
                  ELSE [key |-> r.key, test |-> r.test, set |-> r.head, ok |-> FALSE]
     /\ UNCHANGED <<lockVars, storage, request, told, failed>>

\* S.set and S.remove.
Write(f) ==
  LET r == request[f]
  IN /\ pc[f] = "writing"
     /\ storage' = [storage EXCEPT ![r.key] = r.head]
     /\ answer' = IF r.op = "test_and_set"
                  THEN [key |-> r.key, test |-> r.test, set |-> r.head, ok |-> TRUE]
                  ELSE None
     /\ To(f, "notifying")
     /\ UNCHANGED <<lockVars, request, told, failed>>

Return(f) == To(f, "idle") /\ request' = [request EXCEPT ![f] = NoRequest]

\* The operation of the storage fails: the mutex is unlocked, and the exception
\* skips unlock.
Fail(f) ==
  /\ "failure" \in Allowed
  /\ pc[f] \in {"finding", "writing"}
  /\ HandedOver(f)
  /\ Return(f)
  /\ failed' = failed \cup {request[f].key}
  /\ NoAnswer
  /\ UNCHANGED <<storage, told>>

\* Mutant of Notify: the mutex is released before the watchers are told.
NotifyAfterRelease(f) ==
  \/ /\ pc[f] = "notifying" /\ lock[f] # NoMutex
     /\ Released(f, request[f].key)
     /\ NoAnswer
     /\ UNCHANGED <<storage, pc, request, told, failed>>
  \/ /\ pc[f] = "notifying" /\ lock[f] = NoMutex
     /\ told' = [told EXCEPT ![request[f].key] = request[f].head]
     /\ Return(f)
     /\ NoAnswer
     /\ UNCHANGED <<lockVars, storage, failed>>

\* The watchers are told, the key is unlocked and the call returns: no fiber can
\* be suspended in between.
Notify(f) ==
  /\ pc[f] = "notifying"
  /\ told' = [told EXCEPT ![request[f].key] = request[f].head]
  /\ Released(f, request[f].key)
  /\ Return(f)
  /\ NoAnswer
  /\ UNCHANGED <<storage, failed>>

\* The test failed.
Release(f) ==
  /\ pc[f] = "releasing"
  /\ Released(f, request[f].key)
  /\ Return(f)
  /\ NoAnswer
  /\ UNCHANGED <<storage, told, failed>>

\* What a fiber does in a call.
Step(f) == Enter(f) \/ Find(f) \/ Write(f) \/ Fail(f) \/ Notify(f) \/ Release(f)

Next == \E f \in Fibers : Call(f) \/ Step(f)

Spec == Init /\ [][Next]_vars

\* A fiber that can go on does: the operations of the storage return.
FairSpec == Spec /\ \A f \in Fibers : WF_vars(Step(f))
-----------------------------------------------------------------------------
(* Properties. *)

\* Every variable has its type, and a fiber has a mutex just when it is in a call.
TypeOK ==
  /\ table \in [Keys -> Mutexes \cup {NoMutex}]
  /\ queue \in [Mutexes -> Seq(Fibers)]
  /\ lock \in [Fibers -> Mutexes \cup {NoMutex}]
  /\ storage \in [Keys -> Held] /\ told \in [Keys -> Held]
  /\ pc \in [Fibers -> Inside \cup {"idle"}]
  /\ request \in [Fibers -> Calls \cup {NoRequest}]
  /\ \A f \in Fibers : /\ request[f] = NoRequest <=> pc[f] = "idle"
                       /\ lock[f] = NoMutex <=> pc[f] = "idle"
  /\ failed \subseteq Keys

\* Fibers that run under the lock of a key.
Critical == {f \in Fibers : pc[f] \in Inside \ {"locking"}}

\* "with_lock t k f executes f () while holding the exclusive lock associated to
\* the key k" (lock.mli): two fibers never run under the lock of the same key.
MutualExclusion ==
  \A f, g \in Critical : request[f].key = request[g].key => f = g

\* The store is an atomic map: test_and_set answers for, and changes, the head
\* that the key has when it writes (atomic_write_intf.ml test_and_set: "The
\* operation is guaranteed to be atomic").
Map == INSTANCE BranchMap WITH branch <- storage
MapSpec == Map!Spec

\* The watchers of a key are told of its heads in the order they were written:
\* when no write of the key is to be told, they know the head it has.
ToldInOrder ==
  \A k \in Keys :
    (\A f \in Fibers : ~(pc[f] = "notifying" /\ request[f].key = k))
      => told[k] = storage[k]

\* The table keeps no key that nobody uses, but those an operation failed for
\* (lock.ml stats).
TableDrained ==
  \A k \in Keys \ failed :
    (\A f \in Fibers : request[f] # NoRequest => request[f].key # k)
      => table[k] = NoMutex

\* A mutex is in the table or with the fibers that use it, never left behind.
TableOK == TypeOK /\ TableDrained

\* Every call returns, however often the other fibers call.
CallsReturn == \A f \in Fibers : pc[f] # "idle" ~> pc[f] = "idle"
=============================================================================
