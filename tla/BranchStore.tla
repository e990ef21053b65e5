---------------------------- MODULE BranchStore ----------------------------
(***************************************************************************)
(* The branch store of irmin-pack (irmin-pack/unix/atomic_write.ml): a file *)
(* of fixed-size records that the read-write process overwrites in place,   *)
(* the tables it keeps of them, the tables of a read-only process that      *)
(* reads the records appended since it last looked, and the watchers of the *)
(* read-write process.                                                      *)
(*                                                                         *)
(* No operation can be suspended half-way, so each is one step.  A record   *)
(* is written by one write; a partial one is not modelled.  All the stores  *)
(* of a process share one watch manager.                                    *)
(***************************************************************************)
EXTENDS Watch

CONSTANTS
  Stores,      \* the stores that the process opens
  Allowed,     \* which of Situations the application meets
  MaxEvents    \* bound: stores opened, changes, registrations and deaths

Situations ==
  {"blindInit",      \* a watcher is registered without the current heads
   "staleUnwatch"}   \* a handle is given back once more, or after a close

ASSUME BranchStoreAssumption ==
  /\ Allowed \subseteq Situations
  /\ MaxEvents \in Nat

VARIABLES
  file,        \* the records of each store: a key and its head, None if removed
  rw,          \* the store in the read-write process: open, cache, index
  ro,          \* the store in the read-only process, with its block_size
  storeOf,     \* the store each watcher was registered with
  answer,      \* history: what a test_and_set answers, in the state after it
  held,        \* history: the heads each key had in the file
  events       \* how many of what MaxEvents bounds

storeVars == <<file, rw, ro>>
vars == <<storeVars, watchVars, storeOf, answer, held, events>>

NoAnswer == answer' = None
Counted == events < MaxEvents /\ events' = events + 1

Nothing == [k \in Keys |-> None]
Nowhere == [k \in Keys |-> 0]
Records == [key : Keys, head : Held]
Tables == [open : BOOLEAN, cache : Heads, index : [Keys -> Nat]]
Closed == [open |-> FALSE, cache |-> Nothing, index |-> Nowhere]
RoClosed == [open |-> FALSE, cache |-> Nothing, index |-> Nowhere, size |-> 0]

\* The place of the record of k among the records after the first n, or 0.
PlaceAfter(f, n, k) ==
  LET places == {i \in n + 1..Len(f) : f[i].key = k}
  IN IF places = {} THEN 0 ELSE CHOOSE i \in places : \A j \in places : j <= i

\* Mutant of RefilledIndex: a removed key has no place.
RefilledIndexLive(f, n, index) ==
  [k \in Keys |-> LET p == PlaceAfter(f, n, k)
                  IN IF p = 0 \/ f[p].head = None THEN index[k] ELSE p]

\* refill from the n-th record on.  A removed key keeps its place.
RefilledIndex(f, n, index) ==
  [k \in Keys |-> LET p == PlaceAfter(f, n, k) IN IF p = 0 THEN index[k] ELSE p]

RefilledCache(f, n, cache) ==
  [k \in Keys |-> LET p == PlaceAfter(f, n, k)
                  IN IF p = 0 \/ f[p].head = None THEN cache[k] ELSE f[p].head]

\* The head that the file gives to a key.
FileHead(s, k) ==
  LET p == PlaceAfter(file[s], 0, k) IN IF p = 0 THEN None ELSE file[s][p].head

Init ==
  /\ file = [s \in Stores |-> << >>]
  /\ rw = [s \in Stores |-> Closed] /\ ro = [s \in Stores |-> RoClosed]
  /\ NoWatch /\ storeOf = << >>
  /\ answer = None
  /\ held = [s \in Stores |-> [k \in Keys |-> {None}]]
  /\ events = 0
-----------------------------------------------------------------------------
(* The read-write process. *)

Open(s) ==
  /\ ~rw[s].open /\ Counted
  /\ rw' = [rw EXCEPT ![s] = [open |-> TRUE,
                              cache |-> RefilledCache(file[s], 0, Nothing),
                              index |-> RefilledIndex(file[s], 0, Nowhere)]]
  /\ NoAnswer
  /\ UNCHANGED <<file, ro, watchVars, storeOf, held>>

\* unsafe_set: in place, or at the end of the file.
Written(s, k, v) ==
  LET p == rw[s].index[k]
  IN IF p # 0
     THEN /\ file' = [file EXCEPT ![s][p] = [key |-> k, head |-> v]]
          /\ rw' = [rw EXCEPT ![s].cache[k] = v]
     ELSE /\ file' = [file EXCEPT ![s] = Append(@, [key |-> k, head |-> v])]
          /\ rw' = [rw EXCEPT ![s].cache[k] = v, ![s].index[k] = Len(file[s]) + 1]

\* unsafe_remove: V.null takes the place of the head, the index keeps it.
Erased(s, k) ==
  LET p == rw[s].index[k]
  IN /\ rw' = [rw EXCEPT ![s].cache[k] = None]
     /\ file' = IF p = 0 THEN file ELSE [file EXCEPT ![s][p] = [key |-> k, head |-> None]]

\* The head of k becomes v, or k is removed, and the watchers are notified.
Changed(s, k, v) ==
  /\ IF v = None THEN Erased(s, k) ELSE Written(s, k, v)
  /\ Notify(k, v)
  /\ held' = [held EXCEPT ![s][k] = @ \cup {v}]

\* set and remove.
Set(s, k, v) ==
  /\ rw[s].open /\ Counted
  /\ Changed(s, k, v)
  /\ NoAnswer
  /\ UNCHANGED <<ro, storeOf>>

\* Mutant of TestAndSet: the change is made whatever the key holds.
TestAndSetBlind(s, k, t, v) ==
  /\ rw[s].open /\ Counted
  /\ answer' = [key |-> <<s, k>>, test |-> t, set |-> v, ok |-> rw[s].cache[k] = t]
  /\ Changed(s, k, v)
  /\ UNCHANGED <<ro, storeOf>>

TestAndSet(s, k, t, v) ==
  /\ rw[s].open /\ Counted
  /\ answer' = [key |-> <<s, k>>, test |-> t, set |-> v, ok |-> rw[s].cache[k] = t]
  /\ IF rw[s].cache[k] = t THEN Changed(s, k, v)
     ELSE UNCHANGED <<file, rw, watchVars, held>>
  /\ UNCHANGED <<ro, storeOf>>

\* close drops the watchers of every store.
Close(s) ==
  /\ rw[s].open
  /\ rw' = [rw EXCEPT ![s] = Closed]
  /\ Cleared({r \in Registrations : storeOf[r] = s})
  /\ NoAnswer
  /\ UNCHANGED <<file, ro, storeOf, held, events>>

\* The process dies; what it wrote is in the file.
Die ==
  /\ Counted
  /\ rw' = [s \in Stores |-> Closed]
  /\ WatchGone /\ storeOf' = << >>
  /\ NoAnswer
  /\ UNCHANGED <<file, ro, held>>
-----------------------------------------------------------------------------
(* Its watchers. *)

\* A callback for the keys in ks, or for every key, from the heads it is given.
WatchHeads(s, ks, glob) ==
  /\ rw[s].open /\ Counted
  /\ \E init \in {[k \in Keys |-> IF k \in ks THEN rw[s].cache[k] ELSE None]} \cup
                   (IF "blindInit" \in Allowed THEN {Nothing} ELSE {}) :
       Registered(ks, glob, init)
  /\ storeOf' = Append(storeOf, s)
  /\ NoAnswer
  /\ UNCHANGED <<storeVars, held>>

Unwatch(r) ==
  /\ rw[storeOf[r]].open
  /\ ~given[r] \/ "staleUnwatch" \in Allowed
  /\ Unwatched(r)
  /\ NoAnswer
  /\ UNCHANGED <<storeVars, storeOf, held, events>>

Run == Deliver /\ NoAnswer /\ UNCHANGED <<storeVars, storeOf, held, events>>
-----------------------------------------------------------------------------
(* The read-only process. *)

RoOpen(s) ==
  /\ ~ro[s].open /\ Counted
  /\ ro' = [ro EXCEPT ![s] = [open |-> TRUE,
                              cache |-> RefilledCache(file[s], 0, Nothing),
                              index |-> RefilledIndex(file[s], 0, Nowhere),
                              size |-> Len(file[s])]]
  /\ NoAnswer
  /\ UNCHANGED <<file, rw, watchVars, storeOf, held>>

\* find syncs first: the records after block_size are read.
RoFind(s) ==
  /\ ro[s].open /\ ro[s].size # Len(file[s])
  /\ ro' = [ro EXCEPT ![s].cache = RefilledCache(file[s], ro[s].size, @),
                      ![s].index = RefilledIndex(file[s], ro[s].size, @),
                      ![s].size = Len(file[s])]
  /\ NoAnswer
  /\ UNCHANGED <<file, rw, watchVars, storeOf, held, events>>

RoClose(s) ==
  /\ ro[s].open
  /\ ro' = [ro EXCEPT ![s] = RoClosed]
  /\ NoAnswer
  /\ UNCHANGED <<file, rw, watchVars, storeOf, held, events>>
-----------------------------------------------------------------------------
Next ==
  \/ \E s \in Stores : Open(s) \/ Close(s) \/ RoOpen(s) \/ RoFind(s) \/ RoClose(s)
  \/ \E s \in Stores, k \in Keys, v \in Held :
       Set(s, k, v) \/ \E t \in Held : TestAndSet(s, k, t, v)
  \/ Die
  \/ \E s \in Stores : WatchHeads(s, Keys, TRUE)
  \/ \E s \in Stores, k \in Keys : WatchHeads(s, {k}, FALSE)
  \/ \E r \in Registrations : Unwatch(r)
  \/ Run

Spec == Init /\ [][Next]_vars

\* The streams are served and callbacks return.
FairSpec == Spec /\ WF_vars(Run)
-----------------------------------------------------------------------------
(* Properties. *)

\* Every variable has its type: the records, the tables of both processes, the
\* watchers and the calls queued for them.
TypeOK ==
  /\ file \in [Stores -> Seq(Records)]
  /\ rw \in [Stores -> Tables]
  /\ ro \in [Stores -> [open : BOOLEAN, cache : Heads, index : [Keys -> Nat], size : Nat]]
  /\ DOMAIN watchers \subseteq 0..next - 1
  /\ \A i \in DOMAIN watchers : watchers[i] \in Watchers
  /\ next \in 0..MaxWatches /\ pushes \in BOOLEAN /\ (pushes => streams # << >>)
  /\ \A i \in 1..Len(streams) : /\ streams[i].running \subseteq Calls
                               /\ streams[i].jobs \in Seq(SUBSET Calls)
  /\ Len(handle) <= MaxWatches
  /\ storeOf \in [Registrations -> Stores] /\ given \in [Registrations -> BOOLEAN]
  /\ promised \in [Registrations -> Heads] /\ seen \in [Registrations -> Heads]
  /\ held \in [Stores -> [Keys -> SUBSET Held]]

\* A file has one record for a key, for ever: refill adds each record that it
\* reads to a hash table, where a second record of a key would shadow the first
\* (atomic_write.ml refill, unsafe_set, unsafe_remove).
OneRecordPerKey ==
  \A s \in Stores : \A i, j \in 1..Len(file[s]) :
    file[s][i].key = file[s][j].key => i = j

\* The tables of the process that writes say what the file says: what find
\* answers survives a death and a restart, and the next write of a key finds its
\* place (atomic_write.ml v, refill, unsafe_set, unsafe_remove).
FileMatchesTable ==
  \A s \in Stores : rw[s].open =>
    \A k \in Keys : /\ rw[s].cache[k] = FileHead(s, k)
                   /\ rw[s].index[k] = PlaceAfter(file[s], 0, k)

\* A reader knows the place of each key that had a record when it last looked
\* and of no other, and a head that it gives is one that the key had
\* (atomic_write.ml sync_offset, unsafe_find).
ReaderTables ==
  \A s \in Stores : ro[s].open =>
    /\ ro[s].size <= Len(file[s])
    /\ \A k \in Keys :
         /\ ro[s].index[k] = PlaceAfter(SubSeq(file[s], 1, ro[s].size), 0, k)
         /\ ro[s].cache[k] \in held[s][k]

\* Any sequence of changes, removals, closes and deaths leaves one record for a
\* key, and tables of both processes that agree with it.
FileAndTables == TypeOK /\ OneRecordPerKey /\ FileMatchesTable /\ ReaderTables

\* A watcher's record of each head it watches is the head that its store has:
\* the next diff starts from the truth, and a change that brings a head back to
\* what the watcher knows is none for it (watch.ml notify, atomic_write.ml set,
\* remove, test_and_set).
KnownIsCurrent ==
  \A i \in DOMAIN watchers : \A k \in watchers[i].keys :
    watchers[i].known[k] = rw[storeOf[watchers[i].reg]].cache[k]

\* A registration is in the table of watchers until its own handle is given back or
\* its store is closed, and not after: later changes queue calls for it just as long.
\* Calls that are queued by then are still made (watch.ml watch, unwatch, clear).
ServedUntilGiven ==
  \A r \in Registrations :
    given[r] <=> \A i \in DOMAIN watchers : watchers[i].reg # r

\* The calls of the job under way in stream i, if j is 0, or of its j-th job.
JobAt(i, j) == IF j = 0 THEN streams[i].running ELSE streams[i].jobs[j]

\* The calls left to make or to end, each with its stream and its job there.
CallsLeft ==
  UNION {UNION {{[stream |-> i, job |-> j, call |-> c] : c \in JobAt(i, j)} :
                  j \in 0..Len(streams[i].jobs)} : i \in 1..Len(streams)}

Before(x, y) ==
  \/ x.stream < y.stream
  \/ x.stream = y.stream /\ x.job < y.job

\* The calls x and y are of one registration and about one key.
Alike(x, y) == x.call.reg = y.call.reg /\ x.call.key = y.call.key

\* The diffs a callback is given about a key follow each other: the first starts
\* from what the callback last dealt with, each of the others from the new value
\* of the one before, and the last leads to what the manager has recorded, which
\* for a watcher in use is the head that its store has (watch.ml
\* notify_all_unsafe, notify_key_unsafe, scheduler).
DiffsChain ==
  /\ \A r \in Registrations, k \in Keys :
       (\A x \in CallsLeft : ~(x.call.reg = r /\ x.call.key = k))
         => seen[r][k] = promised[r][k]
  /\ \A x \in CallsLeft :
       LET c == x.call
           like == {y \in CallsLeft : Alike(x, y)}
       IN /\ c.new # c.old
          /\ (\A y \in like : ~Before(y, x)) => c.old = seen[c.reg][c.key]
          /\ (\A y \in like : ~Before(x, y)) => c.new = promised[c.reg][c.key]
          /\ \A y \in like :
               Before(x, y) /\ (\A z \in like : ~(Before(x, z) /\ Before(z, y)))
                 => y.call.old = c.new
  /\ KnownIsCurrent

\* The callback of a registration is never called while an earlier call of it
\* runs, whichever streams hold the calls (store_intf.ml watch: "it will never
\* be called concurrently").
OneCallAtATime ==
  \A i, j \in 1..Len(streams) :
    \A c \in streams[i].running, d \in streams[j].running :
      c.reg = d.reg => i = j /\ c = d

\* The stores are an atomic map: set, remove and test_and_set change the file in
\* one step, test_and_set only when the key holds what it is tested for
\* (atomic_write_intf.ml test_and_set: "The operation is guaranteed to be
\* atomic"), and opening, closing or dying changes nothing.
Map == INSTANCE BranchMap WITH Keys <- Stores \X Keys,
                               branch <- [p \in Stores \X Keys |-> FileHead(p[1], p[2])]
MapSpec == Map!Spec

\* Every diff that was queued for a registration is given to its callback, while its
\* handle is not given back and its store not closed: again and again nothing is owed to
\* those in use, once the changes stop, whichever streams were ended before (watch.ml
\* scheduler, unwatch).  Of the others nothing is said: store_intf.ml has unwatch "return
\* once the [w] is fully disabled", but it returns with calls queued that are made later.
DiffsDelivered ==
  []<>(\A r \in Registrations : given[r] \/ seen[r] = promised[r])
=============================================================================
