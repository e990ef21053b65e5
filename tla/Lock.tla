-------------------------------- MODULE Lock --------------------------------
(***************************************************************************)
(* The lock manager of irmin/lock.ml: a table with a mutex for each key in  *)
(* use.  A mutex is the queue of the fibers that asked for it, its holder   *)
(* first: unlocking it hands it over to the next.  The global lock protects *)
(* what no fiber can be suspended in.                                       *)
(***************************************************************************)
EXTENDS Integers, Sequences

CONSTANTS
  Keys,      \* the keys to be locked
  Fibers,    \* the fibers that lock them
  Mutexes    \* the mutexes there may be, numbered

ASSUME LockAssumption == Mutexes \subseteq Nat \ {0}

NoMutex == 0

VARIABLES
  table,     \* KHashtbl locks: the mutex of each key, or NoMutex
  queue,     \* the fibers that hold and wait for each mutex
  lock       \* the mutex each fiber holds or waits for

lockVars == <<table, queue, lock>>

InitLocks ==
  /\ table = [k \in Keys |-> NoMutex]
  /\ queue = [m \in Mutexes |-> << >>]
  /\ lock = [f \in Fibers |-> NoMutex]

\* A mutex that the program has no reference to.
Unused(m) == (\A k \in Keys : table[k] # m) /\ \A f \in Fibers : lock[f] # m

Queued(f, m) ==
  /\ queue' = [queue EXCEPT ![m] = Append(@, f)]
  /\ lock' = [lock EXCEPT ![f] = m]

\* lock, then Lwt_mutex.lock: the mutex of the table, or a new one.
Asked(f, k) ==
  \/ /\ table[k] # NoMutex
     /\ Queued(f, table[k])
     /\ UNCHANGED table
  \/ /\ table[k] = NoMutex
     /\ \E m \in Mutexes :
          /\ Unused(m) /\ \A n \in Mutexes : Unused(n) => m <= n
          /\ Queued(f, m)
          /\ table' = [table EXCEPT ![k] = m]

\* Mutant of Holds: with_lock does not wait for its turn.
HoldsAtOnce(f) == lock[f] # NoMutex

Holds(f) == lock[f] # NoMutex /\ queue[lock[f]] # << >> /\ Head(queue[lock[f]]) = f

\* Lwt_mutex.unlock alone, when the function raised: the key stays in the table.
HandedOver(f) ==
  /\ queue' = [queue EXCEPT ![lock[f]] = Tail(@)]
  /\ lock' = [lock EXCEPT ![f] = NoMutex]
  /\ UNCHANGED table

\* Mutants of Released: no waiter is woken; the key leaves the table only
\* when nobody holds the mutex that the fiber is about to unlock.
ReleasedToNone(f, k) ==
  /\ queue' = [queue EXCEPT ![lock[f]] = << >>]
  /\ lock' = [lock EXCEPT ![f] = NoMutex]
  /\ table' = [table EXCEPT ![k] = NoMutex]

ReleasedKept(f, k) ==
  /\ queue' = [queue EXCEPT ![lock[f]] = Tail(@)]
  /\ lock' = [lock EXCEPT ![f] = NoMutex]
  /\ table' = IF table[k] # NoMutex /\ queue[table[k]] = << >>
              THEN [table EXCEPT ![k] = NoMutex] ELSE table

\* Lwt_mutex.unlock, then unlock: the key leaves the table when nobody waits for
\* the mutex that the table has for it, although a fiber may hold it.
Released(f, k) ==
  /\ queue' = [queue EXCEPT ![lock[f]] = Tail(@)]
  /\ lock' = [lock EXCEPT ![f] = NoMutex]
  /\ table' = IF table[k] # NoMutex /\ Len(queue'[table[k]]) <= 1
              THEN [table EXCEPT ![k] = NoMutex] ELSE table
=============================================================================
