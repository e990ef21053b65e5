--------------------------- MODULE Storage_proofs ---------------------------
(***************************************************************************)
(* Proofs about Storage: without late arrivals, the lock of a key excludes  *)
(* (whatever fails, whatever is called), and so the store is an atomic map, *)
(* the table is drained and the watchers are told in order.                 *)
(***************************************************************************)
EXTENDS Storage, TLAPS

\* The types that the lemmas need.
Types ==
  /\ table \in [Keys -> Mutexes \cup {NoMutex}]
  /\ queue \in [Mutexes -> Seq(Fibers)]
  /\ lock \in [Fibers -> Mutexes \cup {NoMutex}]
  /\ pc \in [Fibers -> Inside \cup {"idle"}]
  /\ request \in [Fibers -> Calls \cup {NoRequest}]
  /\ storage \in [Keys -> Held]

\* A fiber has a call and a mutex just when it is inside.
InCall ==
  \A f \in Fibers :
    IF pc[f] = "idle" THEN lock[f] = NoMutex
    ELSE lock[f] \in Mutexes /\ request[f] \in Calls

\* The fibers of a queue have its mutex, and stand there once.
Queues ==
  \A m \in Mutexes : \A i, j \in 1..Len(queue[m]) :
    lock[queue[m][i]] = m /\ (queue[m][i] = queue[m][j] => i = j)

\* A fiber that runs is the first of the queue of its mutex.
First ==
  \A f \in Critical : Len(queue[lock[f]]) > 0 /\ queue[lock[f]][1] = f

\* The fibers that work on a key share a mutex, the one of the table if it has one.
SameMutex ==
  \A f \in Fibers : pc[f] # "idle" =>
    /\ table[request[f].key] \in {NoMutex, lock[f]}
    /\ \A g \in Fibers :
         pc[g] # "idle" /\ request[g].key = request[f].key => lock[g] = lock[f]

\* Only a test_and_set looks for the head, and what it has found is still there
\* when it writes.
TestStands ==
  \A f \in Fibers :
    /\ pc[f] = "finding" => request[f].op = "test_and_set"
    /\ pc[f] = "writing" /\ request[f].op = "test_and_set" =>
         storage[request[f].key] = request[f].test

LockInv == Types /\ InCall /\ Queues /\ First /\ SameMutex

LEMMA NoMutexIsNone == NoMutex \notin Mutexes
BY LockAssumption DEF NoMutex

\* A call record has a key and a head.
LEMMA CallFields ==
  ASSUME NEW r \in Calls
  PROVE  /\ r.key \in Keys /\ r.head \in Held
         /\ r.op \in {"set", "test_and_set"}
         /\ r.op = "test_and_set" => r.test \in Held
BY DEF Calls

\* Two fibers that run with the same mutex are one.
LEMMA OneFirst ==
  ASSUME First, NEW f \in Critical, NEW g \in Critical, lock[f] = lock[g]
  PROVE  f = g
BY DEF First

\* The lock excludes: the invariant says more than that.
LEMMA Excludes ==
  ASSUME LockInv
  PROVE  MutualExclusion
<1> SUFFICES ASSUME NEW f \in Critical, NEW g \in Critical,
                    request[f].key = request[g].key
             PROVE  f = g
  BY DEF MutualExclusion
<1>1. f \in Fibers /\ g \in Fibers /\ pc[f] # "idle" /\ pc[g] # "idle"
  BY DEF Critical, Inside
<1>2. lock[f] = lock[g]
  BY <1>1 DEF LockInv, SameMutex
<1> QED BY <1>2, OneFirst DEF LockInv

LEMMA LockInit ==
  ASSUME Init
  PROVE  LockInv
<1> USE DEF Init, InitLocks
<1>1. Types
  BY DEF Types, Held
<1>2. Critical = {}
  BY DEF Critical, Inside
<1> QED BY <1>1, <1>2 DEF LockInv, InCall, Queues, First, SameMutex
-----------------------------------------------------------------------------
(* The steps that change locks. *)

\* An idle fiber stands in no queue.
LEMMA IdleNotQueued ==
  ASSUME LockInv, NEW f \in Fibers, pc[f] = "idle", NEW m \in Mutexes,
         NEW i \in 1..Len(queue[m])
  PROVE  queue[m][i] # f
BY NoMutexIsNone DEF LockInv, InCall, Queues

\* f joins the queue of m, for a call r.
LEMMA JoinsQueue ==
  ASSUME LockInv, NEW f \in Fibers, pc[f] = "idle", NEW m \in Mutexes,
         NEW r \in Calls, Queued(f, m),
         pc' = [pc EXCEPT ![f] = "locking"],
         request' = [request EXCEPT ![f] = r],
         table' \in [Keys -> Mutexes \cup {NoMutex}], storage' = storage
  PROVE  Types' /\ InCall' /\ Queues' /\ First'
<1> DEFINE q == Append(queue[m], f)
<1>1. /\ queue[m] \in Seq(Fibers) /\ q \in Seq(Fibers)
      /\ Len(q) = Len(queue[m]) + 1 /\ q[Len(queue[m]) + 1] = f
      /\ \A i \in 1..Len(queue[m]) : q[i] = queue[m][i]
  BY DEF LockInv, Types
<1>2. /\ queue' = [queue EXCEPT ![m] = q]
      /\ lock' = [lock EXCEPT ![f] = m]
  BY DEF Queued
<1> HIDE DEF q
<1>3. Types'
  BY <1>1, <1>2 DEF LockInv, Types, Inside
<1>4. InCall'
  BY <1>2, NoMutexIsNone DEF LockInv, InCall, Types
<1>5. Queues'
  <2> SUFFICES ASSUME NEW n \in Mutexes, NEW i \in 1..Len(queue'[n]),
                      NEW j \in 1..Len(queue'[n])
               PROVE  /\ lock'[queue'[n][i]] = n
                      /\ queue'[n][i] = queue'[n][j] => i = j
    BY DEF Queues
  <2>1. CASE n # m
    <3>1. queue'[n] = queue[n]
      BY <1>2, <2>1 DEF LockInv, Types
    <3>2. queue[n] \in Seq(Fibers) /\ queue[n][i] # f /\ queue[n][i] \in Fibers
      BY <3>1, IdleNotQueued DEF LockInv, Types
    <3> QED BY <3>1, <3>2, <1>2 DEF LockInv, Queues, Types
  <2>2. CASE n = m
    <3>1. queue'[n] = q
      BY <1>2, <2>2 DEF LockInv, Types
    <3>2. \A x \in 1..Len(queue[m]) : q[x] \in Fibers /\ q[x] # f /\ lock'[q[x]] = m
      BY <1>1, <1>2, IdleNotQueued DEF LockInv, Queues, Types
    <3>3. lock'[f] = m
      BY <1>2 DEF LockInv, Types
    <3>4. ASSUME NEW x \in 1..Len(queue[m]), NEW y \in 1..Len(queue[m]), q[x] = q[y]
          PROVE  x = y
      <4>1. queue[m][x] = queue[m][y]
        BY <1>1, <3>4
      <4> QED BY <4>1 DEF LockInv, Queues
    <3>5. Len(queue[m]) \in Nat
      BY <1>1
    <3>6. \A x \in 1..Len(q) : x \in 1..Len(queue[m]) \/ x = Len(queue[m]) + 1
      BY <1>1, <3>5
    <3> QED BY <1>1, <3>1, <3>2, <3>3, <3>4, <3>6, <2>2
  <2> QED BY <2>1, <2>2
<1>6. First'
  <2> SUFFICES ASSUME NEW g \in Critical'
               PROVE  Len(queue'[lock'[g]]) > 0 /\ queue'[lock'[g]][1] = g
    BY DEF First
  <2>1. g \in Fibers /\ g # f /\ pc[g] \in Inside \ {"locking"}
    BY DEF LockInv, Types, Critical, Inside
  <2>5. g \in Critical /\ lock'[g] = lock[g] /\ lock[g] \in Mutexes
    BY <2>1, <1>2 DEF LockInv, Types, InCall, Critical, Inside
  <2>2. Len(queue[lock[g]]) > 0 /\ queue[lock[g]][1] = g
    BY <2>5 DEF LockInv, First
  <2>3. CASE lock[g] = m
    <3>1. queue'[lock'[g]] = q
      BY <2>5, <2>3, <1>2 DEF LockInv, Types
    <3>2. Len(queue[m]) > 0 /\ queue[m][1] = g /\ Len(queue[m]) \in Nat
      BY <2>2, <2>3, <1>1
    <3>3. 1 \in 1..Len(queue[m])
      BY <3>2
    <3> QED BY <3>1, <3>2, <3>3, <1>1
  <2>4. CASE lock[g] # m
    BY <2>5, <2>2, <2>4, <1>2 DEF LockInv, Types
  <2> QED BY <2>3, <2>4
<1> QED BY <1>3, <1>4, <1>5, <1>6

\* f, the first of the queue of its mutex, leaves it, and its call ends.
LEMMA LeavesQueue ==
  ASSUME LockInv, NEW f \in Critical,
         queue' = [queue EXCEPT ![lock[f]] = Tail(@)],
         lock' = [lock EXCEPT ![f] = NoMutex],
         Return(f),
         table' \in [Keys -> Mutexes \cup {NoMutex}],
         \A k \in Keys : table'[k] \in {NoMutex, table[k]},
         storage' = storage
  PROVE  LockInv'
<1> DEFINE m == lock[f]
           q == Tail(queue[m])
<1>1. f \in Fibers /\ pc[f] # "idle" /\ m \in Mutexes
  BY DEF LockInv, InCall, Critical, Inside
<1>2. /\ queue[m] \in Seq(Fibers) /\ Len(queue[m]) > 0 /\ queue[m][1] = f
  BY <1>1 DEF LockInv, Types, First
<1>3. /\ q \in Seq(Fibers) /\ Len(q) = Len(queue[m]) - 1
      /\ \A i \in 1..Len(q) : q[i] = queue[m][i + 1] /\ i + 1 \in 1..Len(queue[m])
  BY <1>2
<1>4. /\ queue' = [queue EXCEPT ![m] = q]
      /\ lock' = [lock EXCEPT ![f] = NoMutex]
      /\ pc' = [pc EXCEPT ![f] = "idle"]
      /\ request' = [request EXCEPT ![f] = NoRequest]
  BY DEF Return, To
<1> HIDE DEF q
<1>5. Types'
  BY <1>1, <1>3, <1>4 DEF LockInv, Types, Inside
<1>6. InCall'
  BY <1>1, <1>4 DEF LockInv, InCall, Types
<1>7. Queues'
  <2> SUFFICES ASSUME NEW n \in Mutexes, NEW i \in 1..Len(queue'[n]),
                      NEW j \in 1..Len(queue'[n])
               PROVE  /\ lock'[queue'[n][i]] = n
                      /\ queue'[n][i] = queue'[n][j] => i = j
    BY DEF Queues
  <2>1. CASE n # m
    <3>1. queue'[n] = queue[n] /\ queue[n] \in Seq(Fibers)
      BY <1>4, <2>1 DEF LockInv, Types
    <3>2. lock[queue[n][i]] = n /\ (queue[n][i] = queue[n][j] => i = j)
      BY <3>1 DEF LockInv, Queues
    <3>3. queue[n][i] # f /\ queue[n][i] \in Fibers
      BY <3>1, <3>2, <2>1
    <3> QED BY <3>1, <3>2, <3>3, <1>4 DEF LockInv, Types
  <2>2. CASE n = m
    <3>1. queue'[n] = q
      BY <1>1, <1>4, <2>2 DEF LockInv, Types
    <3>2. i \in 1..Len(q) /\ j \in 1..Len(q)
      BY <3>1
    <3>3. q[i] = queue[m][i + 1] /\ q[j] = queue[m][j + 1]
      BY <3>2, <1>3
    <3>4. i + 1 \in 1..Len(queue[m]) /\ j + 1 \in 1..Len(queue[m]) /\ 1 \in 1..Len(queue[m])
      BY <3>2, <1>2, <1>3
    <3>5. lock[q[i]] = m /\ (q[i] = q[j] => i + 1 = j + 1)
      BY <1>1, <3>3, <3>4 DEF LockInv, Queues
    <3>6. queue[m][i + 1] = queue[m][1] => i + 1 = 1
      BY <1>1, <3>4 DEF LockInv, Queues
    <3>7. q[i] # f /\ q[i] \in Fibers
      BY <1>2, <1>3, <3>2, <3>3, <3>6
    <3>8. lock'[q[i]] = m
      BY <3>5, <3>7, <1>4 DEF LockInv, Types
    <3>9. q[i] = q[j] => i = j
      BY <3>2, <3>5
    <3> QED BY <3>1, <3>8, <3>9, <2>2
  <2> QED BY <2>1, <2>2
<1>8. First'
  <2> SUFFICES ASSUME NEW g \in Critical'
               PROVE  Len(queue'[lock'[g]]) > 0 /\ queue'[lock'[g]][1] = g
    BY DEF First
  <2>1. g \in Fibers /\ pc'[g] \in Inside \ {"locking"}
    BY DEF Critical
  <2>2. g # f
    BY <2>1, <1>1, <1>4 DEF LockInv, Types, Inside
  <2>3. g \in Critical /\ lock'[g] = lock[g]
    BY <2>1, <2>2, <1>4 DEF LockInv, Types, Critical
  <2>4. lock[g] # m /\ lock[g] \in Mutexes
    BY <2>2, <2>3, OneFirst DEF LockInv, InCall, Critical, Inside
  <2> QED BY <2>3, <2>4, <1>4 DEF LockInv, Types, First
<1>9. SameMutex'
  <2> SUFFICES ASSUME NEW g \in Fibers, pc'[g] # "idle"
               PROVE  /\ table'[request'[g].key] \in {NoMutex, lock'[g]}
                      /\ \A h \in Fibers :
                           pc'[h] # "idle" /\ request'[h].key = request'[g].key
                             => lock'[h] = lock'[g]
    BY DEF SameMutex
  <2>1. \A h \in Fibers : pc'[h] # "idle" =>
          /\ pc[h] # "idle" /\ lock'[h] = lock[h] /\ request'[h] = request[h]
          /\ request[h].key \in Keys
    BY <1>1, <1>4, CallFields DEF LockInv, Types, InCall
  <2> QED BY <2>1 DEF LockInv, SameMutex
<1> QED BY <1>5, <1>6, <1>7, <1>8, <1>9 DEF LockInv

\* A fiber that stays in its call and keeps its mutex leaves the locks as they are.
LEMMA StaysInCall ==
  ASSUME LockInv, NEW f \in Fibers, pc[f] # "idle",
         f \in Critical \/ Holds(f),
         NEW l \in Inside \ {"locking"}, To(f, l),
         UNCHANGED <<lockVars, request>>, storage' \in [Keys -> Held]
  PROVE  LockInv'
<1> USE DEF To, lockVars
<1>1. Types'
  BY DEF LockInv, Types
<1>2. InCall'
  BY DEF LockInv, InCall, Types, Inside
<1>3. Queues'
  BY DEF LockInv, Queues
<1>4. First'
  <2>1. Len(queue[lock[f]]) > 0 /\ queue[lock[f]][1] = f
    <3>1. lock[f] \in Mutexes /\ queue[lock[f]] \in Seq(Fibers)
      BY DEF LockInv, InCall, Types
    <3>2. CASE Holds(f)
      BY <3>1, <3>2 DEF Holds
    <3>3. CASE f \in Critical
      BY <3>3 DEF LockInv, First
    <3> QED BY <3>2, <3>3
  <2>2. \A g \in Fibers \ {f} : g \in Critical' => g \in Critical
    BY DEF LockInv, Types, Critical
  <2> QED BY <2>1, <2>2 DEF LockInv, First, Critical
<1>5. SameMutex'
  BY DEF LockInv, SameMutex, Types
<1> QED BY <1>1, <1>2, <1>3, <1>4, <1>5 DEF LockInv
-----------------------------------------------------------------------------
(* Every action. *)

LEMMA CallKeeps ==
  ASSUME LockInv, NEW f \in Fibers, Call(f), "lateArrival" \notin Allowed
  PROVE  LockInv'
<1>1. PICK r \in Requests :
        /\ ~LateFor(r.key)
        /\ request' = [request EXCEPT ![f] = r]
        /\ Asked(f, r.key)
  BY DEF Call
<1>2. /\ pc[f] = "idle" /\ pc' = [pc EXCEPT ![f] = "locking"] /\ storage' = storage
      /\ r \in Calls /\ r.key \in Keys
  BY StorageAssumption, CallFields DEF Call, To
<1>3. PICK m \in Mutexes :
        /\ Queued(f, m)
        /\ \/ table[r.key] = m /\ table' = table
           \/ table[r.key] = NoMutex /\ table' = [table EXCEPT ![r.key] = m]
  BY <1>1, <1>2 DEF Asked, LockInv, Types
<1>4. table' \in [Keys -> Mutexes \cup {NoMutex}] /\ table'[r.key] = m
  BY <1>2, <1>3 DEF LockInv, Types
<1>5. Types' /\ InCall' /\ Queues' /\ First'
  BY <1>1, <1>2, <1>3, <1>4, JoinsQueue
<1>6. SameMutex'
  <2>1. lock' = [lock EXCEPT ![f] = m]
    BY <1>3 DEF Queued
  <2>2. lock'[f] = m /\ request'[f] = r
    BY <1>1, <2>1 DEF LockInv, Types
  <2>3. \A g \in Fibers : g # f =>
          pc'[g] = pc[g] /\ lock'[g] = lock[g] /\ request'[g] = request[g]
    BY <1>1, <1>2, <2>1 DEF LockInv, Types
  <2>4. \A g \in Fibers : g # f /\ pc[g] # "idle" /\ request[g].key = r.key
          => lock[g] = m
    <3> SUFFICES ASSUME NEW g \in Fibers, g # f, pc[g] # "idle",
                        request[g].key = r.key
                 PROVE  lock[g] = m
      OBVIOUS
    <3>1. pc[g] \in Inside
      BY DEF LockInv, Types
    <3>2. table[r.key] # NoMutex
      BY <1>1, <3>1 DEF LateFor
    <3> QED BY <1>3, <3>2 DEF LockInv, SameMutex
  <2> SUFFICES ASSUME NEW g \in Fibers, pc'[g] # "idle"
               PROVE  /\ table'[request'[g].key] \in {NoMutex, lock'[g]}
                      /\ \A h \in Fibers :
                           pc'[h] # "idle" /\ request'[h].key = request'[g].key
                             => lock'[h] = lock'[g]
    BY DEF SameMutex
  <2>5. CASE request'[g].key = r.key
    BY <1>4, <2>2, <2>3, <2>4, <2>5
  <2>6. CASE request'[g].key # r.key
    <3>1. g # f
      BY <2>2, <2>6
    <3>2. request[g].key \in Keys /\ request[g].key # r.key /\ pc[g] # "idle"
      BY <2>3, <2>6, <3>1, CallFields DEF LockInv, InCall
    <3>3. table'[request[g].key] = table[request[g].key]
      BY <1>2, <1>3, <3>2 DEF LockInv, Types
    <3> QED BY <2>2, <2>3, <2>6, <3>1, <3>2, <3>3 DEF LockInv, SameMutex
  <2> QED BY <2>5, <2>6
<1> QED BY <1>5, <1>6 DEF LockInv

LEMMA ReleaseKeeps ==
  ASSUME LockInv, NEW f \in Critical, Return(f), storage' = storage,
         HandedOver(f) \/ Released(f, request[f].key)
  PROVE  LockInv'
<1>1. request[f].key \in Keys
  BY CallFields DEF LockInv, InCall, Critical, Inside
<1>2. /\ queue' = [queue EXCEPT ![lock[f]] = Tail(@)]
      /\ lock' = [lock EXCEPT ![f] = NoMutex]
      /\ table' = table \/ table' = [table EXCEPT ![request[f].key] = NoMutex]
  BY DEF HandedOver, Released
<1>3. /\ table' \in [Keys -> Mutexes \cup {NoMutex}]
      /\ \A k \in Keys : table'[k] \in {NoMutex, table[k]}
  BY <1>1, <1>2 DEF LockInv, Types
<1> QED BY <1>2, <1>3, LeavesQueue

LEMMA LockNext ==
  ASSUME LockInv, [Next]_vars, "lateArrival" \notin Allowed
  PROVE  LockInv'
<1>1. CASE UNCHANGED vars
  BY <1>1 DEF vars, lockVars, LockInv, Types, InCall, Queues, First, SameMutex, Critical
<1>2. ASSUME NEW f \in Fibers, Call(f)
      PROVE  LockInv'
  BY <1>2, CallKeeps
<1>3. ASSUME NEW f \in Fibers, Step(f)
      PROVE  LockInv'
  <2>1. CASE Enter(f)
    <3>1. PICK l \in {"finding", "writing"} : To(f, l)
      BY <2>1 DEF Enter
    <3> QED BY <2>1, <3>1, StaysInCall DEF Enter, Inside, LockInv, Types
  <2>2. CASE Find(f)
    <3>1. PICK l \in {"writing", "releasing"} : To(f, l)
      BY <2>2 DEF Find
    <3>2. f \in Critical
      BY <2>2 DEF Find, Critical, Inside
    <3> QED BY <2>2, <3>1, <3>2, StaysInCall DEF Find, Inside, LockInv, Types
  <2>3. CASE Write(f)
    <3>1. request[f] \in Calls /\ f \in Critical
      BY <2>3 DEF Write, Critical, Inside, LockInv, InCall
    <3>2. storage' \in [Keys -> Held]
      BY <2>3, <3>1, CallFields DEF Write, LockInv, Types
    <3> QED BY <2>3, <3>1, <3>2, StaysInCall DEF Write, Inside
  <2>4. CASE Fail(f)
    <3>1. f \in Critical
      BY <2>4 DEF Fail, Critical, Inside
    <3> QED BY <2>4, <3>1, ReleaseKeeps DEF Fail
  <2>5. CASE Notify(f)
    <3>1. f \in Critical
      BY <2>5 DEF Notify, Critical, Inside
    <3> QED BY <2>5, <3>1, ReleaseKeeps DEF Notify
  <2>6. CASE Release(f)
    <3>1. f \in Critical
      BY <2>6 DEF Release, Critical, Inside
    <3> QED BY <2>6, <3>1, ReleaseKeeps DEF Release
  <2> QED BY <1>3, <2>1, <2>2, <2>3, <2>4, <2>5, <2>6 DEF Step
<1> QED BY <1>1, <1>2, <1>3 DEF Next

\* If no call comes while others have a mutex of its key that the table has let
\* go, two fibers never run under the lock of the same key, for any number of
\* fibers, keys and calls and whichever operations fail (lock.ml with_lock).
THEOREM LockExcludes ==
  ASSUME "lateArrival" \notin Allowed
  PROVE  Spec => []MutualExclusion
<1>1. Init => LockInv
  BY LockInit
<1>2. LockInv /\ [Next]_vars => LockInv'
  BY LockNext
<1>3. LockInv => MutualExclusion
  BY Excludes
<1> QED BY <1>1, <1>2, <1>3, PTL DEF Spec
-----------------------------------------------------------------------------
(* The store is an atomic map. *)

LEMMA TestInit ==
  ASSUME Init
  PROVE  TestStands
BY DEF Init, TestStands

LEMMA TestNext ==
  ASSUME LockInv, TestStands, [Next]_vars
  PROVE  TestStands'
<1> DEFINE Stands(g) == /\ pc[g] = "finding" => request[g].op = "test_and_set"
                        /\ pc[g] = "writing" /\ request[g].op = "test_and_set" =>
                             storage[request[g].key] = request[g].test
<1> SUFFICES ASSUME NEW g \in Fibers
             PROVE  Stands(g)'
  BY DEF TestStands
<1>0. Stands(g)
  BY DEF TestStands
<1>1. CASE UNCHANGED vars
  BY <1>0, <1>1 DEF vars
<1>2. ASSUME NEW f \in Fibers, Call(f)
      PROVE  Stands(g)'
  <2>1. PICK r \in Requests : request' = [request EXCEPT ![f] = r]
    BY <1>2 DEF Call
  <2>2. CASE g = f
    BY <1>2, <2>2 DEF Call, To, LockInv, Types
  <2>3. CASE g # f
    BY <1>0, <1>2, <2>1, <2>3 DEF Call, To, LockInv, Types
  <2> QED BY <2>2, <2>3
<1>3. ASSUME NEW f \in Fibers, Enter(f) \/ Find(f)
      PROVE  Stands(g)'
  BY <1>0, <1>3 DEF Enter, Find, To, LockInv, Types
<1>4. ASSUME NEW f \in Fibers, Write(f)
      PROVE  Stands(g)'
  <2>1. CASE g = f
    BY <1>4, <2>1 DEF Write, To, LockInv, Types
  <2>2. CASE g # f /\ pc[g] # "writing"
    BY <1>0, <1>4, <2>2 DEF Write, To, LockInv, Types
  <2>3. CASE g # f /\ pc[g] = "writing"
    <3>1. f \in Critical /\ g \in Critical
      BY <1>4, <2>3 DEF Write, Critical, Inside
    <3>2. request[g].key # request[f].key /\ request[g] \in Calls /\ request[f] \in Calls
      BY <2>3, <3>1, Excludes DEF MutualExclusion, LockInv, InCall, Critical, Inside
    <3>3. storage'[request[g].key] = storage[request[g].key]
      BY <1>4, <3>2, CallFields DEF Write, LockInv, Types
    <3> QED BY <1>0, <1>4, <2>3, <3>3 DEF Write, To, LockInv, Types
  <2> QED BY <2>1, <2>2, <2>3
<1>5. ASSUME NEW f \in Fibers, Fail(f) \/ Notify(f) \/ Release(f)
      PROVE  Stands(g)'
  <2>1. Return(f) /\ storage' = storage
    BY <1>5 DEF Fail, Notify, Release
  <2> QED BY <1>0, <2>1 DEF Return, To, LockInv, Types
<1> QED BY <1>1, <1>2, <1>3, <1>4, <1>5 DEF Next, Step

LEMMA MapNext ==
  ASSUME LockInv, TestStands, [Next]_vars
  PROVE  [Map!Next]_Map!vars
<1> USE DEF Map!vars, Map!Held
<1>1. CASE UNCHANGED vars
  BY <1>1 DEF vars
<1>2. ASSUME storage' = storage, answer' = None
      PROVE  Map!Next
  BY <1>2 DEF Map!Next, Map!Read
<1>3. ASSUME NEW f \in Fibers, Call(f) \/ Enter(f) \/ Fail(f) \/ Notify(f) \/ Release(f)
      PROVE  Map!Next
  BY <1>2, <1>3 DEF Call, Enter, Fail, Notify, Release, NoAnswer
<1>4. ASSUME NEW f \in Fibers, Find(f)
      PROVE  Map!Next
  <2>1. CASE storage[request[f].key] = request[f].test
    BY <1>2, <1>4, <2>1 DEF Find
  <2>2. CASE storage[request[f].key] # request[f].test
    <3> DEFINE r == request[f]
    <3>1. r \in Calls /\ r.op = "test_and_set"
      BY <1>4 DEF Find, LockInv, InCall, TestStands
    <3>2. r.key \in Keys /\ r.head \in Held /\ r.test \in Held
      BY <3>1, CallFields
    <3>3. Map!TestAndSet(r.key, r.test, r.head)
      BY <1>4, <2>2 DEF Find, Map!TestAndSet
    <3> QED BY <3>2, <3>3 DEF Map!Next, Held
  <2> QED BY <2>1, <2>2
<1>5. ASSUME NEW f \in Fibers, Write(f)
      PROVE  Map!Next
  <2> DEFINE r == request[f]
  <2>1. r \in Calls
    BY <1>5 DEF Write, LockInv, InCall
  <2>2. r.key \in Keys /\ r.head \in Held
    BY <2>1, CallFields
  <2>3. CASE r.op = "test_and_set"
    <3>1. r.test \in Held /\ storage[r.key] = r.test
      BY <1>5, <2>1, <2>3, CallFields DEF Write, TestStands
    <3>2. Map!TestAndSet(r.key, r.test, r.head)
      BY <1>5, <2>3, <3>1 DEF Write, Map!TestAndSet
    <3> QED BY <2>2, <3>1, <3>2 DEF Map!Next, Held
  <2>4. CASE r.op # "test_and_set"
    <3>1. Map!Set(r.key, r.head)
      BY <1>5, <2>4 DEF Write, Map!Set
    <3> QED BY <2>2, <3>1 DEF Map!Next, Held
  <2> QED BY <2>3, <2>4
<1> QED BY <1>1, <1>3, <1>4, <1>5 DEF Next, Step

\* Under the same condition the store is an atomic map: a test_and_set answers for
\* the head that the key has when it writes, whatever the other fibers do
\* (atomic_write_intf.ml: "The operation is guaranteed to be atomic").
THEOREM StoreIsMap ==
  ASSUME "lateArrival" \notin Allowed
  PROVE  Spec => MapSpec
<1> DEFINE I == LockInv /\ TestStands
<1>1. Init => I /\ Map!Init
  BY LockInit, TestInit DEF Init, Map!Init
<1>2. I /\ [Next]_vars => I'
  BY LockNext, TestNext
<1>3. I /\ [Next]_vars => [Map!Next]_Map!vars
  BY MapNext
<1> HIDE DEF I
<1> QED BY <1>1, <1>2, <1>3, PTL DEF Spec, MapSpec, Map!Spec
-----------------------------------------------------------------------------
(* The table and the watchers. *)

\* The types of what the locks do not touch.
MoreTypes ==
  /\ told \in [Keys -> Held] /\ failed \subseteq Keys
  /\ \A f \in Fibers : request[f] = NoRequest <=> pc[f] = "idle"

\* Fibers that share a mutex work on one key, the one the table has it for.
OneKey ==
  /\ \A f, g \in Fibers : pc[f] # "idle" /\ lock[f] = lock[g] => request[f].key = request[g].key
  /\ \A f \in Fibers : \A k \in Keys :
       pc[f] # "idle" /\ table[k] = lock[f] => request[f].key = k
  /\ \A j, k \in Keys : table[j] = table[k] /\ table[j] # NoMutex => j = k

\* What the watchers are to be told is the head that was written.
ToTell ==
  \A f \in Fibers : pc[f] = "notifying" => storage[request[f].key] = request[f].head

LEMMA TypesMake ==
  ASSUME LockInv, MoreTypes
  PROVE  TypeOK
BY NoMutexIsNone DEF LockInv, Types, InCall, MoreTypes, TypeOK, Inside

LEMMA NoCall == NoRequest \notin Calls
BY DEF NoRequest, Calls

\* A call ends.
LEMMA ReturnTypes ==
  ASSUME LockInv, MoreTypes, NEW f \in Critical, Return(f), told' \in [Keys -> Held],
         failed' \in {failed, failed \cup {request[f].key}}
  PROVE  MoreTypes'
<1>1. request[f].key \in Keys
  BY CallFields DEF LockInv, InCall, Critical, Inside
<1>2. \A g \in Fibers : request'[g] = NoRequest <=> pc'[g] = "idle"
  BY DEF Return, To, LockInv, Types, MoreTypes
<1> QED BY <1>1, <1>2 DEF MoreTypes

LEMMA MoreTypesNext ==
  ASSUME LockInv, MoreTypes, [Next]_vars
  PROVE  MoreTypes'
<1>1. CASE UNCHANGED vars
  BY <1>1 DEF vars, MoreTypes
<1>2. ASSUME NEW f \in Fibers, Call(f)
      PROVE  MoreTypes'
  <2>1. PICK r \in Requests : request' = [request EXCEPT ![f] = r]
    BY <1>2 DEF Call
  <2>2. r # NoRequest
    BY StorageAssumption, NoCall
  <2> QED BY <1>2, <2>1, <2>2 DEF Call, To, MoreTypes, LockInv, Types
<1>3. ASSUME NEW f \in Fibers, Enter(f) \/ Find(f) \/ Write(f)
      PROVE  MoreTypes'
  <2>1. pc[f] # "idle" /\ UNCHANGED <<request, told, failed>>
    BY <1>3 DEF Enter, Find, Write
  <2>2. PICK l \in {"finding", "writing", "releasing", "notifying"} : To(f, l)
    BY <1>3 DEF Enter, Find, Write
  <2> QED BY <2>1, <2>2 DEF To, MoreTypes, LockInv, Types
<1>4. ASSUME NEW f \in Fibers, Fail(f)
      PROVE  MoreTypes'
  <2>1. f \in Critical
    BY <1>4 DEF Fail, Critical, Inside
  <2> QED BY <1>4, <2>1, ReturnTypes DEF Fail, MoreTypes
<1>5. ASSUME NEW f \in Fibers, Notify(f)
      PROVE  MoreTypes'
  <2>1. f \in Critical
    BY <1>5 DEF Notify, Critical, Inside
  <2>2. request[f].key \in Keys /\ request[f].head \in Held
    BY <2>1, CallFields DEF LockInv, InCall, Critical, Inside
  <2>3. told' \in [Keys -> Held]
    BY <1>5, <2>2 DEF Notify, MoreTypes
  <2> QED BY <1>5, <2>1, <2>3, ReturnTypes DEF Notify
<1>6. ASSUME NEW f \in Fibers, Release(f)
      PROVE  MoreTypes'
  <2>1. f \in Critical
    BY <1>6 DEF Release, Critical, Inside
  <2> QED BY <1>6, <2>1, ReturnTypes DEF Release, MoreTypes
<1> QED BY <1>1, <1>2, <1>3, <1>4, <1>5, <1>6 DEF Next, Step

\* A mutex leaves the table, and its holder too.
LEMMA LetGo ==
  ASSUME LockInv, OneKey, NEW f \in Critical, Return(f),
         HandedOver(f) \/ Released(f, request[f].key)
  PROVE  OneKey'
<1>1. f \in Fibers /\ request[f].key \in Keys
  BY CallFields DEF LockInv, InCall, Critical, Inside
<1>2. /\ lock' = [lock EXCEPT ![f] = NoMutex]
      /\ table' = table \/ table' = [table EXCEPT ![request[f].key] = NoMutex]
  BY DEF HandedOver, Released
<1>3. \A k \in Keys : table'[k] \in {table[k], NoMutex}
  BY <1>1, <1>2 DEF LockInv, Types
<1>4. \A g \in Fibers : pc'[g] # "idle" =>
        /\ g # f /\ pc[g] # "idle" /\ lock'[g] = lock[g] /\ request'[g] = request[g]
        /\ lock[g] # NoMutex
  BY <1>1, <1>2, NoMutexIsNone DEF Return, To, LockInv, Types, InCall
<1>5. \A g \in Fibers : lock'[g] \in {lock[g], NoMutex} /\ (g # f => request'[g] = request[g])
  BY <1>1, <1>2 DEF Return, LockInv, Types
<1>6. lock'[f] = NoMutex
  BY <1>1, <1>2 DEF LockInv, Types
<1>7. \A g, h \in Fibers :
        pc'[g] # "idle" /\ lock'[g] = lock'[h] => request'[g].key = request'[h].key
  BY <1>4, <1>5, <1>6 DEF OneKey
<1>8. \A g \in Fibers : \A k \in Keys :
        pc'[g] # "idle" /\ table'[k] = lock'[g] => request'[g].key = k
  BY <1>3, <1>4 DEF OneKey
<1>9. \A j, k \in Keys : table'[j] = table'[k] /\ table'[j] # NoMutex => j = k
  BY <1>3 DEF OneKey
<1> QED BY <1>7, <1>8, <1>9 DEF OneKey

\* A call asks for the mutex of its key, or for one that nobody has.
LEMMA AsksForOne ==
  ASSUME LockInv, OneKey, NEW f \in Fibers, Call(f)
  PROVE  OneKey'
<1>1. PICK r \in Requests :
        /\ request' = [request EXCEPT ![f] = r]
        /\ Asked(f, r.key)
  BY DEF Call
<1>2. pc[f] = "idle" /\ pc' = [pc EXCEPT ![f] = "locking"] /\ r.key \in Keys
  BY StorageAssumption, CallFields DEF Call, To
<1>3. PICK m \in Mutexes :
        /\ Queued(f, m)
        /\ \/ table[r.key] = m /\ table' = table
           \/ Unused(m) /\ table' = [table EXCEPT ![r.key] = m]
  BY <1>1, <1>2 DEF Asked, LockInv, Types
<1>4. lock'[f] = m /\ request'[f] = r /\ table'[r.key] = m /\ m # NoMutex
  BY <1>1, <1>2, <1>3, NoMutexIsNone DEF LockInv, Types, Queued
<1>5. \A g \in Fibers \ {f} :
        lock'[g] = lock[g] /\ pc'[g] = pc[g] /\ request'[g] = request[g]
        /\ (pc[g] = "idle" => lock[g] = NoMutex)
  BY <1>1, <1>2, <1>3 DEF LockInv, Types, Queued, InCall
<1>6. \A g \in Fibers \ {f} : lock[g] = m => pc[g] # "idle" /\ request[g].key = r.key
  BY <1>2, <1>3, <1>4, <1>5 DEF OneKey, Unused
<1>7. \A k \in Keys \ {r.key} : table'[k] = table[k] /\ table[k] # m
  BY <1>2, <1>3, <1>4 DEF LockInv, Types, OneKey, Unused
<1>8. \A g, h \in Fibers :
        pc'[g] # "idle" /\ lock'[g] = lock'[h] => request'[g].key = request'[h].key
  BY <1>4, <1>5, <1>6 DEF OneKey
<1>9. \A g \in Fibers : \A k \in Keys :
        pc'[g] # "idle" /\ table'[k] = lock'[g] => request'[g].key = k
  BY <1>4, <1>5, <1>6, <1>7 DEF OneKey
<1>10. \A j, k \in Keys : table'[j] = table'[k] /\ table'[j] # NoMutex => j = k
  BY <1>4, <1>7 DEF OneKey
<1> QED BY <1>8, <1>9, <1>10 DEF OneKey

LEMMA OneKeyNext ==
  ASSUME LockInv, OneKey, [Next]_vars
  PROVE  OneKey'
<1>1. CASE UNCHANGED vars
  BY <1>1 DEF vars, lockVars, OneKey
<1>2. ASSUME NEW f \in Fibers, Enter(f) \/ Find(f) \/ Write(f)
      PROVE  OneKey'
  <2>1. pc[f] # "idle" /\ UNCHANGED <<lockVars, request>>
    BY <1>2 DEF Enter, Find, Write
  <2>2. PICK l \in {"finding", "writing", "releasing", "notifying"} : To(f, l)
    BY <1>2 DEF Enter, Find, Write
  <2>3. \A g \in Fibers : pc'[g] # "idle" => pc[g] # "idle"
    BY <2>1, <2>2 DEF To, LockInv, Types
  <2> QED BY <2>1, <2>3 DEF OneKey, lockVars
<1>3. ASSUME NEW f \in Fibers, Fail(f) \/ Notify(f) \/ Release(f)
      PROVE  OneKey'
  <2>1. f \in Critical /\ Return(f) /\ (HandedOver(f) \/ Released(f, request[f].key))
    BY <1>3 DEF Fail, Notify, Release, Critical, Inside
  <2> QED BY <2>1, LetGo
<1> QED BY <1>1, <1>2, <1>3, AsksForOne DEF Next, Step

\* The last call for a key takes the mutex of the key out of the table.
LEMMA LastOut ==
  ASSUME LockInv, OneKey, NEW f \in Critical, Released(f, request[f].key),
         \A g \in Fibers \ {f} : pc[g] # "idle" => request[g].key # request[f].key
  PROVE  table'[request[f].key] = NoMutex
<1> DEFINE k == request[f].key
           m == lock[f]
           q == Tail(queue[m])
<1>1. f \in Fibers /\ pc[f] # "idle" /\ k \in Keys /\ m \in Mutexes
  BY CallFields DEF LockInv, InCall, Critical, Inside
<1>2. CASE table[k] = NoMutex
  BY <1>1, <1>2 DEF Released, LockInv, Types
<1>3. CASE table[k] # NoMutex
  <2>1. table[k] = m
    BY <1>1, <1>3 DEF LockInv, SameMutex
  <2>2. queue[m] \in Seq(Fibers) /\ Len(queue[m]) \in Nat /\ Len(queue[m]) > 0 /\ queue[m][1] = f
    BY <1>1 DEF LockInv, Types, First
  <2>3. ASSUME NEW i \in 1..Len(queue[m])
        PROVE  i = 1
    <3>1. lock[queue[m][i]] = m /\ queue[m][i] \in Fibers
      BY <1>1, <2>2 DEF LockInv, Queues
    <3>2. queue[m][i] = f
      BY <1>1, <3>1, NoMutexIsNone DEF OneKey, LockInv, InCall
    <3>3. 1 \in 1..Len(queue[m])
      BY <2>2
    <3> QED BY <1>1, <2>2, <3>2, <3>3 DEF LockInv, Queues
  <2>4. Len(queue[m]) <= 1
    BY <2>2, <2>3
  <2>5. Len(q) = Len(queue[m]) - 1
    BY <2>2
  <2>6. queue'[m] = q
    BY <1>1 DEF Released, LockInv, Types
  <2>7. table' = [table EXCEPT ![k] = NoMutex]
    BY <1>3, <2>1, <2>2, <2>4, <2>5, <2>6 DEF Released
  <2> QED BY <1>1, <2>7 DEF LockInv, Types
<1> QED BY <1>2, <1>3

LEMMA TableDrainedNext ==
  ASSUME LockInv, MoreTypes, OneKey, TableDrained, [Next]_vars
  PROVE  TableDrained'
<1>1. CASE UNCHANGED vars
  BY <1>1 DEF vars, lockVars, TableDrained
<1>2. ASSUME NEW f \in Fibers, Call(f)
      PROVE  TableDrained'
  <2>1. PICK r \in Requests :
          /\ request' = [request EXCEPT ![f] = r]
          /\ Asked(f, r.key)
    BY <1>2 DEF Call
  <2>2. pc[f] = "idle" /\ r \in Calls /\ r.key \in Keys /\ r # NoRequest /\ failed' = failed
    BY <1>2, StorageAssumption, CallFields, NoCall DEF Call
  <2>3. request'[f] = r /\ request[f] = NoRequest /\ \A g \in Fibers \ {f} : request'[g] = request[g]
    BY <2>1, <2>2 DEF LockInv, Types, MoreTypes
  <2>4. \A k \in Keys \ {r.key} : table'[k] = table[k]
    BY <2>1, <2>2 DEF Asked, LockInv, Types
  <2> QED BY <2>2, <2>3, <2>4 DEF TableDrained
<1>3. ASSUME NEW f \in Fibers, Enter(f) \/ Find(f) \/ Write(f)
      PROVE  TableDrained'
  BY <1>3 DEF Enter, Find, Write, lockVars, TableDrained
<1>4. ASSUME NEW f \in Fibers, Fail(f) \/ Notify(f) \/ Release(f)
      PROVE  TableDrained'
  <2> DEFINE k == request[f].key
  <2>1. f \in Critical /\ f \in Fibers /\ pc[f] # "idle" /\ Return(f)
    BY <1>4 DEF Fail, Notify, Release, Critical, Inside
  <2>2. k \in Keys
    BY <2>1, CallFields DEF LockInv, InCall, Critical, Inside
  <2>3. /\ request'[f] = NoRequest
        /\ \A g \in Fibers \ {f} : request'[g] = request[g]
        /\ \A g \in Fibers : request[g] = NoRequest <=> pc[g] = "idle"
    BY <2>1 DEF Return, LockInv, Types, MoreTypes
  <2>4. failed \subseteq failed' /\ \A j \in Keys \ {k} : table'[j] = table[j]
    BY <1>4, <2>2 DEF Fail, Notify, Release, HandedOver, Released, LockInv, Types
  <2>5. ASSUME NEW j \in Keys \ {k}, j \notin failed',
               \A g \in Fibers : request'[g] # NoRequest => request'[g].key # j
        PROVE  table'[j] = NoMutex
    BY <2>3, <2>4, <2>5 DEF TableDrained
  <2>6. ASSUME k \notin failed',
               \A g \in Fibers : request'[g] # NoRequest => request'[g].key # k
        PROVE  table'[k] = NoMutex
    <3>1. \A g \in Fibers \ {f} : pc[g] # "idle" => request[g].key # k
      BY <2>3, <2>6
    <3>2. Released(f, k)
      BY <1>4, <2>6 DEF Fail, Notify, Release
    <3> QED BY <2>1, <3>1, <3>2, LastOut
  <2> HIDE DEF k
  <2> QED BY <2>2, <2>5, <2>6 DEF TableDrained
<1> QED BY <1>1, <1>2, <1>3, <1>4 DEF Next, Step

\* While f writes or tells, no other fiber writes or tells for its key.
LEMMA ToldNext ==
  ASSUME LockInv, MoreTypes, ToTell, ToldInOrder, [Next]_vars
  PROVE  ToTell' /\ ToldInOrder'
<1>1. CASE UNCHANGED vars
  BY <1>1 DEF vars, ToTell, ToldInOrder
<1>2. ASSUME NEW f \in Fibers, NEW l \in Inside \ {"notifying"}, To(f, l), pc[f] # "notifying",
             \A g \in Fibers \ {f} : request'[g] = request[g], UNCHANGED <<storage, told>>
      PROVE  ToTell' /\ ToldInOrder'
  <2>1. \A g \in Fibers : pc'[g] = "notifying" => pc[g] = "notifying" /\ request'[g] = request[g]
    BY <1>2 DEF To, LockInv, Types, Inside
  <2>2. \A g \in Fibers : pc[g] = "notifying" => pc'[g] = "notifying" /\ request'[g] = request[g]
    BY <1>2 DEF To, LockInv, Types, Inside
  <2> QED BY <1>2, <2>1, <2>2 DEF ToTell, ToldInOrder
<1>3. ASSUME NEW f \in Fibers, Call(f) \/ Enter(f) \/ Find(f)
      PROVE  ToTell' /\ ToldInOrder'
  <2>1. PICK l \in Inside \ {"notifying"} : To(f, l)
    BY <1>3 DEF Call, Enter, Find, Inside
  <2>2. pc[f] # "notifying" /\ UNCHANGED <<storage, told>>
    BY <1>3 DEF Call, Enter, Find
  <2>3. \A g \in Fibers \ {f} : request'[g] = request[g]
    BY <1>3 DEF Call, Enter, Find, LockInv, Types
  <2> QED BY <1>2, <2>1, <2>2, <2>3
<1>4. ASSUME NEW f \in Fibers, Write(f)
      PROVE  ToTell' /\ ToldInOrder'
  <2> DEFINE k == request[f].key
  <2>1. f \in Critical /\ k \in Keys
    BY <1>4, CallFields DEF Write, Critical, Inside, LockInv, InCall
  <2>2. \A g \in Fibers \ {f} : pc[g] = "notifying" => request[g].key \in Keys \ {k}
    BY <2>1, Excludes, CallFields DEF MutualExclusion, Critical, Inside, LockInv, InCall
  <2>3. /\ pc'[f] = "notifying" /\ \A g \in Fibers \ {f} : pc'[g] = pc[g]
        /\ storage'[k] = request[f].head /\ \A j \in Keys \ {k} : storage'[j] = storage[j]
        /\ UNCHANGED <<request, told>>
    BY <1>4, <2>1 DEF Write, To, LockInv, Types
  <2>4. ToTell'
    BY <2>2, <2>3 DEF ToTell
  <2>5. ToldInOrder'
    BY <1>4, <2>3 DEF ToldInOrder, Write
  <2> QED BY <2>4, <2>5
<1>5. ASSUME NEW f \in Fibers, Notify(f)
      PROVE  ToTell' /\ ToldInOrder'
  <2> DEFINE k == request[f].key
  <2>1. f \in Critical /\ k \in Keys
    BY <1>5, CallFields DEF Notify, Critical, Inside, LockInv, InCall
  <2>2. \A g \in Fibers \ {f} : pc[g] = "notifying" => request[g].key # k
    BY <2>1, Excludes DEF MutualExclusion, Critical, Inside
  <2>3. /\ pc'[f] # "notifying"
        /\ \A g \in Fibers \ {f} : pc'[g] = pc[g] /\ request'[g] = request[g]
        /\ told'[k] = request[f].head /\ \A j \in Keys \ {k} : told'[j] = told[j]
        /\ storage' = storage /\ storage[k] = request[f].head
    BY <1>5, <2>1 DEF Notify, Return, To, LockInv, Types, MoreTypes, ToTell
  <2>4. ToTell'
    BY <2>3 DEF ToTell
  <2>5. ASSUME NEW j \in Keys \ {k}, \A g \in Fibers : ~(pc'[g] = "notifying" /\ request'[g].key = j)
        PROVE  told'[j] = storage'[j]
    <3>1. \A g \in Fibers : ~(pc[g] = "notifying" /\ request[g].key = j)
      BY <2>3, <2>5
    <3> QED BY <2>3, <3>1 DEF ToldInOrder
  <2>6. told'[k] = storage'[k]
    BY <2>3
  <2> HIDE DEF k
  <2>7. ToldInOrder'
    BY <2>5, <2>6 DEF ToldInOrder
  <2> QED BY <2>4, <2>7
<1>6. ASSUME NEW f \in Fibers, Fail(f) \/ Release(f)
      PROVE  ToTell' /\ ToldInOrder'
  <2>1. /\ pc[f] # "notifying" /\ pc'[f] # "notifying"
        /\ \A g \in Fibers \ {f} : pc'[g] = pc[g] /\ request'[g] = request[g]
        /\ UNCHANGED <<storage, told>>
    BY <1>6 DEF Fail, Release, Return, To, LockInv, Types
  <2> QED BY <2>1 DEF ToTell, ToldInOrder
<1> QED BY <1>1, <1>3, <1>4, <1>5, <1>6 DEF Next, Step

LEMMA TableAndToldInit ==
  ASSUME Init
  PROVE  MoreTypes /\ OneKey /\ ToTell /\ TableDrained /\ ToldInOrder
<1> USE DEF Init, InitLocks
<1>1. MoreTypes
  BY DEF MoreTypes, Held
<1>2. OneKey /\ ToTell /\ TableDrained /\ ToldInOrder
  BY DEF OneKey, ToTell, TableDrained, ToldInOrder
<1> QED BY <1>1, <1>2

\* Under the same condition the table keeps no key that nobody uses, but those an
\* operation of the storage failed for, for any number of fibers, keys, mutexes
\* and calls (lock.ml unlock, stats).
THEOREM TableIsDrained ==
  ASSUME "lateArrival" \notin Allowed
  PROVE  Spec => []TableOK
<1>1. Init => LockInv /\ MoreTypes /\ OneKey /\ TableDrained
  BY LockInit, TableAndToldInit
<1>2. LockInv /\ MoreTypes /\ OneKey /\ TableDrained /\ [Next]_vars
        => (LockInv /\ MoreTypes /\ OneKey /\ TableDrained)'
  BY LockNext, MoreTypesNext, OneKeyNext, TableDrainedNext
<1>3. LockInv /\ MoreTypes /\ TableDrained => TableOK
  BY TypesMake DEF TableOK
<1> QED BY <1>1, <1>2, <1>3, PTL DEF Spec

\* Under the same condition the watchers of a key learn its heads in the order
\* they were written: when no write is to be told they know the head of the key
\* (storage.ml set, test_and_set: the watchers are told before the key is unlocked).
THEOREM WatchersToldInOrder ==
  ASSUME "lateArrival" \notin Allowed
  PROVE  Spec => []ToldInOrder
<1>1. Init => LockInv /\ MoreTypes /\ ToTell /\ ToldInOrder
  BY LockInit, TableAndToldInit
<1>2. LockInv /\ MoreTypes /\ ToTell /\ ToldInOrder /\ [Next]_vars
        => (LockInv /\ MoreTypes /\ ToTell /\ ToldInOrder)'
  BY LockNext, MoreTypesNext, ToldNext
<1> QED BY <1>1, <1>2, PTL DEF Spec
=============================================================================
