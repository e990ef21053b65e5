------------------------------- MODULE Watch -------------------------------
(***************************************************************************)
(* The watch manager of a kind of branch store: the watchers with the value *)
(* each was last told of, and the streams of notifications that a fiber of  *)
(* its own takes one by one.  The lock of the manager protects what no      *)
(* fiber can be suspended in, so that each operation is one step, which a   *)
(* store takes together with its own.                                       *)
(***************************************************************************)
EXTENDS Integers, Sequences, FiniteSets

CONSTANTS
  Keys,        \* names of branches
  Values,      \* their heads
  None,        \* no head
  MaxWatches   \* bound: registrations

ASSUME WatchAssumption == None \notin Values /\ MaxWatches \in Nat

Held == Values \cup {None}
Heads == [Keys -> Held]

VARIABLES
  watchers,    \* keys and glob of W.t: the watcher of each id in use
  next,        \* the next id
  streams,     \* the streams of the scheduler, each with its queue of jobs
               \* and the calls of the job under way
  pushes,      \* whether the last stream still takes jobs
  \* history, for each registration
  handle,      \* the id it was given
  given,       \* whether its handle was used, or its store closed
  promised,    \* the heads its queued calls lead to
  seen         \* the heads its callback has dealt with

watchVars == <<watchers, next, streams, pushes, handle, given, promised, seen>>

Registrations == 1..Len(handle)
Watchers == [reg : 1..MaxWatches, glob : BOOLEAN, keys : SUBSET Keys, known : Heads]
Calls == [reg : 1..MaxWatches, key : Keys, old : Held, new : Held]

NoWatch ==
  /\ watchers = << >> /\ next = 0 /\ streams = << >> /\ pushes = FALSE
  /\ handle = << >> /\ given = << >> /\ promised = << >> /\ seen = << >>

\* The process is gone and so is its manager.
WatchGone ==
  /\ watchers' = << >> /\ next' = 0 /\ streams' = << >> /\ pushes' = FALSE
  /\ handle' = << >> /\ given' = << >> /\ promised' = << >> /\ seen' = << >>
-----------------------------------------------------------------------------
\* Mutant of Registered: next is not incremented.
RegisteredSameId(keys, glob, init) ==
  LET w == [reg |-> Len(handle) + 1, glob |-> glob, keys |-> keys, known |-> init]
  IN /\ Len(handle) < MaxWatches
     /\ watchers' = [i \in DOMAIN watchers \cup {next} |->
                       IF i = next THEN w ELSE watchers[i]]
     /\ handle' = Append(handle, next)
     /\ given' = Append(given, FALSE)
     /\ promised' = Append(promised, init) /\ seen' = Append(seen, init)
     /\ UNCHANGED <<next, streams, pushes>>

\* A callback is registered for some keys, or for all of them, with the heads
\* it already knows.
Registered(keys, glob, init) ==
  LET w == [reg |-> Len(handle) + 1, glob |-> glob, keys |-> keys, known |-> init]
  IN /\ Len(handle) < MaxWatches
     /\ watchers' = [i \in DOMAIN watchers \cup {next} |->
                       IF i = next THEN w ELSE watchers[i]]
     /\ next' = next + 1
     /\ handle' = Append(handle, next)
     /\ given' = Append(given, FALSE)
     /\ promised' = Append(promised, init) /\ seen' = Append(seen, init)
     /\ UNCHANGED <<streams, pushes>>

\* Mutant of Enqueued: clean does not forget the stream that it ends, which takes no
\* more jobs.
EnqueuedInEnded(jobs) ==
  \/ (jobs = << >> \/ (~pushes /\ streams # << >>)) /\ UNCHANGED <<streams, pushes>>
  \/ /\ jobs # << >> /\ pushes
     /\ streams' = [streams EXCEPT ![Len(streams)].jobs = @ \o jobs]
     /\ UNCHANGED pushes
  \/ /\ jobs # << >> /\ streams = << >>
     /\ streams' = <<[jobs |-> jobs, running |-> {}]>>
     /\ pushes' = TRUE

\* Jobs go to the stream in use, or start one.
Enqueued(jobs) ==
  \/ jobs = << >> /\ UNCHANGED <<streams, pushes>>
  \/ /\ jobs # << >> /\ pushes
     /\ streams' = [streams EXCEPT ![Len(streams)].jobs = @ \o jobs]
     /\ UNCHANGED pushes
  \/ /\ jobs # << >> /\ ~pushes
     /\ streams' = Append(streams, [jobs |-> jobs, running |-> {}])
     /\ pushes' = TRUE

\* The watchers of key k that do not know that its head is v.
Fired(k, v) ==
  {i \in DOMAIN watchers : k \in watchers[i].keys /\ watchers[i].known[k] # v}

\* A stream is given no empty job.
JobOf(calls) == IF calls = {} THEN << >> ELSE <<calls>>

\* Mutant of Jobs: a call goes from what the callback has seen, whatever is
\* queued for it.
JobsFromSeen(k, v) ==
  LET CallsOf(glob) ==
        {[reg |-> watchers[i].reg, key |-> k, old |-> seen[watchers[i].reg][k], new |-> v] :
           i \in {j \in Fired(k, v) : watchers[j].glob = glob}}
  IN JobOf(CallsOf(TRUE)) \o JobOf(CallsOf(FALSE))

\* One job for the watchers of all keys, then one for those of this key.
Jobs(k, v) ==
  LET CallsOf(glob) ==
        {[reg |-> watchers[i].reg, key |-> k, old |-> watchers[i].known[k], new |-> v] :
           i \in {j \in Fired(k, v) : watchers[j].glob = glob}}
  IN JobOf(CallsOf(TRUE)) \o JobOf(CallsOf(FALSE))

Notify(k, v) ==
  /\ Enqueued(Jobs(k, v))
  /\ watchers' = [i \in DOMAIN watchers |->
                    IF i \in Fired(k, v) THEN [watchers[i] EXCEPT !.known[k] = v]
                                         ELSE watchers[i]]
  /\ promised' = [r \in Registrations |->
                    IF \E i \in Fired(k, v) : watchers[i].reg = r
                    THEN [promised[r] EXCEPT ![k] = v] ELSE promised[r]]
  /\ UNCHANGED <<next, handle, given, seen>>

\* The handle of r is given back; jobs that are queued for it still run.  The stream
\* ends with the last watcher: the jobs it holds run, later ones go to a new stream.
Unwatched(r) ==
  /\ watchers' = [i \in DOMAIN watchers \ {handle[r]} |-> watchers[i]]
  /\ pushes' = (pushes /\ DOMAIN watchers' # {})
  /\ given' = [given EXCEPT ![r] = TRUE]
  /\ UNCHANGED <<next, streams, handle, promised, seen>>

\* clear: ids start again from 0, the stream is left as it is.
Cleared(closed) ==
  /\ watchers' = << >> /\ next' = 0
  /\ given' = [r \in Registrations |-> given[r] \/ r \in closed]
  /\ UNCHANGED <<streams, pushes, handle, promised, seen>>
-----------------------------------------------------------------------------
(* The fibers of the streams. *)

\* Mutant of StartJob: jobs overlap.
StartJobAnyway(i) ==
  /\ streams[i].jobs # << >>
  /\ streams' = [streams EXCEPT ![i].running = @ \cup Head(streams[i].jobs),
                                ![i].jobs = Tail(@)]
  /\ UNCHANGED <<watchers, next, pushes, handle, given, promised, seen>>

\* The calls of a job start together, once those of the job before ended.
StartJob(i) ==
  /\ streams[i].running = {} /\ streams[i].jobs # << >>
  /\ streams' = [streams EXCEPT ![i].running = Head(streams[i].jobs), ![i].jobs = Tail(@)]
  /\ UNCHANGED <<watchers, next, pushes, handle, given, promised, seen>>

\* A callback ends; its failure is caught and logged.
EndCall(i, c) ==
  /\ c \in streams[i].running
  /\ streams' = [streams EXCEPT ![i].running = @ \ {c}]
  /\ seen' = [seen EXCEPT ![c.reg][c.key] = c.new]
  /\ UNCHANGED <<watchers, next, pushes, handle, given, promised>>

Deliver == \E i \in 1..Len(streams) :
             StartJob(i) \/ \E c \in streams[i].running : EndCall(i, c)
=============================================================================
