------------------------------- MODULE GcCycle -------------------------------
(***************************************************************************)
(* The life of garbage collections next to the fibers of the main process. *)
(* The main process is one thread of Lwt fibers: it runs batches, starts,   *)
(* cancels and finalises collections, splits; a step here is what a fiber   *)
(* does between two points where it can be suspended.  A collection forks a *)
(* worker process, which writes a prefix file and then a result file, both  *)
(* named after the next generation, and exits; finalising reaps the worker, *)
(* reads its result, swaps the new generation in and unlinks.               *)
(*                                                                         *)
(* Offsets and chunks are in another module: here the suffix is the list of *)
(* its entries, numbered as they are appended, and a collection is on the   *)
(* newest commit.  unlink_dont_wait is done at once.                        *)
(***************************************************************************)
EXTENDS Integers, Sequences, FiniteSets

CONSTANTS
  Batches,     \* fibers that write
  Waiters,     \* fibers that call finalise_exn ~wait:true
  SelfEnding,  \* whether collections are finalised by the batches
  Allowed,     \* which of Situations the application or the system meets
  MaxGcs,      \* bound: collections started
  MaxAppends,  \* bound: entries appended
  MaxSplits    \* bound: splits

Situations ==
  {"overlap",         \* a batch starts while another one runs
   "batchInWait",     \* a batch starts while a fiber waits for a collection
   "finaliseInBatch", \* finalise_exn is called during a batch
   "cancel",          \* cancel is called while the worker runs
   "cancelInWait",    \* ... and a fiber waits for the collection
   "cancelExited",    \* ... or after the worker exited
   "workerDies",      \* the worker is killed from outside
   "mainKilled"}      \* the main process is killed, at_exit does not run

ASSUME ConstantsAssumption ==
  /\ Allowed \subseteq Situations
  /\ SelfEnding \in BOOLEAN
  /\ MaxGcs \in Nat /\ MaxAppends \in Nat /\ MaxSplits \in Nat

Gcs == 1..MaxGcs
Gens == 0..MaxGcs
None == 0  \* no collection

VARIABLES
  \* the fibers
  batch,        \* "idle" or "running", for each fiber
  waiting,      \* the collection each waiter waits for, or None
  \* Repo.t
  duringBatch, running,
  \* Gc.t, for each collection started
  gen, target,
  task,         \* the status of its Async.t
  reaped,       \* its worker was waited for with success
  callback,     \* the promise of on_finalise was resolved
  outcome,      \* what its finalisation or cancellation came to
  \* the worker of each collection
  worker,
  \* files, by generation: the collection that wrote them, or None
  prefix, result, resultOk,
  control,      \* the control file, read and written by the main process only
  \* File_manager.t
  prefixGen,    \* the generation of the open prefix
  suffix, buf,  \* entries persisted, entries in the append buffer
  \* history
  wrote,        \* the entries each running batch appended
  committed,    \* the entries of the batches that succeeded
  appended      \* the number of appends

fiberVars == <<batch, waiting, duringBatch>>
gcVars == <<running, gen, target, task, reaped, callback, outcome>>
fileVars == <<prefix, result, resultOk, control>>
dataVars == <<prefixGen, suffix, buf>>
historyVars == <<wrote, committed, appended>>
vars == <<fiberVars, gcVars, worker, fileVars, dataVars, historyVars>>

Control == [gen : Gens, gc : Gcs \cup {None}, mapping : Gcs \cup {None},
            target : Nat, poff : Nat, chunks : Nat]

\* The stages of a worker that has not exited.
Stages == {"forked", "writing", "failing", "succeeding", "exiting"}
Alive(g) == g # None /\ worker[g] \in Stages

Started == {g \in Gcs : worker[g] # "none"}

Init ==
  /\ batch = [f \in Batches |-> "idle"] /\ waiting = [w \in Waiters |-> None]
  /\ duringBatch = FALSE /\ running = None
  /\ gen = [g \in Gcs |-> 0] /\ target = [g \in Gcs |-> 0]
  /\ task = [g \in Gcs |-> "none"] /\ reaped = {} /\ callback = {}
  /\ outcome = [g \in Gcs |-> "none"]
  /\ worker = [g \in Gcs |-> "none"]
  /\ prefix = [n \in Gens |-> None] /\ result = [n \in Gens |-> None]
  /\ resultOk = {}
  /\ control = [gen |-> 0, gc |-> None, mapping |-> None, target |-> 0,
                poff |-> 0, chunks |-> 1]
  /\ prefixGen = 0 /\ suffix = << >> /\ buf = << >>
  /\ wrote = [f \in Batches |-> {}] /\ committed = {} /\ appended = 0
-----------------------------------------------------------------------------
(* Finalisation. *)

\* Mutant of Cleaned: the prefix in use goes too.
CleanedAll ==
  /\ prefix' = [n \in Gens |-> None]
  /\ result' = [n \in Gens |-> None]

\* Mutant of Cleaned: the files of the next generation are spared.
CleanedNextSpared ==
  /\ prefix' = [n \in Gens |-> IF n >= control.gen THEN prefix[n] ELSE None]
  /\ result' = [n \in Gens |-> None]

\* Fm.cleanup: prefixes of other generations and results go.
Cleaned ==
  /\ prefix' = [n \in Gens |-> IF n = control.gen THEN prefix[n] ELSE None]
  /\ result' = [n \in Gens |-> None]

\* The swap goes through and the old files are unlinked.
SwapDone(g, s, b, c) ==
  LET n == gen[g]
  IN /\ prefix[n] # None /\ b = << >>
     /\ prefixGen' = n /\ suffix' = SubSeq(s, 1, c.poff) /\ buf' = b
     /\ control' = [c EXCEPT !.gen = n, !.gc = g, !.mapping = result[n],
                             !.target = target[g]]
     /\ prefix' = [prefix EXCEPT ![n - 1] = None]
     /\ result' = [result EXCEPT ![n] = None]
     /\ outcome' = [outcome EXCEPT ![g] = "finalised"]
     /\ callback' = callback \cup {g}

\* The new prefix is not there: reopen_prefix fails, nothing is cleaned up.
SwapWithoutPrefix(g, s, b, c) ==
  /\ prefix[gen[g]] = None
  /\ outcome' = [outcome EXCEPT ![g] = "error"]
  /\ suffix' = s /\ buf' = b /\ control' = c
  /\ UNCHANGED <<prefix, result, prefixGen, callback>>

\* The buffer holds data: reopen_suffix replaces the suffix, then closes the
\* old one, which fails with Pending_flush and drops the buffer.
SwapPendingFlush(g, s, b, c) ==
  /\ prefix[gen[g]] # None /\ b # << >>
  /\ prefixGen' = gen[g] /\ suffix' = SubSeq(s, 1, c.poff) /\ buf' = << >>
  /\ control' = c
  /\ outcome' = [outcome EXCEPT ![g] = "error"]
  /\ UNCHANGED <<prefix, result, callback>>

\* Mutant of Aborted: the promise of the collection is forgotten.
AbortedSilently(g, s, b, c) ==
  /\ Cleaned
  /\ outcome' = [outcome EXCEPT ![g] = "error"]
  /\ suffix' = s /\ buf' = b /\ control' = c
  /\ UNCHANGED <<prefixGen, callback>>

\* The worker failed or its result is missing or bad: clean_after_abort.
Aborted(g, s, b, c) ==
  /\ Cleaned
  /\ outcome' = [outcome EXCEPT ![g] = "error"]
  /\ callback' = callback \cup {g}
  /\ suffix' = s /\ buf' = b /\ control' = c
  /\ UNCHANGED prefixGen

\* go: what finalise does once it has the status of the worker of g, when the
\* suffix is s, its buffer b and the control file c.
Finalised(g, status, s, b, c) ==
  /\ running' = None
  /\ IF status = "success" /\ result[gen[g]] \in resultOk
     THEN \/ SwapDone(g, s, b, c)
          \/ SwapWithoutPrefix(g, s, b, c)
          \/ SwapPendingFlush(g, s, b, c)
     ELSE Aborted(g, s, b, c)

\* The status of a worker that ended.
ExitStatus(g) == IF worker[g] = "exited" THEN "success" ELSE "failure"

\* waitpid reaps the worker of g, and its status is noted.
Reaped(g) ==
  /\ task' = [task EXCEPT ![g] = ExitStatus(g)]
  /\ reaped' = reaped \cup {g}

\* Mutant of TryFinalise: the test for auto finalisation is negated.
TryFinaliseNever(during, s, b, c) ==
  /\ suffix' = s /\ buf' = b /\ control' = c
  /\ UNCHANGED <<running, task, reaped, callback, outcome, prefix, result, prefixGen>>

\* try_auto_finalise_exn: finalise_exn ~wait:false, which polls the worker.
\* During a batch finalise_exn forgets the collection and raises.
TryFinalise(during, s, b, c) ==
  \/ /\ running = None \/ ~SelfEnding \/ (~during /\ Alive(running))
     /\ suffix' = s /\ buf' = b /\ control' = c
     /\ UNCHANGED <<running, task, reaped, callback, outcome, prefix, result,
                    prefixGen>>
  \/ /\ running # None /\ SelfEnding /\ during
     /\ running' = None
     /\ suffix' = s /\ buf' = b /\ control' = c
     /\ UNCHANGED <<task, reaped, callback, outcome, prefix, result, prefixGen>>
  \/ /\ running # None /\ SelfEnding /\ ~during /\ ~Alive(running)
     /\ Reaped(running)
     /\ Finalised(running, ExitStatus(running), s, b, c)

\* The call of finalise_exn in this step raised.
Raised ==
  running # None /\ running' = None /\ outcome'[running] # "finalised"
-----------------------------------------------------------------------------
(* The fibers. *)

\* batch: a collection that ended is finalised before the flag is set.
BatchStarts(f) ==
  /\ batch[f] = "idle"
  /\ "overlap" \in Allowed \/ \A e \in Batches : batch[e] = "idle"
  /\ "batchInWait" \in Allowed \/ \A w \in Waiters : waiting[w] = None
  /\ TryFinalise(duringBatch, suffix, buf, control)
  /\ IF Raised THEN UNCHANGED <<batch, duringBatch>>
     ELSE batch' = [batch EXCEPT ![f] = "running"] /\ duringBatch' = TRUE
  /\ UNCHANGED <<waiting, gen, target, worker, resultOk, historyVars>>

\* A batch appends an entry; a full buffer is written out.
BatchAppends(f) ==
  /\ batch[f] = "running" /\ appended < MaxAppends
  /\ appended' = appended + 1
  /\ wrote' = [wrote EXCEPT ![f] = @ \cup {appended'}]
  /\ \/ buf' = Append(buf, appended') /\ UNCHANGED suffix
     \/ suffix' = suffix \o Append(buf, appended') /\ buf' = << >>
  /\ UNCHANGED <<fiberVars, gcVars, worker, fileVars, prefixGen, committed>>

Flushed == suffix \o buf
FlushedControl == [control EXCEPT !.poff = Len(Flushed)]

\* Mutant of BatchSucceeds: the collection is finalised before the flush.
BatchSucceedsFlushLast(f) ==
  /\ batch[f] = "running"
  /\ batch' = [batch EXCEPT ![f] = "idle"] /\ duringBatch' = FALSE
  /\ TryFinalise(FALSE, suffix, buf, control)
  /\ wrote' = [wrote EXCEPT ![f] = {}]
  /\ committed' = IF Raised THEN committed ELSE committed \cup wrote[f]
  /\ UNCHANGED <<waiting, gen, target, worker, resultOk, appended>>

\* on_success: the flag is reset, the store flushed, a collection that ended is
\* finalised.
BatchSucceeds(f) ==
  /\ batch[f] = "running"
  /\ batch' = [batch EXCEPT ![f] = "idle"] /\ duringBatch' = FALSE
  /\ TryFinalise(FALSE, Flushed, << >>, FlushedControl)
  /\ wrote' = [wrote EXCEPT ![f] = {}]
  /\ committed' = IF Raised THEN committed ELSE committed \cup wrote[f]
  /\ UNCHANGED <<waiting, gen, target, worker, resultOk, appended>>

\* on_fail: what the batch appended is flushed all the same.
BatchFails(f) ==
  /\ batch[f] = "running"
  /\ batch' = [batch EXCEPT ![f] = "idle"] /\ duringBatch' = FALSE
  /\ suffix' = Flushed /\ buf' = << >> /\ control' = FlushedControl
  /\ wrote' = [wrote EXCEPT ![f] = {}]
  /\ UNCHANGED <<waiting, gcVars, worker, prefix, result, resultOk, prefixGen,
                 committed, appended>>

\* split: allowed when the flag is not set; fails when the buffer has data.
\* Everything in the file of the closed chunk is published.
Split ==
  /\ ~duringBatch /\ buf = << >>
  /\ control.chunks <= MaxSplits
  /\ control' = [control EXCEPT !.chunks = @ + 1, !.poff = Len(suffix)]
  /\ UNCHANGED <<fiberVars, gcVars, worker, prefix, result, resultOk, dataVars,
                 historyVars>>

\* start_exn on the newest commit.
StartGc ==
  LET g == Cardinality(Started) + 1
      n == control.gen + 1
  IN /\ running = None /\ ~duringBatch
     /\ g \in Gcs
     /\ control.poff > control.target
     /\ running' = g
     /\ gen' = [gen EXCEPT ![g] = n]
     /\ target' = [target EXCEPT ![g] = control.poff]
     /\ task' = [task EXCEPT ![g] = "running"]
     /\ worker' = [worker EXCEPT ![g] = "forked"]
     /\ result' = [result EXCEPT ![n] = None]
     /\ UNCHANGED <<fiberVars, reaped, callback, outcome, prefix, resultOk, control,
                    dataVars, historyVars>>

\* finalise_exn during a batch: the error is raised, the collection forgotten.
FinaliseInBatch ==
  /\ "finaliseInBatch" \in Allowed
  /\ duringBatch /\ running # None
  /\ running' = None
  /\ UNCHANGED <<fiberVars, gen, target, task, reaped, callback, outcome, worker,
                 fileVars, dataVars, historyVars>>

\* finalise_exn ~wait:true: the flag is tested, then the fiber waits.
WaitStarts(w) ==
  /\ waiting[w] = None /\ running # None /\ ~duringBatch
  /\ waiting' = [waiting EXCEPT ![w] = running]
  /\ UNCHANGED <<batch, duringBatch, gcVars, worker, fileVars, dataVars, historyVars>>

\* Mutant of WaitEnds: a worker that was already reaped is waited for.
WaitEndsUnreaped(w) ==
  LET g == waiting[w]
  IN /\ g # None /\ ~Alive(g) /\ g \notin reaped
     /\ waiting' = [waiting EXCEPT ![w] = None]
     /\ Reaped(g) /\ Finalised(g, ExitStatus(g), suffix, buf, control)
     /\ UNCHANGED <<batch, duringBatch, gen, target, worker, resultOk, historyVars>>

\* The worker ended: the fiber goes on, whatever happened meanwhile.  waitpid
\* raises ECHILD when somebody else reaped the worker.
WaitEnds(w) ==
  LET g == waiting[w]
  IN /\ g # None /\ ~Alive(g)
     /\ waiting' = [waiting EXCEPT ![w] = None]
     /\ \/ /\ g \notin reaped
           /\ Reaped(g) /\ Finalised(g, ExitStatus(g), suffix, buf, control)
        \/ /\ g \in reaped
           /\ UNCHANGED <<running, task, reaped, callback, outcome, prefix, result,
                          control, dataVars>>
     /\ UNCHANGED <<batch, duringBatch, gen, target, worker, resultOk, wrote,
                    committed, appended>>

\* Mutant of CancelRunning: the files of the worker are left.
CancelRunningUnclean ==
  /\ running # None /\ Alive(running)
  /\ "cancel" \in Allowed /\ \A w \in Waiters : waiting[w] # running
  /\ running' = None
  /\ worker' = [worker EXCEPT ![running] = "killed"]
  /\ task' = [task EXCEPT ![running] = "cancelled"]
  /\ outcome' = [outcome EXCEPT ![running] = "cancelled"]
  /\ UNCHANGED <<fiberVars, gen, target, reaped, callback, fileVars, dataVars,
                 historyVars>>

\* Mutant of CancelRunning: the worker is not killed.
CancelRunningNoKill ==
  /\ running # None /\ Alive(running)
  /\ "cancel" \in Allowed /\ \A w \in Waiters : waiting[w] # running
  /\ running' = None
  /\ task' = [task EXCEPT ![running] = "cancelled"]
  /\ outcome' = [outcome EXCEPT ![running] = "cancelled"]
  /\ Cleaned
  /\ UNCHANGED <<fiberVars, gen, target, reaped, callback, worker, resultOk,
                 control, dataVars, historyVars>>

\* cancel while the worker runs: it is killed and its files are removed.
CancelRunning ==
  /\ running # None /\ Alive(running)
  /\ \/ "cancel" \in Allowed /\ \A w \in Waiters : waiting[w] # running
     \/ "cancelInWait" \in Allowed
  /\ running' = None
  /\ worker' = [worker EXCEPT ![running] = "killed"]
  /\ task' = [task EXCEPT ![running] = "cancelled"]
  /\ outcome' = [outcome EXCEPT ![running] = "cancelled"]
  /\ Cleaned
  /\ UNCHANGED <<fiberVars, gen, target, reaped, callback, resultOk, control,
                 dataVars, historyVars>>

\* cancel when the worker ended but was not finalised: waitpid reaps it, cancel
\* returns false and cleans nothing, yet the collection is forgotten.
CancelExited ==
  /\ "cancelExited" \in Allowed
  /\ running # None /\ ~Alive(running)
  /\ running' = None
  /\ reaped' = reaped \cup {running}
  /\ UNCHANGED <<fiberVars, gen, target, task, callback, outcome, worker, fileVars,
                 dataVars, historyVars>>
-----------------------------------------------------------------------------
(* The workers, and the death of processes. *)

\* Sparse.Ao.create: the new prefix must not exist.
WorkerCreates(g) ==
  /\ worker[g] = "forked"
  /\ IF prefix[gen[g]] = None
     THEN /\ prefix' = [prefix EXCEPT ![gen[g]] = g]
          /\ worker' = [worker EXCEPT ![g] = "writing"]
     ELSE /\ worker' = [worker EXCEPT ![g] = "failing"]
          /\ UNCHANGED prefix
  /\ UNCHANGED <<fiberVars, gcVars, result, resultOk, control, dataVars, historyVars>>

\* The prefix is filled, then opened again by name to rewrite the parents.
WorkerFills(g) ==
  /\ worker[g] = "writing"
  /\ worker' = [worker EXCEPT ![g] =
                  IF prefix[gen[g]] = None THEN "failing" ELSE "succeeding"]
  /\ UNCHANGED <<fiberVars, gcVars, fileVars, dataVars, historyVars>>

\* The result, good or bad, is written over whatever result is there.
WorkerReports(g) ==
  /\ worker[g] \in {"failing", "succeeding"}
  /\ worker' = [worker EXCEPT ![g] = "exiting"]
  /\ result' = [result EXCEPT ![gen[g]] = g]
  /\ resultOk' = IF worker[g] = "succeeding" THEN resultOk \cup {g} ELSE resultOk
  /\ UNCHANGED <<fiberVars, gcVars, prefix, control, dataVars, historyVars>>

WorkerExits(g) ==
  /\ worker[g] = "exiting"
  /\ worker' = [worker EXCEPT ![g] = "exited"]
  /\ UNCHANGED <<fiberVars, gcVars, fileVars, dataVars, historyVars>>

WorkerStep(g) ==
  WorkerCreates(g) \/ WorkerFills(g) \/ WorkerReports(g) \/ WorkerExits(g)

\* Something kills the worker.
WorkerDies(g) ==
  /\ "workerDies" \in Allowed
  /\ Alive(g)
  /\ worker' = [worker EXCEPT ![g] = "died"]
  /\ UNCHANGED <<fiberVars, gcVars, fileVars, dataVars, historyVars>>

\* The main process is killed and started again; its worker goes on.  Opening
\* the store ends with a cleanup.
MainKilled ==
  /\ "mainKilled" \in Allowed
  /\ running # None
  /\ running' = None
  /\ batch' = [f \in Batches |-> "idle"] /\ duringBatch' = FALSE
  /\ waiting' = [w \in Waiters |-> None]
  /\ wrote' = [f \in Batches |-> {}]
  /\ suffix' = SubSeq(suffix, 1, control.poff) /\ buf' = << >>
  /\ prefixGen' = control.gen
  /\ Cleaned
  /\ UNCHANGED <<gen, target, task, reaped, callback, outcome, worker, resultOk,
                 control, committed, appended>>

Next ==
  \/ \E f \in Batches : BatchStarts(f) \/ BatchAppends(f)
                         \/ BatchSucceeds(f) \/ BatchFails(f)
  \/ Split \/ StartGc \/ FinaliseInBatch
  \/ \E w \in Waiters : WaitStarts(w) \/ WaitEnds(w)
  \/ CancelRunning \/ CancelExited
  \/ \E g \in Gcs : WorkerStep(g) \/ WorkerDies(g)
  \/ MainKilled

\* The system runs the worker and wakes the fiber that waits for it; the
\* application goes on starting batches and ends those it started.
Fairness ==
  /\ \A g \in Gcs : WF_vars(WorkerStep(g))
  /\ \A w \in Waiters : WF_vars(WaitEnds(w))
  /\ \A f \in Batches : WF_vars(BatchStarts(f))
                       /\ WF_vars(BatchSucceeds(f) \/ BatchFails(f))

Spec == Init /\ [][Next]_vars
FairSpec == Spec /\ Fairness
-----------------------------------------------------------------------------
(* Properties. *)

\* The variables have their types, and no collection runs that did not start.
TypeOK ==
  /\ batch \in [Batches -> {"idle", "running"}]
  /\ waiting \in [Waiters -> Gcs \cup {None}]
  /\ duringBatch \in BOOLEAN /\ running \in Started \cup {None}
  /\ gen \in [Gcs -> Gens] /\ target \in [Gcs -> Nat]
  /\ task \in [Gcs -> {"none", "running", "success", "failure", "cancelled"}]
  /\ reaped \subseteq Started /\ callback \subseteq Started
  /\ outcome \in [Gcs -> {"none", "finalised", "error", "cancelled"}]
  /\ worker \in [Gcs -> Stages \cup {"none", "exited", "killed", "died"}]
  /\ prefix \in [Gens -> Gcs \cup {None}] /\ result \in [Gens -> Gcs \cup {None}]
  /\ resultOk \subseteq Started
  /\ control \in Control /\ control.poff <= Len(suffix)
  /\ prefixGen \in Gens /\ suffix \in Seq(Nat) /\ buf \in Seq(Nat)
  /\ wrote \in [Batches -> SUBSET (1..appended)]
  /\ committed \subseteq 1..appended /\ appended \in 0..MaxAppends

\* The prefix the control file names is there, and it, the size of its mapping
\* in the control file and the handle of the main process are of one
\* collection.
PrefixMatches ==
  /\ prefixGen = control.gen
  /\ control.gen # 0 =>
       prefix[control.gen] = control.gc /\ control.mapping = control.gc

\* However collections end, cancelled, failed, orphaned or swapped, the store
\* stays one whole: the prefix, its mapping and the open handle belong together.
Coherent == TypeOK /\ PrefixMatches

\* Whatever collections do meanwhile, the entries of a batch that returned are
\* in the part of the suffix the control file covers.
CommittedKept == committed \subseteq {suffix[i] : i \in 1..control.poff}

\* is_finished: the repository knows the collection whose worker runs, so that
\* it never starts another one beside it.
IsFinishedHonest == \A g \in Gcs : Alive(g) => running = g

\* A collection that was not cancelled fails only when its worker was killed.
NoSpuriousFailure == \A g \in Gcs : outcome[g] = "error" => worker[g] = "died"

\* Once the collections are over only the prefix in use is left on disk.
NoLeftovers ==
  running = None /\ (\A g \in Gcs : ~Alive(g)) =>
    \A n \in Gens : (n # control.gen => prefix[n] = None) /\ result[n] = None

\* A collection that was finalised, well or not, had its callback called.
CallbackCalled ==
  \A g \in Gcs : outcome[g] \in {"finalised", "error"} => g \in callback

\* A fiber that waits for a collection goes on one day, whoever else polls,
\* cancels or finalises it.
WaitReturns == \A w \in Waiters : waiting[w] # None ~> waiting[w] = None

\* As long as batches come and go every collection is over one day.
GcEnds == \A g \in Gcs : running = g ~> running # g
=============================================================================
