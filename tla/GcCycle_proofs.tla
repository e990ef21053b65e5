--------------------------- MODULE GcCycle_proofs ---------------------------
(***************************************************************************)
(* Proofs about GcCycle: what holds of collections and batches however many *)
(* there are, and which situations the application must not meet for it.    *)
(***************************************************************************)
EXTENDS GcCycle, FiniteSetTheorems, SequenceTheorems, TLAPS

\* The application and the system meet none of the situations in S.
Never(S) == S \cap Allowed = {}

\* Collections are numbered as they start, and a generation is not younger than
\* the collection that makes it.
Numbered ==
  \E k \in Gens :
    /\ Started = 1..k /\ control.gen <= k
    /\ \A g \in 1..k : gen[g] \in 1..g
    /\ \A w \in Waiters : waiting[w] \in 0..k

\* The flag is set just when a batch runs, and one batch runs at a time.
OneBatch ==
  /\ duringBatch <=> \E f \in Batches : batch[f] = "running"
  /\ \A e, f \in Batches : batch[e] = "running" /\ batch[f] = "running" => e = f
  /\ \A f \in Batches : batch[f] = "idle" => wrote[f] = {}

\* Nobody waits for a collection during a batch, and outside of batches all is
\* flushed.
Flat ==
  /\ duringBatch => \A w \in Waiters : waiting[w] = None
  /\ ~duringBatch => buf = << >> /\ control.poff = Len(suffix)

\* What a running batch wrote is in the suffix or in its buffer.
Written ==
  \A f \in Batches : \A x \in wrote[f] :
    \/ \E i \in 1..Len(suffix) : suffix[i] = x
    \/ \E i \in 1..Len(buf) : buf[i] = x

\* A fiber waits for the collection that runs, or for one that was reaped.
Waited ==
  /\ running # None => running \notin reaped
  /\ \A w \in Waiters :
       waiting[w] # None /\ waiting[w] \notin reaped => waiting[w] = running

\* The collection that runs makes the next generation, and the prefix is there
\* from the time its worker looked for it.
HasPrefix ==
  running # None =>
    /\ gen[running] = control.gen + 1
    /\ worker[running] \in {"writing", "failing", "succeeding", "exiting", "exited"}
         => prefix[gen[running]] # None

\* The files of the next generation are those of the collection that runs.
Owned ==
  running # None =>
    /\ worker[running] \in {"writing", "succeeding"} => prefix[gen[running]] = running
    /\ running \in resultOk => prefix[gen[running]] = running
    /\ result[gen[running]] \in {None, running}

\* No file is there but the prefix in use and what the collection that runs has
\* written, and its worker does not fail.
Clean ==
  /\ \A n \in Gens : prefix[n] # None =>
       n = control.gen \/ (running # None /\ n = gen[running] /\ worker[running] # "forked")
  /\ \A n \in Gens : result[n] # None => running # None /\ n = gen[running]
  /\ running # None =>
       /\ worker[running] \in {"forked", "writing", "succeeding", "exiting", "exited", "died"}
       /\ worker[running] \in {"exiting", "exited"}
            => result[gen[running]] = running /\ running \in resultOk
-----------------------------------------------------------------------------
(* Types. *)

\* What finalising changes keeps its type.
Finalisable ==
  /\ running \in Started \cup {None}
  /\ task \in [Gcs -> {"none", "running", "success", "failure", "cancelled"}]
  /\ reaped \subseteq Started /\ callback \subseteq Started
  /\ outcome \in [Gcs -> {"none", "finalised", "error", "cancelled"}]
  /\ prefix \in [Gens -> Gcs \cup {None}] /\ result \in [Gens -> Gcs \cup {None}]
  /\ control \in Control /\ control.poff <= Len(suffix)
  /\ prefixGen \in Gens /\ suffix \in Seq(Nat) /\ buf \in Seq(Nat)

\* The first n entries of a sequence.
LEMMA FirstOnes ==
  ASSUME NEW S, NEW s \in Seq(S), NEW n \in Nat, n <= Len(s)
  PROVE  /\ SubSeq(s, 1, n) \in Seq(S) /\ Len(SubSeq(s, 1, n)) = n
         /\ \A i \in 1..n : SubSeq(s, 1, n)[i] = s[i]
OBVIOUS

\* The control file after a swap, and after a flush or a split.
LEMMA ControlFields ==
  ASSUME NEW c \in Control, NEW n \in Gens, NEW g \in Gcs, NEW m \in Gcs \cup {None},
         NEW t \in Nat
  PROVE  LET d == [c EXCEPT !.gen = n, !.gc = g, !.mapping = m, !.target = t]
         IN /\ d \in Control /\ d.poff = c.poff /\ d.gen = n /\ d.gc = g /\ d.mapping = m
            /\ d.target = t
BY DEF Control

LEMMA CleanedTypes ==
  ASSUME Finalisable, Cleaned
  PROVE  prefix' \in [Gens -> Gcs \cup {None}] /\ result' \in [Gens -> Gcs \cup {None}]
BY DEF Finalisable, Cleaned

LEMMA FinalisedTypes ==
  ASSUME Finalisable, NEW g \in Started, gen[g] \in Gens, target[g] \in Nat,
         worker' = worker, NEW status,
         NEW s \in Seq(Nat), NEW b \in Seq(Nat), NEW c \in Control,
         c.poff <= Len(s), Reaped(g), Finalised(g, status, s, b, c)
  PROVE  /\ Finalisable'
         /\ control'.gen \in {c.gen, gen[g]}
<1>1. g \in Gcs /\ Started' = Started
  BY DEF Started
<1>2. running' = None /\ task' \in [Gcs -> {"none", "running", "success", "failure", "cancelled"}]
      /\ reaped' \subseteq Started
  BY <1>1 DEF Finalisable, Reaped, ExitStatus, Finalised
<1>3. c.poff \in Nat
  BY DEF Control
<1>4. SubSeq(s, 1, c.poff) \in Seq(Nat) /\ Len(SubSeq(s, 1, c.poff)) = c.poff
  BY <1>3, FirstOnes
<1>5. CASE SwapDone(g, s, b, c)
  <2> DEFINE m == result[gen[g]]
             d == [c EXCEPT !.gen = gen[g], !.gc = g, !.mapping = m,
                            !.target = target[g]]
  <2>1. d \in Control /\ d.poff = c.poff /\ d.gen = gen[g]
    <3>1. m \in Gcs \cup {None}
      BY DEF Finalisable
    <3> HIDE DEF m
    <3> DEFINE n == gen[g]
               t == target[g]
    <3>2. n \in Gens /\ t \in Nat
      OBVIOUS
    <3> HIDE DEF n, t
    <3> QED BY <1>1, <3>1, <3>2 DEF Control
  <2>2. control' = d /\ suffix' = SubSeq(s, 1, c.poff)
    BY <1>5 DEF SwapDone
  <2>3. prefixGen' = gen[g] /\ buf' = b
        /\ callback' \subseteq Started
        /\ outcome' \in [Gcs -> {"none", "finalised", "error", "cancelled"}]
        /\ prefix' \in [Gens -> Gcs \cup {None}] /\ result' \in [Gens -> Gcs \cup {None}]
    BY <1>1, <1>5 DEF SwapDone, Finalisable
  <2> HIDE DEF d
  <2>4. suffix' \in Seq(Nat) /\ control' \in Control /\ control'.poff <= Len(suffix')
    BY <1>3, <1>4, <2>1, <2>2
  <2> QED BY <1>1, <1>2, <2>1, <2>2, <2>3, <2>4 DEF Finalisable
<1>6. CASE SwapWithoutPrefix(g, s, b, c)
  BY <1>1, <1>2, <1>6 DEF SwapWithoutPrefix, Finalisable
<1>7. CASE SwapPendingFlush(g, s, b, c)
  <2>1. buf' \in Seq(Nat) /\ control' = c /\ suffix' = SubSeq(s, 1, c.poff)
    BY <1>7 DEF SwapPendingFlush
  <2> QED BY SMTT(30), <1>1, <1>2, <1>3, <1>4, <1>7, <2>1 DEF SwapPendingFlush, Finalisable
<1>8. CASE Aborted(g, s, b, c)
  <2>1. prefix' \in [Gens -> Gcs \cup {None}] /\ result' \in [Gens -> Gcs \cup {None}]
    BY <1>8, CleanedTypes DEF Aborted
  <2> QED BY <1>1, <1>2, <1>8, <2>1 DEF Aborted, Finalisable
<1> QED BY <1>5, <1>6, <1>7, <1>8 DEF Finalised

LEMMA TypesFinalisable ==
  ASSUME TypeOK
  PROVE  Finalisable
BY DEF TypeOK, Finalisable

\* Every collection that started makes a generation.
LEMMA StartedGens ==
  ASSUME TypeOK, Numbered
  PROVE  \A g \in Started : gen[g] \in Gens /\ target[g] \in Nat /\ g \in Gcs
BY DEF TypeOK, Started

LEMMA TryTypes ==
  ASSUME TypeOK, Numbered, NEW during, worker' = worker,
         NEW s \in Seq(Nat), NEW b \in Seq(Nat), NEW c \in Control,
         c.poff <= Len(s), c.gen = control.gen, TryFinalise(during, s, b, c)
  PROVE  Finalisable' /\ control'.gen \in {control.gen} \cup {gen[g] : g \in Started}
<1>1. Finalisable /\ Started' = Started
  BY TypesFinalisable DEF Started
<1>2. CASE /\ running' \in {running, None}
           /\ suffix' = s /\ buf' = b /\ control' = c
           /\ UNCHANGED <<task, reaped, callback, outcome, prefix, result, prefixGen>>
  BY <1>1, <1>2 DEF Finalisable
<1>3. CASE running \in Started /\ Reaped(running)
           /\ Finalised(running, ExitStatus(running), s, b, c)
  BY <1>1, <1>3, StartedGens, FinalisedTypes
<1>4. running # None => running \in Started
  BY DEF TypeOK
<1> QED BY <1>2, <1>3, <1>4 DEF TryFinalise

\* No collection starts.
LEMMA NumberedKeeps ==
  ASSUME TypeOK, Numbered, Started' = Started, gen' = gen,
         control'.gen \in {control.gen} \cup {gen[g] : g \in Started},
         \A w \in Waiters : waiting'[w] \in {waiting[w], None, running}
  PROVE  Numbered'
<1>1. PICK k \in Gens :
        /\ Started = 1..k /\ control.gen <= k
        /\ \A g \in 1..k : gen[g] \in 1..g
        /\ \A w \in Waiters : waiting[w] \in 0..k
  BY DEF Numbered
<1>2. k \in Nat /\ control'.gen <= k
  BY <1>1 DEF Gens
<1>3. running \in 0..k
  BY <1>1, <1>2 DEF TypeOK, None
<1>4. \A w \in Waiters : waiting'[w] \in 0..k
  BY <1>1, <1>2, <1>3 DEF None
<1> QED BY <1>1, <1>2, <1>4 DEF Numbered

\* The store is flushed.
LEMMA FlushedTypes ==
  ASSUME TypeOK
  PROVE  /\ Flushed \in Seq(Nat) /\ << >> \in Seq(Nat)
         /\ FlushedControl \in Control /\ FlushedControl.gen = control.gen
         /\ FlushedControl.gc = control.gc /\ FlushedControl.mapping = control.mapping
         /\ FlushedControl.poff = Len(Flushed)
<1>1. Flushed \in Seq(Nat) /\ Len(Flushed) \in Nat
  BY DEF TypeOK, Flushed
<1>2. control \in Control
  BY DEF TypeOK
<1> DEFINE n == Len(Flushed)
           d == [control EXCEPT !.poff = n]
<1>3. n \in Nat /\ FlushedControl = d
  BY <1>1 DEF FlushedControl
<1> HIDE DEF n
<1>4. d \in Control /\ d.gen = control.gen /\ d.gc = control.gc /\ d.mapping = control.mapping
      /\ d.poff = n
  BY <1>2, <1>3 DEF Control
<1>5. << >> \in Seq(Nat)
  OBVIOUS
<1> HIDE DEF d
<1>6. FlushedControl \in Control /\ FlushedControl.gen = control.gen
      /\ FlushedControl.gc = control.gc /\ FlushedControl.mapping = control.mapping
      /\ FlushedControl.poff = n
  BY <1>3, <1>4
<1> QED BY <1>1, <1>5, <1>6 DEF n

\* The types of the state but for what finalising changes.
Others ==
  /\ batch \in [Batches -> {"idle", "running"}]
  /\ waiting \in [Waiters -> Gcs \cup {None}]
  /\ duringBatch \in BOOLEAN
  /\ gen \in [Gcs -> Gens] /\ target \in [Gcs -> Nat]
  /\ worker \in [Gcs -> Stages \cup {"none", "exited", "killed", "died"}]
  /\ resultOk \subseteq Started
  /\ wrote \in [Batches -> SUBSET (1..appended)]
  /\ committed \subseteq 1..appended /\ appended \in 0..MaxAppends

LEMMA TypeParts ==
  ASSUME Others', Finalisable'
  PROVE  TypeOK'
BY DEF TypeOK, Others, Finalisable

LEMMA BatchStartsTypes ==
  ASSUME TypeOK, Numbered, NEW f \in Batches, BatchStarts(f)
  PROVE  TypeOK' /\ Numbered'
<1>1. worker' = worker /\ Started' = Started /\ gen' = gen
  BY DEF BatchStarts, Started
<1>2. TryFinalise(duringBatch, suffix, buf, control)
  BY DEF BatchStarts
<1>3. suffix \in Seq(Nat) /\ buf \in Seq(Nat) /\ control \in Control
      /\ control.poff <= Len(suffix)
  BY DEF TypeOK
<1>4. Finalisable' /\ control'.gen \in {control.gen} \cup {gen[g] : g \in Started}
  BY <1>1, <1>2, <1>3, TryTypes
<1>5. Others'
  BY <1>1 DEF TypeOK, Others, BatchStarts, historyVars
<1>6. Numbered'
  BY <1>1, <1>4, NumberedKeeps DEF BatchStarts
<1> QED BY <1>4, <1>5, <1>6, TypeParts

LEMMA BatchAppendsTypes ==
  ASSUME TypeOK, Numbered, NEW f \in Batches, BatchAppends(f)
  PROVE  TypeOK' /\ Numbered'
<1> USE DEF fiberVars, gcVars, fileVars
<1>1. worker' = worker /\ Started' = Started /\ gen' = gen
  BY DEF BatchAppends, Started
<1>2. suffix \in Seq(Nat) /\ buf \in Seq(Nat) /\ appended \in Nat /\ MaxAppends \in Nat
  BY ConstantsAssumption DEF TypeOK
<1>3. appended' = appended + 1 /\ appended' \in 0..MaxAppends
      /\ 1..appended \subseteq 1..appended' /\ appended' \in 1..appended'
  BY <1>2 DEF BatchAppends
<1>4. wrote' \in [Batches -> SUBSET (1..appended')] /\ committed' \subseteq 1..appended'
  BY <1>3 DEF BatchAppends, TypeOK
<1>5. Append(buf, appended') \in Seq(Nat) /\ suffix \o Append(buf, appended') \in Seq(Nat)
      /\ Len(suffix) <= Len(suffix \o Append(buf, appended'))
  BY <1>2, <1>3
<1>6. suffix' \in Seq(Nat) /\ buf' \in Seq(Nat) /\ Len(suffix) <= Len(suffix')
      /\ Len(suffix) \in Nat /\ Len(suffix') \in Nat
  <2> DEFINE a == Append(buf, appended')
             s == suffix \o a
  <2>1. a \in Seq(Nat) /\ s \in Seq(Nat) /\ Len(suffix) <= Len(s)
    BY <1>5
  <2>2. (buf' = a /\ suffix' = suffix) \/ (suffix' = s /\ buf' = << >>)
    BY DEF BatchAppends
  <2>3. << >> \in Seq(Nat)
    OBVIOUS
  <2>4. Len(suffix) \in Nat /\ Len(s) \in Nat
    BY <1>2, <2>1
  <2> HIDE DEF a, s
  <2>5. CASE buf' = a /\ suffix' = suffix
    BY <1>2, <2>1, <2>4, <2>5
  <2>6. CASE suffix' = s /\ buf' = << >>
    BY <2>1, <2>3, <2>4, <2>6
  <2> QED BY <2>2, <2>5, <2>6
<1>7. control \in Control /\ control.poff <= Len(suffix) /\ control.poff \in Nat
  BY DEF TypeOK, Control
<1>8. Others'
  BY <1>1, <1>3, <1>4 DEF BatchAppends, TypeOK, Others
<1>9. Finalisable'
  BY SMTT(30), <1>1, <1>6, <1>7 DEF BatchAppends, TypeOK, Finalisable
<1>10. Numbered'
  BY <1>1, NumberedKeeps DEF BatchAppends
<1> QED BY <1>8, <1>9, <1>10, TypeParts

\* A batch ends: its entries go to the committed ones, or are dropped.
LEMMA BatchEndsOthers ==
  ASSUME TypeOK, NEW f \in Batches,
         batch' = [batch EXCEPT ![f] = "idle"], duringBatch' = FALSE,
         wrote' = [wrote EXCEPT ![f] = {}], committed' \in {committed, committed \cup wrote[f]},
         UNCHANGED <<waiting, gen, target, worker, resultOk, appended>>
  PROVE  Others'
<1>1. Started' = Started
  BY DEF Started
<1>2. wrote[f] \subseteq 1..appended
  BY DEF TypeOK
<1>3. wrote' \in [Batches -> SUBSET (1..appended)] /\ committed' \subseteq 1..appended
  BY <1>2 DEF TypeOK
<1> QED BY <1>1, <1>3 DEF TypeOK, Others

LEMMA BatchSucceedsTypes ==
  ASSUME TypeOK, Numbered, NEW f \in Batches, BatchSucceeds(f)
  PROVE  TypeOK' /\ Numbered'
<1>1. worker' = worker /\ Started' = Started /\ gen' = gen
  BY DEF BatchSucceeds, Started
<1>2. TryFinalise(FALSE, Flushed, << >>, FlushedControl)
  BY DEF BatchSucceeds
<1>3. Finalisable' /\ control'.gen \in {control.gen} \cup {gen[g] : g \in Started}
  <2> DEFINE s == Flushed
             c == FlushedControl
             b == << >>
  <2>1. s \in Seq(Nat) /\ b \in Seq(Nat) /\ c \in Control /\ c.gen = control.gen
        /\ c.poff = Len(s) /\ Len(s) \in Nat
    BY FlushedTypes
  <2>2. TryFinalise(FALSE, s, b, c)
    BY <1>2
  <2> HIDE DEF s, c, b
  <2>3. c.poff <= Len(s)
    BY <2>1
  <2> QED BY <1>1, <2>1, <2>2, <2>3, TryTypes
<1>4. Others'
  BY BatchEndsOthers DEF BatchSucceeds
<1>5. Numbered'
  BY <1>1, <1>3, NumberedKeeps DEF BatchSucceeds
<1> QED BY <1>3, <1>4, <1>5, TypeParts

LEMMA BatchFailsTypes ==
  ASSUME TypeOK, Numbered, NEW f \in Batches, BatchFails(f)
  PROVE  TypeOK' /\ Numbered'
<1> USE DEF gcVars
<1>1. worker' = worker /\ Started' = Started /\ gen' = gen
  BY DEF BatchFails, Started
<1>2. /\ suffix' \in Seq(Nat) /\ buf' \in Seq(Nat) /\ control' \in Control
      /\ control'.gen = control.gen /\ control'.poff = Len(suffix')
      /\ Len(suffix') \in Nat
  BY FlushedTypes DEF BatchFails
<1>3. Finalisable'
  BY <1>1, <1>2 DEF BatchFails, TypeOK, Finalisable
<1>4. Others'
  BY BatchEndsOthers DEF BatchFails
<1>5. Numbered'
  BY <1>1, <1>2, NumberedKeeps DEF BatchFails
<1> QED BY <1>3, <1>4, <1>5, TypeParts

LEMMA SplitTypes ==
  ASSUME TypeOK, Numbered, Split
  PROVE  TypeOK' /\ Numbered' /\ control'.gen = control.gen /\ control'.poff = Len(suffix)
<1> USE DEF fiberVars, gcVars, dataVars, historyVars
<1>1. worker' = worker /\ Started' = Started /\ gen' = gen
  BY DEF Split, Started
<1> DEFINE n == Len(suffix)
           m == control.chunks + 1
<1>2. n \in Nat /\ m \in Nat
  BY DEF TypeOK, Control
<1>3. control' = [control EXCEPT !.chunks = m, !.poff = n]
  BY DEF Split
<1>4. control \in Control
  BY DEF TypeOK
<1> HIDE DEF n, m
<1>5. control' \in Control /\ control'.gen = control.gen /\ control'.poff = n
  BY <1>2, <1>3, <1>4 DEF Control
<1>6. Others'
  BY <1>1 DEF Split, TypeOK, Others
<1>7. Finalisable'
  BY <1>1, <1>2, <1>5 DEF Split, TypeOK, Finalisable, n
<1>8. Numbered'
  BY <1>1, <1>5, NumberedKeeps DEF Split
<1> QED BY <1>5, <1>6, <1>7, <1>8, TypeParts DEF n

LEMMA StartGcTypes ==
  ASSUME TypeOK, Numbered, StartGc
  PROVE  TypeOK' /\ Numbered'
<1> USE DEF fiberVars, dataVars, historyVars
<1> DEFINE g == Cardinality(Started) + 1
           n == control.gen + 1
<1>1. PICK k \in Gens :
        /\ Started = 1..k /\ control.gen <= k
        /\ \A h \in 1..k : gen[h] \in 1..h
        /\ \A w \in Waiters : waiting[w] \in 0..k
  BY DEF Numbered
<1>2. k \in Nat /\ MaxGcs \in Nat /\ g = k + 1
  <2>1. k \in Nat /\ MaxGcs \in Nat
    BY <1>1, ConstantsAssumption DEF Gens
  <2>2. Cardinality(1..k) = k
    BY <2>1, FS_Interval
  <2> QED BY <1>1, <2>1, <2>2
<1>3. g \in Gcs /\ running' = g
  BY DEF StartGc
<1>4. control.gen \in Nat /\ control.poff \in Nat
  BY DEF TypeOK, Control, Gens
<1>5. n \in Gens /\ n \in 1..g
  BY <1>1, <1>2, <1>3, <1>4 DEF Gens, Gcs
<1>6. /\ gen' = [gen EXCEPT ![g] = n] /\ target' = [target EXCEPT ![g] = control.poff]
      /\ worker' = [worker EXCEPT ![g] = "forked"]
      /\ task' = [task EXCEPT ![g] = "running"]
      /\ result' = [result EXCEPT ![n] = None]
      /\ control' = control
      /\ UNCHANGED <<fiberVars, reaped, callback, outcome, prefix, resultOk, dataVars,
                     historyVars>>
  BY DEF StartGc
<1> HIDE DEF g, n
<1>7. Started' = Started \cup {g}
  BY <1>3, <1>6 DEF Started, TypeOK
<1>8. Others'
  BY <1>3, <1>4, <1>5, <1>6, <1>7 DEF Others, TypeOK, Stages
<1>9. Finalisable'
  BY <1>3, <1>6, <1>7 DEF Finalisable, TypeOK
<1>10. Numbered'
  <2>1. g \in Gens /\ Started' = 1..g /\ control'.gen <= g
    BY <1>1, <1>2, <1>3, <1>4, <1>6, <1>7 DEF Gens, Gcs
  <2>2. \A h \in 1..g : gen'[h] \in 1..h
    BY <1>1, <1>2, <1>3, <1>5, <1>6 DEF TypeOK, Gcs
  <2>3. \A w \in Waiters : waiting'[w] \in 0..g
    BY <1>1, <1>2, <1>6
  <2> QED BY <2>1, <2>2, <2>3 DEF Numbered
<1> QED BY <1>8, <1>9, <1>10, TypeParts

\* Nothing but the fibers and the collection that runs changes.
LEMMA FinaliseInBatchTypes ==
  ASSUME TypeOK, Numbered, FinaliseInBatch
  PROVE  TypeOK' /\ Numbered'
<1> USE DEF fiberVars, fileVars, dataVars, historyVars
<1>1. Started' = Started /\ Others' /\ Finalisable'
  BY DEF FinaliseInBatch, TypeOK, Others, Finalisable, Started
<1>2. Numbered'
  BY <1>1, NumberedKeeps DEF FinaliseInBatch
<1> QED BY <1>1, <1>2, TypeParts

LEMMA WaitStartsTypes ==
  ASSUME TypeOK, Numbered, NEW w \in Waiters, WaitStarts(w)
  PROVE  TypeOK' /\ Numbered'
<1> USE DEF gcVars, fileVars, dataVars, historyVars
<1>1. Started' = Started /\ Finalisable'
  BY DEF WaitStarts, TypeOK, Finalisable, Started
<1>2. running \in Gcs
  BY DEF TypeOK, Started, WaitStarts
<1>3. Others'
  BY <1>1, <1>2 DEF WaitStarts, TypeOK, Others
<1>4. \A v \in Waiters : waiting'[v] \in {waiting[v], None, running}
  BY DEF WaitStarts, TypeOK
<1>5. Numbered'
  BY <1>1, <1>4, NumberedKeeps DEF WaitStarts
<1> QED BY <1>1, <1>3, <1>5, TypeParts

LEMMA WaitEndsTypes ==
  ASSUME TypeOK, Numbered, NEW w \in Waiters, WaitEnds(w)
  PROVE  TypeOK' /\ Numbered'
<1> DEFINE g == waiting[w]
<1>1. g \in Started
  BY DEF Numbered, WaitEnds, None
<1>2. Started' = Started /\ worker' = worker /\ gen' = gen
  BY DEF WaitEnds, Started
<1>3. Others'
  BY <1>2 DEF WaitEnds, TypeOK, Others, None
<1>4. suffix \in Seq(Nat) /\ buf \in Seq(Nat) /\ control \in Control
      /\ control.poff <= Len(suffix) /\ gen[g] \in Gens /\ target[g] \in Nat
  BY <1>1, StartedGens DEF TypeOK
<1>5. Finalisable' /\ control'.gen \in {control.gen} \cup {gen[h] : h \in Started}
  <2>1. CASE Reaped(g) /\ Finalised(g, ExitStatus(g), suffix, buf, control)
    BY <1>1, <1>2, <1>4, <2>1, TypesFinalisable, FinalisedTypes
  <2>2. CASE UNCHANGED <<running, task, reaped, callback, outcome, prefix, result,
                         control, dataVars>>
    BY <1>2, <2>2 DEF TypeOK, Finalisable, dataVars
  <2> QED BY <2>1, <2>2 DEF WaitEnds
<1>6. \A v \in Waiters : waiting'[v] \in {waiting[v], None, running}
  BY DEF WaitEnds, TypeOK
<1>7. Numbered'
  BY <1>2, <1>5, <1>6, NumberedKeeps
<1> QED BY <1>3, <1>5, <1>7, TypeParts

LEMMA CancelRunningTypes ==
  ASSUME TypeOK, Numbered, CancelRunning
  PROVE  TypeOK' /\ Numbered'
<1> USE DEF fiberVars, dataVars, historyVars
<1>1. running \in Started /\ running \in Gcs
  BY DEF TypeOK, Started, CancelRunning
<1>2. Started' = Started
  BY <1>1 DEF CancelRunning, TypeOK, Started
<1>3. prefix' \in [Gens -> Gcs \cup {None}] /\ result' \in [Gens -> Gcs \cup {None}]
  BY TypesFinalisable, CleanedTypes DEF CancelRunning
<1>4. Finalisable'
  BY <1>1, <1>2, <1>3 DEF CancelRunning, TypeOK, Finalisable
<1>5. Others'
  BY <1>1, <1>2 DEF CancelRunning, TypeOK, Others
<1>6. Numbered'
  BY <1>2, NumberedKeeps DEF CancelRunning
<1> QED BY <1>4, <1>5, <1>6, TypeParts

LEMMA CancelExitedTypes ==
  ASSUME TypeOK, Numbered, CancelExited
  PROVE  TypeOK' /\ Numbered'
<1> USE DEF fiberVars, fileVars, dataVars, historyVars
<1>1. running \in Started
  BY DEF TypeOK, CancelExited
<1>2. Started' = Started /\ Others' /\ Finalisable'
  BY <1>1 DEF CancelExited, TypeOK, Others, Finalisable, Started
<1>3. Numbered'
  BY <1>2, NumberedKeeps DEF CancelExited
<1> QED BY <1>2, <1>3, TypeParts

\* A worker goes on: at most its prefix, its result and its own state change.
LEMMA WorkerTypes ==
  ASSUME TypeOK, Numbered, NEW g \in Gcs, WorkerStep(g) \/ WorkerDies(g)
  PROVE  TypeOK' /\ Numbered'
<1> USE DEF fiberVars, gcVars, fileVars, dataVars, historyVars
<1>1. /\ worker[g] \in Stages
      /\ \E x \in Stages \cup {"exited", "died"} : worker' = [worker EXCEPT ![g] = x]
      /\ prefix' \in {prefix, [prefix EXCEPT ![gen[g]] = g]}
      /\ result' \in {result, [result EXCEPT ![gen[g]] = g]}
      /\ resultOk' \in {resultOk, resultOk \cup {g}}
      /\ UNCHANGED <<fiberVars, gcVars, control, dataVars, historyVars>>
  <2>1. CASE WorkerCreates(g)
    BY <2>1 DEF WorkerCreates, Stages
  <2>2. CASE WorkerFills(g)
    BY <2>2 DEF WorkerFills, Stages
  <2>3. CASE WorkerReports(g)
    BY <2>3 DEF WorkerReports, Stages
  <2>4. CASE WorkerExits(g)
    BY <2>4 DEF WorkerExits, Stages
  <2>5. CASE WorkerDies(g)
    BY <2>5 DEF WorkerDies, Alive, Stages
  <2> QED BY <2>1, <2>2, <2>3, <2>4, <2>5 DEF WorkerStep
<1>2. g \in Started /\ Started' = Started
  BY <1>1 DEF TypeOK, Started, Stages
<1>3. gen[g] \in Gens
  BY <1>2, StartedGens
<1>4. /\ worker' \in [Gcs -> Stages \cup {"none", "exited", "killed", "died"}]
      /\ prefix' \in [Gens -> Gcs \cup {None}] /\ result' \in [Gens -> Gcs \cup {None}]
      /\ resultOk' \subseteq Started
  <2>1. worker' \in [Gcs -> Stages \cup {"none", "exited", "killed", "died"}]
    BY <1>1 DEF TypeOK
  <2>2. prefix' \in [Gens -> Gcs \cup {None}]
    BY <1>1, <1>3 DEF TypeOK
  <2>3. result' \in [Gens -> Gcs \cup {None}]
    BY <1>1, <1>3 DEF TypeOK
  <2>4. resultOk' \subseteq Started
    BY <1>1, <1>2 DEF TypeOK
  <2> QED BY <2>1, <2>2, <2>3, <2>4
<1>5. Finalisable' /\ Others'
  BY <1>1, <1>2, <1>4 DEF TypeOK, Others, Finalisable
<1>6. Numbered'
  BY <1>1, <1>2, NumberedKeeps
<1> QED BY <1>5, <1>6, TypeParts

LEMMA MainKilledTypes ==
  ASSUME TypeOK, Numbered, MainKilled
  PROVE  TypeOK' /\ Numbered'
<1>1. Started' = Started
  BY DEF MainKilled, Started
<1>2. prefix' \in [Gens -> Gcs \cup {None}] /\ result' \in [Gens -> Gcs \cup {None}]
  BY TypesFinalisable, CleanedTypes DEF MainKilled
<1>3. control \in Control /\ control.poff \in Nat /\ control.gen \in Gens
      /\ control.poff <= Len(suffix)
  BY DEF TypeOK, Control
<1>4. suffix' \in Seq(Nat) /\ buf' \in Seq(Nat) /\ control'.poff <= Len(suffix')
  <2> DEFINE s == SubSeq(suffix, 1, control.poff)
  <2>1. s \in Seq(Nat) /\ Len(s) = control.poff
    BY <1>3, FirstOnes DEF TypeOK
  <2>2. suffix' = s /\ buf' = << >> /\ control' = control
    BY DEF MainKilled
  <2> HIDE DEF s
  <2> QED BY <1>3, <2>1, <2>2
<1>5. Finalisable'
  BY <1>1, <1>2, <1>3, <1>4 DEF MainKilled, TypeOK, Finalisable
<1>6. Others'
  BY <1>1 DEF MainKilled, TypeOK, Others
<1>7. Numbered'
  BY <1>1, NumberedKeeps DEF MainKilled
<1> QED BY <1>5, <1>6, <1>7, TypeParts

LEMMA TypesNext ==
  ASSUME TypeOK, Numbered, [Next]_vars
  PROVE  TypeOK' /\ Numbered'
<1>1. CASE UNCHANGED vars
  BY <1>1 DEF vars, fiberVars, gcVars, fileVars, dataVars, historyVars, TypeOK, Numbered,
              Started
<1> QED BY <1>1, BatchStartsTypes, BatchAppendsTypes, BatchSucceedsTypes, BatchFailsTypes,
           SplitTypes, StartGcTypes, FinaliseInBatchTypes, WaitStartsTypes, WaitEndsTypes,
           CancelRunningTypes, CancelExitedTypes, WorkerTypes, MainKilledTypes DEF Next

LEMMA TypesInit ==
  ASSUME Init
  PROVE  TypeOK /\ Numbered
<1>1. Started = {} /\ Started = 1..0 /\ 0 \in Gens
  BY ConstantsAssumption DEF Init, Started, Gens
<1>2. control \in Control /\ control.gen = 0 /\ control.poff = 0
  BY <1>1 DEF Init, Control, None
<1>3. << >> \in Seq(Nat) /\ Len(suffix) = 0
  BY DEF Init
<1>4. TypeOK
  <2>1. batch \in [Batches -> {"idle", "running"}] /\ waiting \in [Waiters -> Gcs \cup {None}]
        /\ wrote \in [Batches -> SUBSET (1..appended)] /\ appended \in 0..MaxAppends
        /\ committed \subseteq 1..appended
    BY ConstantsAssumption DEF Init
  <2>2. gen \in [Gcs -> Gens] /\ target \in [Gcs -> Nat] /\ prefix \in [Gens -> Gcs \cup {None}]
        /\ result \in [Gens -> Gcs \cup {None}] /\ prefixGen \in Gens
        /\ suffix \in Seq(Nat) /\ buf \in Seq(Nat) /\ control.poff <= Len(suffix)
    BY <1>1, <1>2, <1>3 DEF Init
  <2>3. /\ task \in [Gcs -> {"none", "running", "success", "failure", "cancelled"}]
        /\ outcome \in [Gcs -> {"none", "finalised", "error", "cancelled"}]
        /\ worker \in [Gcs -> Stages \cup {"none", "exited", "killed", "died"}]
        /\ reaped \subseteq Started /\ callback \subseteq Started
        /\ resultOk \subseteq Started /\ running \in Started \cup {None}
        /\ duringBatch \in BOOLEAN
    BY DEF Init
  <2> QED BY <1>2, <2>1, <2>2, <2>3 DEF TypeOK
<1>5. Numbered
  BY <1>1, <1>2 DEF Init, Numbered, None
<1> QED BY <1>4, <1>5

LEMMA SpecTypes == Spec => [](TypeOK /\ Numbered)
BY TypesInit, TypesNext, PTL DEF Spec
-----------------------------------------------------------------------------
(* Batches, without "overlap". *)

\* The steps that are not of a batch leave the batches alone.
LEMMA BatchesAlone ==
  ASSUME Next,
         ~ \E f \in Batches : BatchStarts(f) \/ BatchAppends(f) \/ BatchSucceeds(f) \/ BatchFails(f),
         ~ MainKilled
  PROVE  UNCHANGED <<batch, duringBatch, wrote, committed, appended>>
<1> USE DEF fiberVars, historyVars
<1>1. CASE Split \/ StartGc \/ FinaliseInBatch \/ CancelRunning \/ CancelExited
  BY <1>1 DEF Split, StartGc, FinaliseInBatch, CancelRunning, CancelExited
<1>2. CASE \E w \in Waiters : WaitStarts(w) \/ WaitEnds(w)
  BY <1>2 DEF WaitStarts, WaitEnds
<1>3. CASE \E g \in Gcs : WorkerStep(g) \/ WorkerDies(g)
  BY <1>3 DEF WorkerStep, WorkerCreates, WorkerFills, WorkerReports, WorkerExits, WorkerDies
<1> QED BY <1>1, <1>2, <1>3 DEF Next

LEMMA OneBatchNext ==
  ASSUME Never({"overlap"}), TypeOK, OneBatch, [Next]_vars
  PROVE  OneBatch'
<1>1. CASE UNCHANGED <<batch, duringBatch, wrote>>
  BY <1>1 DEF OneBatch
<1>2. ASSUME NEW f \in Batches, BatchStarts(f) PROVE OneBatch'
  <2>1. (\A e \in Batches : batch[e] = "idle") /\ wrote' = wrote
    BY <1>2 DEF Never, BatchStarts, historyVars
  <2>2. CASE UNCHANGED <<batch, duringBatch>>
    BY <2>1, <2>2, <1>1
  <2>3. CASE batch' = [batch EXCEPT ![f] = "running"] /\ duringBatch' = TRUE
    BY <2>1, <2>3 DEF OneBatch, TypeOK
  <2> QED BY <1>2, <2>2, <2>3 DEF BatchStarts
<1>3. ASSUME NEW f \in Batches, BatchAppends(f) PROVE OneBatch'
  BY <1>3 DEF BatchAppends, fiberVars, OneBatch, TypeOK
<1>4. ASSUME NEW f \in Batches, BatchSucceeds(f) \/ BatchFails(f) PROVE OneBatch'
  <2>1. batch[f] = "running" /\ batch' = [batch EXCEPT ![f] = "idle"] /\ duringBatch' = FALSE
        /\ wrote' = [wrote EXCEPT ![f] = {}]
    BY <1>4 DEF BatchSucceeds, BatchFails
  <2> QED BY <2>1 DEF OneBatch, TypeOK
<1>5. CASE MainKilled
  BY <1>5 DEF MainKilled, OneBatch
<1> QED BY <1>1, <1>2, <1>3, <1>4, <1>5, BatchesAlone DEF vars, fiberVars, historyVars

LEMMA SpecOneBatch ==
  ASSUME Never({"overlap"})
  PROVE  Spec => [](TypeOK /\ Numbered /\ OneBatch)
<1>1. Init => OneBatch
  BY DEF Init, OneBatch
<1>2. TypeOK /\ OneBatch /\ [Next]_vars => OneBatch'
  BY OneBatchNext
<1> QED BY <1>1, <1>2, SpecTypes, PTL DEF Spec

\* What a step does that may finalise the collection that runs, but does not
\* forget it, when the suffix is s, its buffer b and the control file c.
StoreStep(s, b, c) ==
  \/ /\ suffix' = s /\ buf' = b /\ control' = c
     /\ UNCHANGED <<running, task, reaped, callback, outcome, prefix, result, prefixGen>>
  \/ /\ running # None /\ ~Alive(running)
     /\ Reaped(running)
     /\ Finalised(running, ExitStatus(running), s, b, c)

LEMMA BatchStartsStep ==
  ASSUME Never({"overlap"}), OneBatch, NEW f \in Batches, BatchStarts(f)
  PROVE  /\ ~duringBatch /\ \A e \in Batches : wrote[e] = {}
         /\ "batchInWait" \notin Allowed => \A w \in Waiters : waiting[w] = None
         /\ StoreStep(suffix, buf, control)
         /\ UNCHANGED <<waiting, gen, target, worker, resultOk, historyVars>>
<1>1. \A e \in Batches : batch[e] = "idle"
  BY DEF Never, BatchStarts
<1>2. ~duringBatch /\ \A e \in Batches : wrote[e] = {}
  BY <1>1 DEF OneBatch
<1>3. StoreStep(suffix, buf, control)
  BY <1>2 DEF BatchStarts, TryFinalise, StoreStep
<1> QED BY <1>2, <1>3 DEF BatchStarts

LEMMA BatchSucceedsStep ==
  ASSUME OneBatch, NEW f \in Batches, BatchSucceeds(f)
  PROVE  /\ duringBatch
         /\ StoreStep(Flushed, << >>, FlushedControl)
         /\ UNCHANGED <<waiting, gen, target, worker, resultOk>>
BY DEF BatchSucceeds, TryFinalise, StoreStep, OneBatch

\* The fiber that waited goes on: it finalises the collection that runs, or
\* finds it reaped.
LEMMA WaitEndsStep ==
  ASSUME Waited, NEW w \in Waiters, WaitEnds(w)
  PROVE  /\ StoreStep(suffix, buf, control)
         /\ waiting[w] # None /\ waiting' = [waiting EXCEPT ![w] = None]
         /\ UNCHANGED <<batch, duringBatch, gen, target, worker, resultOk, historyVars>>
<1>1. waiting[w] # None /\ ~Alive(waiting[w])
  BY DEF WaitEnds
<1>2. waiting[w] \notin reaped => waiting[w] = running
  BY <1>1 DEF Waited
<1>3. StoreStep(suffix, buf, control)
  BY <1>1, <1>2 DEF WaitEnds, StoreStep, dataVars
<1> QED BY <1>1, <1>3 DEF WaitEnds, historyVars
-----------------------------------------------------------------------------
(* The entries of batches, without "overlap" and "batchInWait". *)

\* On a store that is flushed, finalising or not leaves the entries alone: the
\* swap reopens the suffix at its full length.
LEMMA FinalisedFlat ==
  ASSUME NEW s \in Seq(Nat), NEW c \in Control, c.poff = Len(s), NEW g, NEW status,
         Finalised(g, status, s, << >>, c)
  PROVE  suffix' = s /\ buf' = << >> /\ control'.poff = c.poff
<1>1. SubSeq(s, 1, c.poff) = s
  OBVIOUS
<1>2. CASE SwapDone(g, s, << >>, c)
  <2> DEFINE n == gen[g]
             m == result[n]
             t == target[g]
  <2>1. control' = [c EXCEPT !.gen = n, !.gc = g, !.mapping = m, !.target = t]
        /\ suffix' = SubSeq(s, 1, c.poff) /\ buf' = << >>
    BY <1>2 DEF SwapDone
  <2> HIDE DEF n, m, t
  <2>2. control'.poff = c.poff
    BY <2>1 DEF Control
  <2> QED BY <1>1, <2>1, <2>2
<1>3. CASE Aborted(g, s, << >>, c) \/ SwapWithoutPrefix(g, s, << >>, c)
  BY <1>3 DEF Aborted, SwapWithoutPrefix
<1>4. ~SwapPendingFlush(g, s, << >>, c)
  BY DEF SwapPendingFlush
<1> QED BY <1>2, <1>3, <1>4 DEF Finalised

LEMMA StoreStepFlat ==
  ASSUME NEW s \in Seq(Nat), NEW c \in Control, c.poff = Len(s),
         StoreStep(s, << >>, c)
  PROVE  suffix' = s /\ buf' = << >> /\ control'.poff = c.poff
BY FinalisedFlat DEF StoreStep

\* Nobody waits for a collection during a batch.
LEMMA NobodyWaits ==
  ASSUME Never({"overlap", "batchInWait"}), TypeOK, OneBatch, Flat, [Next]_vars
  PROVE  duringBatch' => \A w \in Waiters : waiting'[w] = None
<1>1. CASE waiting' = waiting /\ (duringBatch' => duringBatch)
  BY <1>1 DEF Flat
<1>2. ASSUME NEW f \in Batches, BatchStarts(f)
      PROVE  \A w \in Waiters : waiting'[w] = None
  BY <1>2 DEF Never, BatchStarts
<1>3. ASSUME NEW w \in Waiters, WaitStarts(w)
      PROVE  ~duringBatch'
  BY <1>3 DEF WaitStarts, TypeOK
<1>4. ASSUME NEW w \in Waiters, WaitEnds(w)
      PROVE  ~duringBatch'
  BY <1>4 DEF WaitEnds, Flat
<1>5. CASE MainKilled
  BY <1>5 DEF MainKilled
<1>6. ASSUME NEW f \in Batches, BatchAppends(f) \/ BatchSucceeds(f) \/ BatchFails(f)
      PROVE  waiting' = waiting /\ (duringBatch' => duringBatch)
  <2>1. CASE BatchAppends(f)
    BY <2>1 DEF BatchAppends, fiberVars
  <2>2. CASE BatchSucceeds(f)
    BY <2>2 DEF BatchSucceeds
  <2>3. CASE BatchFails(f)
    BY <2>3 DEF BatchFails
  <2> QED BY <1>6, <2>1, <2>2, <2>3
<1>7. CASE Split \/ StartGc \/ FinaliseInBatch \/ CancelRunning \/ CancelExited
  BY <1>1, <1>7 DEF Split, StartGc, FinaliseInBatch, CancelRunning, CancelExited, fiberVars
<1>8. ASSUME NEW g \in Gcs, WorkerStep(g) \/ WorkerDies(g)
      PROVE  waiting' = waiting /\ (duringBatch' => duringBatch)
  BY <1>8 DEF WorkerStep, WorkerCreates, WorkerFills, WorkerReports, WorkerExits, WorkerDies,
              fiberVars
<1>9. CASE UNCHANGED vars
  BY <1>1, <1>9 DEF vars, fiberVars
<1> QED BY <1>1, <1>2, <1>3, <1>4, <1>5, <1>6, <1>7, <1>8, <1>9 DEF Next

\* The entries the control file covers.
Covered == {suffix[i] : i \in 1..control.poff}

\* Batches and their entries: one at a time, on a store that is flushed.
Kept == Flat /\ Written /\ CommittedKept

LEMMA KeptBatchStarts ==
  ASSUME Never({"overlap", "batchInWait"}), TypeOK, OneBatch, Kept,
         NEW f \in Batches, BatchStarts(f)
  PROVE  (buf' = << >> /\ control'.poff = Len(suffix')) /\ Written' /\ CommittedKept'
<1>1. /\ ~duringBatch /\ \A e \in Batches : wrote[e] = {}
      /\ StoreStep(suffix, buf, control) /\ UNCHANGED historyVars
  BY BatchStartsStep DEF Never
<1>2. buf = << >> /\ control.poff = Len(suffix) /\ control \in Control /\ suffix \in Seq(Nat)
  BY <1>1 DEF Kept, Flat, TypeOK
<1>3. suffix' = suffix /\ buf' = << >> /\ control'.poff = control.poff
  BY <1>1, <1>2, StoreStepFlat
<1> QED BY <1>1, <1>2, <1>3 DEF Kept, Written, CommittedKept, historyVars

LEMMA KeptWaitEnds ==
  ASSUME TypeOK, OneBatch, Kept, NEW w \in Waiters, WaitEnds(w)
  PROVE  (buf' = << >> /\ control'.poff = Len(suffix')) /\ Written' /\ CommittedKept'
<1>1. ~duringBatch /\ UNCHANGED historyVars
  BY DEF Kept, Flat, WaitEnds, historyVars
<1>2. \A e \in Batches : wrote[e] = {}
  BY <1>1 DEF OneBatch, TypeOK
<1>3. buf = << >> /\ control.poff = Len(suffix) /\ control \in Control /\ suffix \in Seq(Nat)
  BY <1>1 DEF Kept, Flat, TypeOK
<1>4. suffix' = suffix /\ buf' = << >> /\ control'.poff = control.poff
  <2> DEFINE g == waiting[w]
  <2>1. CASE Finalised(g, ExitStatus(g), suffix, buf, control)
    BY <1>3, <2>1, FinalisedFlat
  <2>2. CASE UNCHANGED <<control, dataVars>>
    BY <1>3, <2>2 DEF dataVars
  <2> QED BY <2>1, <2>2 DEF WaitEnds
<1> QED BY <1>1, <1>2, <1>3, <1>4 DEF Kept, Written, CommittedKept, historyVars

\* A batch ends: what was in the buffer is in the suffix, all of it covered.
LEMMA KeptEnds ==
  ASSUME TypeOK, OneBatch, Kept, NEW f \in Batches, batch[f] = "running",
         suffix' = Flushed, control'.poff = Len(Flushed),
         wrote' = [wrote EXCEPT ![f] = {}], committed' \in {committed, committed \cup wrote[f]}
  PROVE  Written' /\ CommittedKept'
<1>1. \A e \in Batches : wrote'[e] = {}
  BY DEF OneBatch, TypeOK
<1>2. suffix \in Seq(Nat) /\ buf \in Seq(Nat) /\ Len(suffix) \in Nat /\ Len(buf) \in Nat
      /\ control.poff \in Nat /\ control.poff <= Len(suffix)
  BY DEF TypeOK, Control
<1>3. /\ Len(Flushed) = Len(suffix) + Len(buf)
      /\ \A i \in 1..Len(suffix) : Flushed[i] = suffix[i]
      /\ \A i \in 1..Len(buf) : Flushed[Len(suffix) + i] = buf[i]
  BY <1>2 DEF Flushed
<1>4. \A x \in committed : \E i \in 1..Len(Flushed) : Flushed[i] = x
  <2> TAKE x \in committed
  <2>1. PICK i \in 1..control.poff : suffix[i] = x
    BY DEF Kept, CommittedKept
  <2>2. i \in 1..Len(suffix)
    BY <1>2, <2>1
  <2>3. i \in 1..Len(Flushed)
    BY <1>2, <1>3, <2>2
  <2> QED BY <1>3, <2>1, <2>2, <2>3
<1>5. \A x \in wrote[f] : \E i \in 1..Len(Flushed) : Flushed[i] = x
  <2> TAKE x \in wrote[f]
  <2>1. CASE \E i \in 1..Len(suffix) : suffix[i] = x
    <3>1. PICK i \in 1..Len(suffix) : suffix[i] = x
      BY <2>1
    <3>2. i \in 1..Len(Flushed) /\ Flushed[i] = x
      BY <1>2, <1>3, <3>1
    <3> QED BY <3>2
  <2>2. CASE \E i \in 1..Len(buf) : buf[i] = x
    <3>1. PICK i \in 1..Len(buf) : buf[i] = x
      BY <2>2
    <3>2. Len(suffix) + i \in 1..Len(Flushed) /\ Flushed[Len(suffix) + i] = x
      BY <1>2, <1>3, <3>1
    <3> QED BY <3>2
  <2> QED BY <2>1, <2>2 DEF Kept, Written
<1>6. CommittedKept'
  BY <1>4, <1>5 DEF CommittedKept
<1> QED BY <1>1, <1>6 DEF Written

LEMMA KeptBatchSucceeds ==
  ASSUME TypeOK, OneBatch, Kept, NEW f \in Batches, BatchSucceeds(f)
  PROVE  (buf' = << >> /\ control'.poff = Len(suffix')) /\ Written' /\ CommittedKept'
<1>1. StoreStep(Flushed, << >>, FlushedControl)
  BY BatchSucceedsStep
<1>2. Flushed \in Seq(Nat) /\ FlushedControl \in Control /\ FlushedControl.poff = Len(Flushed)
  BY FlushedTypes
<1>3. suffix' = Flushed /\ buf' = << >> /\ control'.poff = Len(Flushed)
  BY <1>1, <1>2, StoreStepFlat
<1>4. batch[f] = "running" /\ wrote' = [wrote EXCEPT ![f] = {}]
      /\ committed' \in {committed, committed \cup wrote[f]}
  BY DEF BatchSucceeds
<1> QED BY <1>3, <1>4, KeptEnds

LEMMA KeptBatchFails ==
  ASSUME TypeOK, OneBatch, Kept, NEW f \in Batches, BatchFails(f)
  PROVE  (buf' = << >> /\ control'.poff = Len(suffix')) /\ Written' /\ CommittedKept'
<1>1. suffix' = Flushed /\ buf' = << >> /\ control'.poff = Len(Flushed)
  BY FlushedTypes DEF BatchFails
<1>2. batch[f] = "running" /\ wrote' = [wrote EXCEPT ![f] = {}] /\ committed' = committed
  BY DEF BatchFails
<1> QED BY <1>1, <1>2, KeptEnds

LEMMA KeptBatchAppends ==
  ASSUME TypeOK, OneBatch, Kept, NEW f \in Batches, BatchAppends(f)
  PROVE  duringBatch' /\ Written' /\ CommittedKept'
<1>1. duringBatch'
  BY DEF OneBatch, BatchAppends, fiberVars
<1> DEFINE x == appended'
           a == Append(buf, x)
           s == suffix \o a
<1>2. suffix \in Seq(Nat) /\ buf \in Seq(Nat) /\ x \in Nat
  BY DEF TypeOK, BatchAppends
<1>3. Len(suffix) \in Nat /\ Len(buf) \in Nat
  BY <1>2
<1>4. /\ a \in Seq(Nat) /\ Len(a) = Len(buf) + 1 /\ a[Len(buf) + 1] = x
      /\ \A i \in 1..Len(buf) : a[i] = buf[i]
  BY <1>2
<1>5. /\ Len(s) = Len(suffix) + Len(buf) + 1 /\ s[Len(suffix) + Len(buf) + 1] = x
      /\ \A i \in 1..Len(suffix) : s[i] = suffix[i]
      /\ \A i \in 1..Len(buf) : s[Len(suffix) + i] = buf[i]
  BY <1>2, <1>3, <1>4
<1>6. /\ wrote' = [wrote EXCEPT ![f] = @ \cup {x}]
      /\ control' = control /\ committed' = committed
      /\ \/ buf' = a /\ suffix' = suffix
         \/ buf' = << >> /\ suffix' = s
  BY DEF BatchAppends, fileVars
<1> HIDE DEF x, a, s
<1>7. control.poff \in Nat /\ control.poff <= Len(suffix)
  BY DEF TypeOK, Control
<1>8. \A i \in 1..control.poff : suffix'[i] = suffix[i]
  BY <1>3, <1>5, <1>6, <1>7
<1>9. CommittedKept'
  BY <1>6, <1>8 DEF Kept, CommittedKept
<1>10. \A e \in Batches : \A y \in wrote'[e] : y \in wrote[e] \/ y = x
  BY <1>6 DEF TypeOK
<1>11. CASE buf' = a /\ suffix' = suffix
  <2>1. \A i \in 1..Len(buf) : i \in 1..Len(a)
    BY <1>3, <1>4
  <2>2. Len(buf) + 1 \in 1..Len(a)
    BY <1>3, <1>4
  <2> QED BY <1>1, <1>4, <1>9, <1>10, <1>11, <2>1, <2>2 DEF Kept, Written
<1>12. CASE buf' = << >> /\ suffix' = s
  <2>1. \A i \in 1..Len(suffix) : i \in 1..Len(s)
    BY <1>3, <1>5
  <2>2. \A i \in 1..Len(buf) : Len(suffix) + i \in 1..Len(s)
    BY <1>3, <1>5
  <2>3. Len(suffix) + Len(buf) + 1 \in 1..Len(s)
    BY <1>3, <1>5
  <2>4. ASSUME NEW e \in Batches, NEW y \in wrote'[e]
        PROVE  \E i \in 1..Len(s) : s[i] = y
    <3>1. CASE y = x
      BY <1>5, <2>3, <3>1
    <3>2. CASE \E i \in 1..Len(suffix) : suffix[i] = y
      BY <1>5, <2>1, <3>2
    <3>3. CASE \E i \in 1..Len(buf) : buf[i] = y
      BY <1>5, <2>2, <3>3
    <3> QED BY <1>10, <3>1, <3>2, <3>3 DEF Kept, Written
  <2> QED BY <1>1, <1>9, <1>12, <2>4 DEF Written
<1> QED BY <1>6, <1>11, <1>12

LEMMA KeptSplit ==
  ASSUME TypeOK, Numbered, OneBatch, Kept, Split
  PROVE  (buf' = << >> /\ control'.poff = Len(suffix')) /\ Written' /\ CommittedKept'
<1> USE DEF dataVars, historyVars
<1>1. control'.poff = Len(suffix) /\ UNCHANGED <<suffix, buf, wrote, committed>> /\ buf = << >>
  BY SplitTypes DEF Split
<1>2. control.poff \in Nat /\ control.poff <= Len(suffix) /\ Len(suffix) \in Nat
  BY DEF TypeOK, Control
<1>3. \A i \in 1..control.poff : i \in 1..Len(suffix)
  BY <1>2
<1> QED BY <1>1, <1>3 DEF Kept, Written, CommittedKept

LEMMA KeptMainKilled ==
  ASSUME TypeOK, Kept, MainKilled
  PROVE  (buf' = << >> /\ control'.poff = Len(suffix')) /\ Written' /\ CommittedKept'
<1>1. control.poff \in Nat /\ control.poff <= Len(suffix) /\ suffix \in Seq(Nat)
  BY DEF TypeOK, Control
<1> DEFINE s == SubSeq(suffix, 1, control.poff)
<1>2. Len(s) = control.poff /\ \A i \in 1..control.poff : s[i] = suffix[i]
  BY <1>1, FirstOnes
<1>3. suffix' = s /\ buf' = << >> /\ control' = control /\ committed' = committed
      /\ wrote' = [f \in Batches |-> {}]
  BY DEF MainKilled
<1> HIDE DEF s
<1> QED BY <1>2, <1>3 DEF Kept, Written, CommittedKept

\* The other steps do not touch the entries.
LEMMA EntriesAlone ==
  ASSUME \/ StartGc \/ FinaliseInBatch \/ CancelRunning \/ CancelExited
         \/ \E w \in Waiters : WaitStarts(w)
         \/ \E g \in Gcs : WorkerStep(g) \/ WorkerDies(g)
         \/ UNCHANGED vars
  PROVE  UNCHANGED <<duringBatch, control, prefixGen, suffix, buf, wrote, committed>>
<1> USE DEF fiberVars, fileVars, dataVars, historyVars
<1>1. CASE StartGc \/ FinaliseInBatch \/ CancelRunning \/ CancelExited
  BY <1>1 DEF StartGc, FinaliseInBatch, CancelRunning, CancelExited
<1>2. CASE \E w \in Waiters : WaitStarts(w)
  BY <1>2 DEF WaitStarts
<1>3. CASE \E g \in Gcs : WorkerStep(g) \/ WorkerDies(g)
  BY <1>3 DEF WorkerStep, WorkerCreates, WorkerFills, WorkerReports, WorkerExits, WorkerDies
<1>4. CASE UNCHANGED vars
  BY <1>4 DEF vars
<1> QED BY <1>1, <1>2, <1>3, <1>4

LEMMA KeptNext ==
  ASSUME Never({"overlap", "batchInWait"}), TypeOK, Numbered, OneBatch, Kept, [Next]_vars
  PROVE  Kept'
<1>1. duringBatch' => \A w \in Waiters : waiting'[w] = None
  BY NobodyWaits DEF Kept
<1>2. (~duringBatch' => buf' = << >> /\ control'.poff = Len(suffix')) /\ Written' /\ CommittedKept'
  <2>1. CASE \/ StartGc \/ FinaliseInBatch \/ CancelRunning \/ CancelExited
             \/ \E w \in Waiters : WaitStarts(w)
             \/ \E g \in Gcs : WorkerStep(g) \/ WorkerDies(g)
             \/ UNCHANGED vars
    BY <2>1, EntriesAlone DEF Kept, Flat, Written, CommittedKept
  <2> QED BY <2>1, KeptBatchStarts, KeptWaitEnds, KeptBatchSucceeds, KeptBatchFails,
             KeptBatchAppends, KeptSplit, KeptMainKilled DEF Next
<1> QED BY <1>1, <1>2 DEF Kept, Flat

LEMMA SpecKept ==
  ASSUME Never({"overlap", "batchInWait"})
  PROVE  Spec => [](TypeOK /\ Numbered /\ OneBatch /\ Kept)
<1>1. Never({"overlap"})
  BY DEF Never
<1>2. Init => Kept
  BY DEF Init, Kept, Flat, Written, CommittedKept
<1>3. TypeOK /\ Numbered /\ OneBatch /\ Kept /\ [Next]_vars => Kept'
  BY KeptNext
<1> QED BY <1>1, <1>2, <1>3, SpecOneBatch, PTL DEF Spec

\* However collections end, a batch that returned has its entries in the part
\* of the suffix that the control file covers, for any number of fibers and
\* collections, when batches neither overlap nor start while a fiber waits for
\* a collection; the main process may be killed and finalise_exn called at any
\* time (Pack_unix.Maker.batch, Gc.finalise, File_manager.swap).
THEOREM CommittedKeptAlways ==
  ASSUME Never({"overlap", "batchInWait"})
  PROVE  Spec => []CommittedKept
<1>1. Kept => CommittedKept
  BY DEF Kept
<1> QED BY <1>1, SpecKept, PTL
-----------------------------------------------------------------------------
(* The collection that runs and those who wait for it. *)

\* Finalising forgets the collection, and only one whose worker ended.
LEMMA StoreStepRunning ==
  ASSUME NEW s, NEW b, NEW c, StoreStep(s, b, c)
  PROVE  \/ UNCHANGED <<running, reaped>>
         \/ /\ running # None /\ ~Alive(running)
            /\ running' = None /\ reaped' = reaped \cup {running}
BY DEF StoreStep, Reaped, Finalised

LEMMA WaitedNext ==
  ASSUME Never({"overlap", "cancelInWait"}), Never({"finaliseInBatch"}) \/ Flat,
         TypeOK, Numbered, OneBatch, Waited, [Next]_vars
  PROVE  Waited'
<1> USE DEF fiberVars, gcVars, fileVars, dataVars, historyVars
<1>1. CASE waiting' = waiting
           /\ \/ UNCHANGED <<running, reaped>>
              \/ running # None /\ running' = None /\ reaped' = reaped \cup {running}
  BY <1>1 DEF Waited
<1>2. ASSUME NEW f \in Batches, BatchStarts(f) \/ BatchSucceeds(f) PROVE Waited'
  <2>1. waiting' = waiting /\ \E s, b, c : StoreStep(s, b, c)
    BY <1>2, BatchStartsStep, BatchSucceedsStep DEF Never
  <2> QED BY <1>1, <2>1, StoreStepRunning
<1>3. ASSUME NEW f \in Batches, BatchAppends(f) \/ BatchFails(f) PROVE Waited'
  BY <1>1, <1>3 DEF BatchAppends, BatchFails
<1>4. CASE Split
  BY <1>1, <1>4 DEF Split
<1>5. CASE StartGc
  <2>1. running = None /\ running' \notin Started /\ UNCHANGED <<waiting, reaped>>
    <3> DEFINE g == Cardinality(Started) + 1
    <3>1. PICK k \in Gens : Started = 1..k
      BY DEF Numbered
    <3>2. k \in Nat
      BY <3>1, ConstantsAssumption DEF Gens
    <3>3. Cardinality(1..k) = k
      BY <3>2, FS_Interval
    <3>4. g \notin Started
      BY <3>1, <3>2, <3>3
    <3> QED BY <1>5, <3>4 DEF StartGc
  <2>2. \A w \in Waiters : waiting[w] # None => waiting[w] \in reaped
    BY <2>1 DEF Waited
  <2> QED BY <2>1, <2>2 DEF Waited, TypeOK
<1>6. CASE FinaliseInBatch
  <2>1. Never({"finaliseInBatch"}) => FALSE
    BY <1>6 DEF FinaliseInBatch, Never
  <2>2. \A w \in Waiters : waiting[w] = None
    BY <1>6, <2>1 DEF FinaliseInBatch, Flat
  <2> QED BY <1>6, <2>2 DEF FinaliseInBatch, Waited
<1>7. ASSUME NEW w \in Waiters, WaitStarts(w) PROVE Waited'
  BY <1>7 DEF WaitStarts, Waited, TypeOK
<1>8. ASSUME NEW w \in Waiters, WaitEnds(w) PROVE Waited'
  <2>1. waiting' = [waiting EXCEPT ![w] = None] /\ StoreStep(suffix, buf, control)
    BY <1>8, WaitEndsStep
  <2>2. \A v \in Waiters : waiting'[v] \in {waiting[v], None}
    BY <2>1 DEF TypeOK
  <2> QED BY <2>1, <2>2, StoreStepRunning DEF Waited
<1>9. CASE CancelRunning
  BY <1>9 DEF CancelRunning, Waited, Never
<1>10. CASE CancelExited
  BY <1>1, <1>10 DEF CancelExited
<1>11. ASSUME NEW g \in Gcs, WorkerStep(g) \/ WorkerDies(g) PROVE Waited'
  BY <1>1, <1>11 DEF WorkerStep, WorkerCreates, WorkerFills, WorkerReports, WorkerExits,
                     WorkerDies
<1>12. CASE MainKilled
  BY <1>12 DEF MainKilled, Waited
<1>13. CASE UNCHANGED vars
  BY <1>1, <1>13 DEF vars
<1> QED BY <1>2, <1>3, <1>4, <1>5, <1>6, <1>7, <1>8, <1>9, <1>10, <1>11, <1>12, <1>13 DEF Next

\* The workers live on as they are, or go on, or die; only StartGc makes one.
LEMMA WorkerGoesOn ==
  ASSUME TypeOK, NEW g \in Gcs, WorkerStep(g) \/ WorkerDies(g)
  PROVE  /\ Alive(g) /\ \A h \in Gcs \ {g} : worker'[h] = worker[h]
         /\ UNCHANGED <<fiberVars, gcVars, control, dataVars, historyVars>>
<1>1. g # None /\ worker \in [Gcs -> Stages \cup {"none", "exited", "killed", "died"}]
  BY DEF Gcs, None, TypeOK
<1>2. /\ worker[g] \in Stages
      /\ UNCHANGED <<fiberVars, gcVars, control, dataVars, historyVars>>
      /\ \E x : worker' = [worker EXCEPT ![g] = x]
  <2>1. CASE WorkerCreates(g)
    BY <2>1 DEF WorkerCreates, Stages
  <2>2. CASE WorkerFills(g)
    BY <2>2 DEF WorkerFills, Stages, fileVars
  <2>3. CASE WorkerReports(g)
    BY <2>3 DEF WorkerReports, Stages
  <2>4. CASE WorkerExits(g)
    BY <2>4 DEF WorkerExits, Stages, fileVars
  <2>5. CASE WorkerDies(g)
    BY <2>5 DEF WorkerDies, Alive, fileVars
  <2> QED BY <2>1, <2>2, <2>3, <2>4, <2>5 DEF WorkerStep
<1> QED BY <1>1, <1>2 DEF Alive

LEMMA IsFinishedHonestNext ==
  ASSUME Never({"overlap", "finaliseInBatch", "mainKilled"}),
         TypeOK, OneBatch, Waited, IsFinishedHonest, [Next]_vars
  PROVE  IsFinishedHonest'
<1> USE DEF fiberVars, gcVars, fileVars, dataVars, historyVars
<1>1. CASE UNCHANGED <<worker, running>>
  BY <1>1 DEF IsFinishedHonest, Alive
<1>2. CASE worker' = worker /\ ~Alive(running) /\ running' = None
  BY <1>2 DEF IsFinishedHonest, Alive
<1>3. ASSUME NEW f \in Batches, BatchStarts(f) \/ BatchSucceeds(f) PROVE IsFinishedHonest'
  <2>1. worker' = worker /\ \E s, b, c : StoreStep(s, b, c)
    BY <1>3, BatchStartsStep, BatchSucceedsStep DEF Never
  <2> QED BY <1>1, <1>2, <2>1, StoreStepRunning
<1>4. ASSUME NEW f \in Batches, BatchAppends(f) \/ BatchFails(f) PROVE IsFinishedHonest'
  BY <1>1, <1>4 DEF BatchAppends, BatchFails
<1>5. CASE Split
  BY <1>1, <1>5 DEF Split
<1>6. CASE StartGc
  <2>1. \A h \in Gcs : ~Alive(h)
    BY <1>6 DEF StartGc, IsFinishedHonest, Alive
  <2>2. PICK g \in Gcs : running' = g /\ worker' = [worker EXCEPT ![g] = "forked"]
    BY <1>6 DEF StartGc
  <2>3. \A h \in Gcs \ {g} : worker'[h] = worker[h]
    BY <2>2 DEF TypeOK
  <2> QED BY <2>1, <2>2, <2>3 DEF IsFinishedHonest, Alive
<1>7. ~FinaliseInBatch
  BY DEF FinaliseInBatch, Never
<1>8. ASSUME NEW w \in Waiters, WaitStarts(w) PROVE IsFinishedHonest'
  BY <1>1, <1>8 DEF WaitStarts
<1>9. ASSUME NEW w \in Waiters, WaitEnds(w) PROVE IsFinishedHonest'
  BY <1>1, <1>2, <1>9, WaitEndsStep, StoreStepRunning
<1>10. CASE CancelRunning
  <2>1. running \in Gcs /\ worker' = [worker EXCEPT ![running] = "killed"] /\ running' = None
    BY <1>10 DEF CancelRunning, TypeOK, Started
  <2>2. \A h \in Gcs : worker'[h] = IF h = running THEN "killed" ELSE worker[h]
    BY <2>1 DEF TypeOK
  <2> QED BY <2>1, <2>2 DEF IsFinishedHonest, Alive, Stages
<1>11. CASE CancelExited
  BY <1>2, <1>11 DEF CancelExited
<1>12. ASSUME NEW g \in Gcs, WorkerStep(g) \/ WorkerDies(g) PROVE IsFinishedHonest'
  <2>1. Alive(g) /\ (\A h \in Gcs \ {g} : worker'[h] = worker[h]) /\ running' = running
    BY <1>12, WorkerGoesOn
  <2> QED BY <2>1 DEF IsFinishedHonest, Alive
<1>13. ~MainKilled
  BY DEF MainKilled, Never
<1>14. CASE UNCHANGED vars
  BY <1>1, <1>14 DEF vars
<1> QED BY <1>3, <1>4, <1>5, <1>6, <1>7, <1>8, <1>9, <1>10, <1>11, <1>12, <1>13, <1>14 DEF Next

\* The repository knows the collection whose worker runs, for any number of
\* fibers and collections, as long as batches do not overlap, no collection is
\* cancelled under a fiber that waits, finalise_exn is not called during a batch
\* and the main process lives (Gc.finalise, Gc.cancel, is_finished).
THEOREM IsFinishedHonestAlways ==
  ASSUME Never({"overlap", "cancelInWait", "finaliseInBatch", "mainKilled"})
  PROVE  Spec => []IsFinishedHonest
<1>1. /\ Never({"overlap"}) /\ Never({"overlap", "cancelInWait"}) /\ Never({"finaliseInBatch"})
      /\ Never({"overlap", "finaliseInBatch", "mainKilled"})
  BY DEF Never
<1>2. Init => Waited /\ IsFinishedHonest
  BY DEF Init, Waited, IsFinishedHonest, Alive, Stages
<1>3. TypeOK /\ Numbered /\ OneBatch /\ Waited /\ [Next]_vars => Waited'
  BY <1>1, WaitedNext
<1>4. TypeOK /\ OneBatch /\ Waited /\ IsFinishedHonest /\ [Next]_vars => IsFinishedHonest'
  BY <1>1, IsFinishedHonestNext
<1> QED BY <1>1, <1>2, <1>3, <1>4, SpecOneBatch, PTL DEF Spec
-----------------------------------------------------------------------------
(* The prefix of the collection that runs, without "overlap", "cancelInWait" *)
(* and "batchInWait".                                                        *)

\* The steps that finalise find the store flushed.
LEMMA StoreSteps ==
  ASSUME Never({"overlap"}), TypeOK, OneBatch, Flat, Waited,
         \/ \E f \in Batches : BatchStarts(f) \/ BatchSucceeds(f)
         \/ \E w \in Waiters : WaitEnds(w)
  PROVE  /\ UNCHANGED <<gen, target, worker, resultOk>>
         /\ \E s \in Seq(Nat), c \in Control :
              /\ c.gen = control.gen /\ c.gc = control.gc /\ c.mapping = control.mapping
              /\ c.poff = Len(s) /\ StoreStep(s, << >>, c)
<1>1. suffix \in Seq(Nat) /\ control \in Control
  BY DEF TypeOK
<1>2. ASSUME NEW f \in Batches, BatchStarts(f)
      PROVE  ~duringBatch /\ StoreStep(suffix, buf, control)
             /\ UNCHANGED <<gen, target, worker, resultOk>>
  BY <1>2, BatchStartsStep
<1>3. ASSUME NEW w \in Waiters, WaitEnds(w)
      PROVE  ~duringBatch /\ StoreStep(suffix, buf, control)
             /\ UNCHANGED <<gen, target, worker, resultOk>>
  BY <1>3, WaitEndsStep DEF Flat
<1>4. ASSUME NEW f \in Batches, BatchSucceeds(f)
      PROVE  StoreStep(Flushed, << >>, FlushedControl)
             /\ UNCHANGED <<gen, target, worker, resultOk>>
  BY <1>4, BatchSucceedsStep
<1>5. CASE ~duringBatch /\ StoreStep(suffix, buf, control)
  <2>1. buf = << >> /\ control.poff = Len(suffix)
    BY <1>5 DEF Flat
  <2> QED BY <1>1, <1>2, <1>3, <1>4, <1>5, <2>1
<1>6. CASE StoreStep(Flushed, << >>, FlushedControl)
  BY <1>2, <1>3, <1>4, <1>6, FlushedTypes
<1> QED BY <1>2, <1>3, <1>4, <1>5, <1>6

\* On a flushed store, with the prefix there, finalising either swaps or cleans.
LEMMA StoreStepWhole ==
  ASSUME HasPrefix, NEW s, NEW c, StoreStep(s, << >>, c)
  PROVE  \/ /\ suffix' = s /\ control' = c
            /\ UNCHANGED <<running, reaped, callback, outcome, prefix, result, prefixGen>>
         \/ /\ running # None /\ running' = None /\ ~Alive(running)
            /\ worker[running] = "exited" /\ result[gen[running]] \in resultOk
            /\ SwapDone(running, s, << >>, c)
         \/ /\ running # None /\ running' = None /\ ~Alive(running)
            /\ ~ (worker[running] = "exited" /\ result[gen[running]] \in resultOk)
            /\ Aborted(running, s, << >>, c)
<1> DEFINE g == running
<1>1. CASE suffix' = s /\ control' = c
           /\ UNCHANGED <<running, reaped, callback, outcome, prefix, result, prefixGen>>
  BY <1>1
<1>2. CASE /\ g # None /\ ~Alive(g)
           /\ Finalised(g, ExitStatus(g), s, << >>, c)
  <2>1. ExitStatus(g) = "success" <=> worker[g] = "exited"
    BY DEF ExitStatus
  <2>2. worker[g] = "exited" => ~SwapWithoutPrefix(g, s, << >>, c)
    BY <1>2 DEF HasPrefix, SwapWithoutPrefix
  <2>3. ~SwapPendingFlush(g, s, << >>, c)
    BY DEF SwapPendingFlush
  <2> QED BY <1>2, <2>1, <2>2, <2>3 DEF Finalised
<1> QED BY <1>1, <1>2 DEF StoreStep

\* Nothing but the steps of the workers, StartGc and the flushes and splits
\* changes what HasPrefix is about while the collection runs on.
LEMMA HasPrefixNext ==
  ASSUME Never({"overlap"}), TypeOK, Numbered, OneBatch, Flat, Waited, HasPrefix, [Next]_vars
  PROVE  HasPrefix'
<1> USE DEF fiberVars, gcVars, fileVars, dataVars, historyVars
<1>1. CASE running' = None
  BY <1>1 DEF HasPrefix
<1>2. CASE UNCHANGED <<running, gen, worker, prefix>> /\ control'.gen = control.gen
  BY <1>2 DEF HasPrefix
<1>3. CASE \/ \E f \in Batches : BatchStarts(f) \/ BatchSucceeds(f)
           \/ \E w \in Waiters : WaitEnds(w)
  BY <1>1, <1>2, <1>3, StoreSteps, StoreStepWhole
<1>4. ASSUME NEW f \in Batches, BatchAppends(f) PROVE HasPrefix'
  BY <1>2, <1>4 DEF BatchAppends
<1>5. ASSUME NEW f \in Batches, BatchFails(f) PROVE HasPrefix'
  BY <1>2, <1>5, FlushedTypes DEF BatchFails
<1>6. CASE Split
  BY <1>2, <1>6, SplitTypes DEF Split
<1>7. CASE StartGc
  <2>1. PICK g \in Gcs : /\ running' = g /\ gen' = [gen EXCEPT ![g] = control.gen + 1]
                         /\ worker' = [worker EXCEPT ![g] = "forked"]
                         /\ UNCHANGED control
    BY <1>7 DEF StartGc
  <2>2. gen'[g] = control.gen + 1 /\ worker'[g] = "forked"
    BY <2>1 DEF TypeOK
  <2> QED BY <2>1, <2>2 DEF HasPrefix
<1>8. CASE FinaliseInBatch \/ CancelRunning \/ CancelExited \/ MainKilled
  BY <1>1, <1>8 DEF FinaliseInBatch, CancelRunning, CancelExited, MainKilled
<1>9. ASSUME NEW w \in Waiters, WaitStarts(w) PROVE HasPrefix'
  BY <1>2, <1>9 DEF WaitStarts
<1>10. ASSUME NEW g \in Gcs, WorkerStep(g) \/ WorkerDies(g) PROVE HasPrefix'
  <2>1. /\ Alive(g) /\ \A h \in Gcs \ {g} : worker'[h] = worker[h]
        /\ UNCHANGED <<running, gen, control>>
    BY <1>10, WorkerGoesOn
  <2>2. running \in Gcs \cup {None} /\ g \in Started /\ g # None
    BY <2>1 DEF TypeOK, Started, Alive, Stages
  <2>3. gen[g] \in Gens /\ gen[g] # None
    BY <2>2, StartedGens DEF Numbered, None
  <2>4. \A n \in Gens : prefix[n] # None => prefix'[n] # None
    <3>1. CASE prefix' = [prefix EXCEPT ![gen[g]] = g]
      BY <2>2, <3>1 DEF TypeOK
    <3>2. CASE prefix' = prefix
      BY <3>2
    <3> QED BY <1>10, <3>1, <3>2 DEF WorkerStep, WorkerCreates, WorkerFills, WorkerReports,
                                     WorkerExits, WorkerDies
  <2>5. running = g /\ worker'[g] \in {"writing", "failing", "succeeding", "exiting", "exited"}
        => prefix'[gen[g]] # None
    <3>1. CASE WorkerCreates(g)
      BY <2>2, <2>3, <3>1 DEF WorkerCreates, TypeOK
    <3>2. CASE WorkerFills(g) \/ WorkerReports(g) \/ WorkerExits(g)
      <4>1. worker[g] \in {"writing", "failing", "succeeding", "exiting", "exited"}
        BY <3>2 DEF WorkerFills, WorkerReports, WorkerExits
      <4> QED BY <2>2, <2>3, <2>4, <4>1 DEF HasPrefix
    <3>3. CASE WorkerDies(g)
      BY <3>3 DEF WorkerDies, TypeOK
    <3> QED BY <1>10, <3>1, <3>2, <3>3 DEF WorkerStep
  <2>6. CASE running = g
    BY <2>1, <2>5, <2>6 DEF HasPrefix
  <2>7. CASE running \in Gcs \ {g}
    <3>1. gen[running] \in Gens
      BY <2>7 DEF TypeOK
    <3> QED BY <2>1, <2>4, <2>7, <3>1 DEF HasPrefix
  <2>8. CASE running = None
    BY <2>1, <2>8, <1>1
  <2> QED BY <2>2, <2>6, <2>7, <2>8
<1>11. CASE UNCHANGED vars
  BY <1>2, <1>11 DEF vars
<1> QED BY <1>3, <1>4, <1>5, <1>6, <1>7, <1>8, <1>9, <1>10, <1>11 DEF Next

LEMMA CallbackCalledNext ==
  ASSUME Never({"overlap"}), TypeOK, OneBatch, Flat, Waited, HasPrefix, CallbackCalled, [Next]_vars
  PROVE  CallbackCalled'
<1> USE DEF fiberVars, gcVars, fileVars, dataVars, historyVars
<1>1. CASE UNCHANGED <<outcome, callback>>
  BY <1>1 DEF CallbackCalled
<1>2. ASSUME NEW g, NEW x, outcome' = [outcome EXCEPT ![g] = x],
             callback' = callback \cup {g}
      PROVE  CallbackCalled'
  BY <1>2 DEF CallbackCalled, TypeOK
<1>3. CASE \/ \E f \in Batches : BatchStarts(f) \/ BatchSucceeds(f)
           \/ \E w \in Waiters : WaitEnds(w)
  BY <1>1, <1>2, <1>3, StoreSteps, StoreStepWhole DEF SwapDone, Aborted
<1>4. CASE CancelRunning
  BY <1>4 DEF CancelRunning, CallbackCalled, TypeOK
<1>5. ASSUME NEW f \in Batches, BatchAppends(f) \/ BatchFails(f) PROVE CallbackCalled'
  BY <1>1, <1>5 DEF BatchAppends, BatchFails
<1>6. CASE Split \/ StartGc \/ FinaliseInBatch \/ CancelExited \/ MainKilled
  BY <1>1, <1>6 DEF Split, StartGc, FinaliseInBatch, CancelExited, MainKilled
<1>7. ASSUME NEW w \in Waiters, WaitStarts(w) PROVE CallbackCalled'
  BY <1>1, <1>7 DEF WaitStarts
<1>8. ASSUME NEW g \in Gcs, WorkerStep(g) \/ WorkerDies(g) PROVE CallbackCalled'
  BY <1>1, <1>8, WorkerGoesOn
<1>9. CASE UNCHANGED vars
  BY <1>1, <1>9 DEF vars
<1> QED BY <1>3, <1>4, <1>5, <1>6, <1>7, <1>8, <1>9 DEF Next

LEMMA SpecPrefix ==
  ASSUME Never({"overlap", "cancelInWait", "batchInWait"})
  PROVE  Spec => [](TypeOK /\ Numbered /\ OneBatch /\ Flat /\ Waited /\ HasPrefix /\ CallbackCalled)
<1>1. Never({"overlap"}) /\ Never({"overlap", "cancelInWait"}) /\ Never({"overlap", "batchInWait"})
  BY DEF Never
<1>2. Init => Waited /\ HasPrefix /\ CallbackCalled
  BY DEF Init, Waited, HasPrefix, CallbackCalled
<1>3. TypeOK /\ Numbered /\ OneBatch /\ Kept /\ Waited /\ [Next]_vars => Waited'
  BY <1>1, WaitedNext DEF Kept
<1>4. TypeOK /\ Numbered /\ OneBatch /\ Kept /\ Waited /\ HasPrefix /\ [Next]_vars => HasPrefix'
  BY <1>1, HasPrefixNext DEF Kept
<1>5. TypeOK /\ OneBatch /\ Kept /\ Waited /\ HasPrefix /\ CallbackCalled /\ [Next]_vars
      => CallbackCalled'
  BY <1>1, CallbackCalledNext DEF Kept
<1>6. Kept => Flat
  BY DEF Kept
<1> QED BY <1>1, <1>2, <1>3, <1>4, <1>5, <1>6, SpecKept, PTL DEF Spec

\* A collection that was finalised, well or not, had its callback called, for
\* any number of fibers and collections: the swap never fails half way when
\* batches neither overlap nor start while a fiber waits for a collection, and
\* no collection is cancelled under such a fiber (Gc.finalise, File_manager.swap).
THEOREM CallbackCalledAlways ==
  ASSUME Never({"overlap", "cancelInWait", "batchInWait"})
  PROVE  Spec => []CallbackCalled
BY SpecPrefix, PTL
-----------------------------------------------------------------------------
(* The files of the next generation, when finalise_exn is not called during *)
(* a batch and the main process lives either.                               *)

\* The swap puts in place the prefix and the mapping of the collection.
LEMMA SwapMatches ==
  ASSUME TypeOK, HasPrefix, Owned, PrefixMatches, running # None,
         NEW s, NEW c \in Control, SwapDone(running, s, << >>, c),
         result[gen[running]] \in resultOk
  PROVE  PrefixMatches'
<1> DEFINE g == running
           n == gen[g]
           m == result[n]
           t == target[g]
<1>1. n \in Gens /\ n # None /\ control.gen \in Gens /\ n = control.gen + 1
  BY DEF HasPrefix, TypeOK, Control, Started, Gens, None
<1>2. m = g /\ prefix[n] = g
  BY DEF Owned, TypeOK, Started, None, Gcs
<1>3. /\ control' = [c EXCEPT !.gen = n, !.gc = g, !.mapping = m, !.target = t]
      /\ prefixGen' = n /\ prefix' = [prefix EXCEPT ![n - 1] = None]
  BY DEF SwapDone
<1>4. prefix'[n] = prefix[n]
  BY <1>1, <1>3 DEF TypeOK, Gens
<1> HIDE DEF g, n, m, t
<1>5. control'.gen = n /\ control'.gc = g /\ control'.mapping = m
  BY <1>3 DEF Control
<1> QED BY <1>2, <1>3, <1>4, <1>5 DEF PrefixMatches

\* Cleaning up keeps the prefix in use.
LEMMA CleanedMatches ==
  ASSUME TypeOK, PrefixMatches, Cleaned, prefixGen' = prefixGen, control'.gen = control.gen,
         control'.gc = control.gc, control'.mapping = control.mapping
  PROVE  PrefixMatches'
BY DEF PrefixMatches, Cleaned, TypeOK, Control

\* The files of the collection that runs, and the prefix in use.
Files == Owned /\ PrefixMatches

LEMMA FilesStore ==
  ASSUME Never({"overlap"}), TypeOK, OneBatch, Flat, Waited, HasPrefix, Files,
         \/ \E f \in Batches : BatchStarts(f) \/ BatchSucceeds(f)
         \/ \E w \in Waiters : WaitEnds(w)
  PROVE  Files'
<1>1. PICK s \in Seq(Nat), c \in Control :
        /\ c.gen = control.gen /\ c.gc = control.gc /\ c.mapping = control.mapping
        /\ c.poff = Len(s) /\ StoreStep(s, << >>, c)
  BY StoreSteps
<1>2. UNCHANGED <<gen, target, worker, resultOk>>
  BY StoreSteps
<1>3. CASE suffix' = s /\ control' = c
           /\ UNCHANGED <<running, reaped, callback, outcome, prefix, prefixGen, result>>
  BY <1>1, <1>2, <1>3 DEF Files, Owned, PrefixMatches
<1>4. CASE running # None /\ running' = None /\ SwapDone(running, s, << >>, c)
           /\ result[gen[running]] \in resultOk
  BY <1>4, SwapMatches DEF Files, Owned
<1>5. CASE running' = None /\ Aborted(running, s, << >>, c)
  BY <1>1, <1>5, CleanedMatches DEF Files, Owned, Aborted
<1> QED BY <1>1, <1>3, <1>4, <1>5, StoreStepWhole

LEMMA FilesStartGc ==
  ASSUME TypeOK, Numbered, Files, StartGc
  PROVE  Files'
<1> USE DEF dataVars
<1> DEFINE n == control.gen + 1
<1>1. PICK g \in Gcs : /\ running' = g /\ gen' = [gen EXCEPT ![g] = n] /\ g = Cardinality(Started) + 1
                       /\ worker' = [worker EXCEPT ![g] = "forked"]
                       /\ result' = [result EXCEPT ![n] = None]
                       /\ UNCHANGED <<prefix, resultOk, control, prefixGen>>
  BY DEF StartGc
<1>2. gen'[g] = n /\ worker'[g] = "forked"
  BY <1>1 DEF TypeOK
<1>3. g \notin Started
  <2>1. PICK k \in Gens : Started = 1..k
    BY DEF Numbered
  <2>2. k \in Nat
    BY <2>1, ConstantsAssumption DEF Gens
  <2>3. Cardinality(1..k) = k
    BY <2>2, FS_Interval
  <2> QED BY <1>1, <2>1, <2>2, <2>3
<1>4. n \in Gens
  BY <1>1, <1>2, StartGcTypes DEF TypeOK
<1>5. result'[n] = None /\ g \notin resultOk
  BY <1>1, <1>3, <1>4 DEF TypeOK
<1> QED BY <1>1, <1>2, <1>5 DEF Files, Owned, PrefixMatches

LEMMA FilesWorker ==
  ASSUME TypeOK, Numbered, HasPrefix, IsFinishedHonest, Files,
         NEW g \in Gcs, WorkerStep(g) \/ WorkerDies(g)
  PROVE  Files'
<1> USE DEF fiberVars, gcVars, fileVars, dataVars, historyVars
<1>1. running = g /\ g # None /\ g \in Gcs /\ g \in Started
  BY WorkerGoesOn DEF IsFinishedHonest, Alive, Started, Stages
<1>2. UNCHANGED <<running, gen, control, prefixGen>>
  BY WorkerGoesOn
<1> DEFINE n == gen[g]
<1>3. n \in Gens /\ n = control.gen + 1 /\ control.gen \in Gens /\ control.gen # n
  BY <1>1 DEF HasPrefix, TypeOK, Control, Gens
<1>4. CASE WorkerCreates(g)
  <2>1. CASE prefix[n] = None
    <3>1. /\ prefix' = [prefix EXCEPT ![n] = g] /\ worker' = [worker EXCEPT ![g] = "writing"]
          /\ UNCHANGED <<result, resultOk>>
      BY <1>4, <2>1 DEF WorkerCreates
    <3>2. prefix'[n] = g /\ prefix'[control.gen] = prefix[control.gen] /\ worker'[g] = "writing"
      BY <1>1, <1>3, <3>1 DEF TypeOK
    <3> QED BY <1>1, <1>2, <3>1, <3>2 DEF Files, Owned, PrefixMatches
  <2>2. CASE prefix[n] # None
    <3>1. worker' = [worker EXCEPT ![g] = "failing"] /\ UNCHANGED <<prefix, result, resultOk>>
      BY <1>4, <2>2 DEF WorkerCreates
    <3>2. worker'[g] = "failing"
      BY <1>1, <3>1 DEF TypeOK
    <3> QED BY <1>1, <1>2, <3>1, <3>2 DEF Files, Owned, PrefixMatches
  <2> QED BY <2>1, <2>2
<1>5. CASE WorkerFills(g)
  <2>1. worker[g] = "writing" /\ UNCHANGED <<prefix, result, resultOk>>
    BY <1>5 DEF WorkerFills
  <2> QED BY <1>1, <1>2, <2>1 DEF Files, Owned, PrefixMatches
<1>6. CASE WorkerReports(g)
  <2>1. /\ worker' = [worker EXCEPT ![g] = "exiting"] /\ result' = [result EXCEPT ![n] = g]
        /\ prefix' = prefix
        /\ g \in resultOk' => g \in resultOk \/ worker[g] = "succeeding"
    BY <1>6 DEF WorkerReports
  <2>2. worker'[g] = "exiting" /\ result'[n] = g
    BY <1>1, <1>3, <2>1 DEF TypeOK
  <2> QED BY <1>1, <1>2, <2>1, <2>2 DEF Files, Owned, PrefixMatches
<1>7. CASE WorkerExits(g) \/ WorkerDies(g)
  <2>1. worker'[g] \in {"exited", "died"} /\ UNCHANGED <<prefix, result, resultOk>>
    BY <1>1, <1>7 DEF WorkerExits, WorkerDies, TypeOK
  <2> QED BY <1>1, <1>2, <2>1 DEF Files, Owned, PrefixMatches
<1> QED BY <1>4, <1>5, <1>6, <1>7 DEF WorkerStep

LEMMA FilesNext ==
  ASSUME Never({"overlap", "finaliseInBatch", "mainKilled"}), TypeOK, Numbered, OneBatch, Flat,
         Waited, HasPrefix, IsFinishedHonest, Files, [Next]_vars
  PROVE  Files'
<1> USE DEF fiberVars, gcVars, fileVars, dataVars, historyVars
<1>1. CASE UNCHANGED <<running, gen, worker, prefix, result, resultOk, prefixGen>>
           /\ control'.gen = control.gen /\ control'.gc = control.gc
           /\ control'.mapping = control.mapping
  BY <1>1 DEF Files, Owned, PrefixMatches
<1>2. CASE \/ \E f \in Batches : BatchStarts(f) \/ BatchSucceeds(f)
           \/ \E w \in Waiters : WaitEnds(w)
  BY <1>2, FilesStore DEF Never
<1>3. ASSUME NEW f \in Batches, BatchAppends(f) PROVE Files'
  BY <1>1, <1>3 DEF BatchAppends
<1>4. ASSUME NEW f \in Batches, BatchFails(f) PROVE Files'
  BY <1>1, <1>4, FlushedTypes DEF BatchFails
<1>5. CASE Split
  <2>1. control'.gen = control.gen /\ control'.gc = control.gc
        /\ control'.mapping = control.mapping
    BY <1>5 DEF Split, TypeOK, Control
  <2> QED BY <1>1, <1>5, <2>1 DEF Split
<1>6. CASE StartGc
  BY <1>6, FilesStartGc
<1>7. ~FinaliseInBatch /\ ~MainKilled
  BY DEF FinaliseInBatch, MainKilled, Never
<1>8. CASE CancelRunning
  BY <1>8, CleanedMatches DEF CancelRunning, Files, Owned
<1>9. CASE CancelExited
  BY <1>9 DEF CancelExited, Files, Owned, PrefixMatches
<1>10. ASSUME NEW w \in Waiters, WaitStarts(w) PROVE Files'
  BY <1>1, <1>10 DEF WaitStarts
<1>11. ASSUME NEW g \in Gcs, WorkerStep(g) \/ WorkerDies(g) PROVE Files'
  BY <1>11, FilesWorker
<1>12. CASE UNCHANGED vars
  BY <1>1, <1>12 DEF vars
<1> QED BY <1>2, <1>3, <1>4, <1>5, <1>6, <1>7, <1>8, <1>9, <1>10, <1>11, <1>12 DEF Next

\* What holds when the main process lives and fibers do not get in each
\* other's way.
Whole ==
  TypeOK /\ Numbered /\ OneBatch /\ Flat /\ Waited /\ HasPrefix /\ IsFinishedHonest /\ Files

LEMMA SpecWhole ==
  ASSUME Never({"overlap", "cancelInWait", "batchInWait", "finaliseInBatch", "mainKilled"})
  PROVE  Spec => []Whole
<1>1. /\ Never({"overlap", "cancelInWait", "batchInWait"})
      /\ Never({"overlap", "finaliseInBatch", "mainKilled"})
      /\ Never({"overlap", "cancelInWait", "finaliseInBatch", "mainKilled"})
  BY DEF Never
<1>2. Init => Files
  BY DEF Init, Files, Owned, PrefixMatches
<1>3. TypeOK /\ Numbered /\ OneBatch /\ Flat /\ Waited /\ HasPrefix /\ IsFinishedHonest /\ Files
      /\ [Next]_vars => Files'
  BY <1>1, FilesNext
<1> QED BY <1>1, <1>2, <1>3, SpecPrefix, IsFinishedHonestAlways, PTL DEF Spec, Whole

\* The prefix the control file names is there, and it, its mapping and the open
\* handle are of one collection, for any number of fibers and collections, when
\* none of the five situations above happens (File_manager.swap, cleanup).
THEOREM CoherentAlways ==
  ASSUME Never({"overlap", "cancelInWait", "batchInWait", "finaliseInBatch", "mainKilled"})
  PROVE  Spec => []Coherent
<1>1. Whole => Coherent
  BY DEF Whole, Files, Coherent
<1> QED BY <1>1, SpecWhole, PTL
-----------------------------------------------------------------------------
(* What is left on disk, when collections are cancelled or lose their worker *)
(* and nothing else happens.                                                 *)

LEMMA CleanStore ==
  ASSUME Whole, Clean, Never({"overlap"}),
         \/ \E f \in Batches : BatchStarts(f) \/ BatchSucceeds(f)
         \/ \E w \in Waiters : WaitEnds(w)
  PROVE  Clean' /\ (NoSpuriousFailure => NoSpuriousFailure')
<1> USE DEF Whole
<1>1. PICK s \in Seq(Nat), c \in Control :
        /\ c.gen = control.gen /\ c.poff = Len(s) /\ StoreStep(s, << >>, c)
  BY StoreSteps
<1>2. UNCHANGED <<gen, target, worker, resultOk>>
  BY StoreSteps
<1>3. CASE suffix' = s /\ control' = c
           /\ UNCHANGED <<running, reaped, callback, outcome, prefix, prefixGen, result>>
  BY <1>1, <1>2, <1>3 DEF Clean, NoSpuriousFailure
<1>4. CASE running # None /\ running' = None /\ SwapDone(running, s, << >>, c)
  <2> DEFINE n == gen[running]
             m == result[n]
             t == target[running]
  <2>1. n \in Gens /\ n - 1 = control.gen /\ control.gen \in Gens /\ running \in Gcs
    BY <1>4 DEF HasPrefix, TypeOK, Control, Started, Gens
  <2>2. /\ control' = [c EXCEPT !.gen = n, !.gc = running, !.mapping = m, !.target = t]
        /\ prefix' = [prefix EXCEPT ![n - 1] = None] /\ result' = [result EXCEPT ![n] = None]
        /\ outcome' = [outcome EXCEPT ![running] = "finalised"]
    BY <1>4 DEF SwapDone
  <2>3. control'.gen = n
    <3> HIDE DEF n, m, t
    <3> QED BY <2>2 DEF Control
  <2>4. \A i \in Gens : prefix'[i] # None => i = n
    BY <2>1, <2>2 DEF TypeOK, Clean
  <2>5. \A i \in Gens : result'[i] = None
    BY <2>1, <2>2 DEF TypeOK, Clean
  <2>6. NoSpuriousFailure => NoSpuriousFailure'
    BY <1>2, <2>1, <2>2 DEF NoSpuriousFailure, TypeOK
  <2> QED BY <1>4, <2>3, <2>4, <2>5, <2>6 DEF Clean
<1>5. CASE /\ running # None /\ running' = None /\ ~Alive(running)
           /\ ~ (worker[running] = "exited" /\ result[gen[running]] \in resultOk)
           /\ Aborted(running, s, << >>, c)
  <2>1. worker[running] = "died"
    BY <1>5 DEF Clean, Alive, Stages
  <2>2. Clean'
    BY <1>1, <1>5 DEF Clean, Aborted, Cleaned
  <2>3. NoSpuriousFailure => NoSpuriousFailure'
    BY <1>2, <1>5, <2>1 DEF NoSpuriousFailure, Aborted, TypeOK
  <2> QED BY <2>2, <2>3
<1> QED BY <1>1, <1>3, <1>4, <1>5, StoreStepWhole

LEMMA CleanStartGc ==
  ASSUME Whole, Clean, StartGc
  PROVE  Clean' /\ (NoSpuriousFailure => NoSpuriousFailure')
<1> USE DEF Whole, dataVars
<1> DEFINE n == control.gen + 1
<1>1. PICK g \in Gcs : /\ running = None /\ running' = g /\ gen' = [gen EXCEPT ![g] = n]
                       /\ g = Cardinality(Started) + 1
                       /\ worker' = [worker EXCEPT ![g] = "forked"]
                       /\ result' = [result EXCEPT ![n] = None]
                       /\ UNCHANGED <<prefix, resultOk, control, outcome>>
  BY DEF StartGc
<1>2. gen'[g] = n /\ worker'[g] = "forked"
  BY <1>1 DEF TypeOK
<1>3. n \in Gens
  BY <1>1, <1>2, StartGcTypes DEF TypeOK
<1>4. \A i \in Gens : result'[i] = None
  BY <1>1, <1>3 DEF Clean, TypeOK
<1>5. \A i \in Gens : prefix'[i] # None => i = control'.gen
  BY <1>1 DEF Clean
<1>6. g \notin Started
  <2>1. PICK k \in Gens : Started = 1..k
    BY DEF Numbered
  <2>2. k \in Nat
    BY <2>1, ConstantsAssumption DEF Gens
  <2>3. Cardinality(1..k) = k
    BY <2>2, FS_Interval
  <2> QED BY <1>1, <2>1, <2>2, <2>3
<1>7. NoSpuriousFailure => NoSpuriousFailure'
  BY <1>1, <1>6 DEF NoSpuriousFailure, TypeOK, Started
<1> QED BY <1>1, <1>2, <1>4, <1>5, <1>7 DEF Clean

LEMMA CleanWorker ==
  ASSUME Whole, Clean, NEW g \in Gcs, WorkerStep(g) \/ WorkerDies(g)
  PROVE  Clean' /\ (NoSpuriousFailure => NoSpuriousFailure')
<1> USE DEF Whole, fiberVars, gcVars, fileVars, dataVars, historyVars
<1>1. /\ running = g /\ g # None /\ g \in Gcs /\ worker[g] \in Stages
      /\ \A h \in Gcs \ {g} : worker'[h] = worker[h]
  BY WorkerGoesOn DEF IsFinishedHonest, Alive
<1>2. UNCHANGED <<running, gen, control, outcome>>
  BY WorkerGoesOn
<1> DEFINE n == gen[g]
<1>3. n \in Gens /\ n = control.gen + 1 /\ control.gen \in Gens /\ control.gen # n
  BY <1>1 DEF HasPrefix, TypeOK, Control, Gens
<1>4. NoSpuriousFailure => NoSpuriousFailure'
  BY <1>1, <1>2 DEF NoSpuriousFailure, Stages
<1>5. CASE WorkerCreates(g)
  <2>1. prefix[n] = None
    BY <1>1, <1>3, <1>5 DEF Clean, WorkerCreates
  <2> QED BY <1>1, <1>2, <1>3, <1>4, <1>5, <2>1 DEF Clean, WorkerCreates, TypeOK
<1>6. CASE WorkerFills(g)
  <2>1. worker'[g] = "succeeding" /\ worker[g] = "writing" /\ UNCHANGED <<prefix, result, resultOk>>
    BY <1>1, <1>6 DEF HasPrefix, WorkerFills, TypeOK
  <2> QED BY <1>1, <1>2, <1>4, <2>1 DEF Clean
<1>7. CASE WorkerReports(g)
  <2>1. worker[g] = "succeeding"
    BY <1>1, <1>7 DEF Clean, WorkerReports
  <2>2. /\ worker'[g] = "exiting" /\ result' = [result EXCEPT ![n] = g] /\ prefix' = prefix
        /\ resultOk' = resultOk \cup {g}
    BY <1>1, <1>7, <2>1 DEF WorkerReports, TypeOK
  <2>3. result'[n] = g /\ \A i \in Gens \ {n} : result'[i] = result[i]
    BY <1>3, <2>2 DEF TypeOK
  <2> QED BY <1>1, <1>2, <1>4, <2>1, <2>2, <2>3 DEF Clean
<1>8. CASE WorkerExits(g)
  <2>1. worker[g] = "exiting" /\ worker'[g] = "exited" /\ UNCHANGED <<prefix, result, resultOk>>
    BY <1>1, <1>8 DEF WorkerExits, TypeOK
  <2> QED BY <1>1, <1>2, <1>4, <2>1 DEF Clean
<1>9. CASE WorkerDies(g)
  <2>1. worker'[g] = "died" /\ UNCHANGED <<prefix, result, resultOk>>
    BY <1>1, <1>9 DEF WorkerDies, TypeOK
  <2> QED BY <1>1, <1>2, <1>4, <2>1 DEF Clean
<1> QED BY <1>5, <1>6, <1>7, <1>8, <1>9 DEF WorkerStep

LEMMA CleanNext ==
  ASSUME Allowed \subseteq {"cancel", "workerDies"}, Whole, Clean, [Next]_vars
  PROVE  Clean' /\ (NoSpuriousFailure => NoSpuriousFailure')
<1> USE DEF Whole, fiberVars, gcVars, fileVars, dataVars, historyVars
<1>1. CASE UNCHANGED <<running, gen, worker, outcome, prefix, result, resultOk>>
           /\ control'.gen = control.gen
  BY <1>1 DEF Clean, NoSpuriousFailure
<1>2. CASE \/ \E f \in Batches : BatchStarts(f) \/ BatchSucceeds(f)
           \/ \E w \in Waiters : WaitEnds(w)
  BY <1>2, CleanStore DEF Never
<1>3. ASSUME NEW f \in Batches, BatchAppends(f)
      PROVE  Clean' /\ (NoSpuriousFailure => NoSpuriousFailure')
  BY <1>1, <1>3 DEF BatchAppends
<1>4. ASSUME NEW f \in Batches, BatchFails(f)
      PROVE  Clean' /\ (NoSpuriousFailure => NoSpuriousFailure')
  BY <1>1, <1>4, FlushedTypes DEF BatchFails
<1>5. CASE Split
  BY <1>1, <1>5, SplitTypes DEF Split
<1>6. CASE StartGc
  BY <1>6, CleanStartGc
<1>7. ~FinaliseInBatch /\ ~MainKilled /\ ~CancelExited
  BY DEF FinaliseInBatch, MainKilled, CancelExited
<1>8. CASE CancelRunning
  <2>1. running \in Gcs /\ worker[running] \in Stages
    BY <1>8 DEF CancelRunning, Alive, TypeOK, Started
  <2>2. Clean'
    BY <1>8 DEF CancelRunning, Cleaned, Clean
  <2>3. NoSpuriousFailure => NoSpuriousFailure'
    BY <1>8, <2>1 DEF CancelRunning, NoSpuriousFailure, TypeOK, Stages
  <2> QED BY <2>2, <2>3
<1>9. ASSUME NEW w \in Waiters, WaitStarts(w)
      PROVE  Clean' /\ (NoSpuriousFailure => NoSpuriousFailure')
  BY <1>1, <1>9 DEF WaitStarts
<1>10. ASSUME NEW g \in Gcs, WorkerStep(g) \/ WorkerDies(g)
       PROVE  Clean' /\ (NoSpuriousFailure => NoSpuriousFailure')
  BY <1>10, CleanWorker
<1>11. CASE UNCHANGED vars
  BY <1>1, <1>11 DEF vars
<1> QED BY <1>2, <1>3, <1>4, <1>5, <1>6, <1>7, <1>8, <1>9, <1>10, <1>11 DEF Next

LEMMA SpecClean ==
  ASSUME Allowed \subseteq {"cancel", "workerDies"}
  PROVE  Spec => [](Whole /\ Clean /\ NoSpuriousFailure)
<1>1. Never({"overlap", "cancelInWait", "batchInWait", "finaliseInBatch", "mainKilled"})
  BY DEF Never
<1>2. Init => Clean /\ NoSpuriousFailure
  BY DEF Init, Clean, NoSpuriousFailure
<1>3. Whole /\ Clean /\ [Next]_vars => Clean' /\ (NoSpuriousFailure => NoSpuriousFailure')
  BY CleanNext
<1> QED BY <1>1, <1>2, <1>3, SpecWhole, PTL DEF Spec

\* A collection that was not cancelled fails only when its worker was killed,
\* for any number of fibers and collections (Gc.finalise, Worker.run_and_output_result).
THEOREM NoSpuriousFailureAlways ==
  ASSUME Allowed \subseteq {"cancel", "workerDies"}
  PROVE  Spec => []NoSpuriousFailure
BY SpecClean, PTL

\* Once the collections are over only the prefix in use is left on disk, for
\* any number of fibers and collections (Gc.finalise, Gc.cancel, Fm.cleanup).
THEOREM NoLeftoversAlways ==
  ASSUME Allowed \subseteq {"cancel", "workerDies"}
  PROVE  Spec => []NoLeftovers
<1>1. Clean => NoLeftovers
  BY DEF Clean, NoLeftovers
<1> QED BY <1>1, SpecClean, PTL
=============================================================================
