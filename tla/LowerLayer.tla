----------------------------- MODULE LowerLayer -----------------------------
(***************************************************************************)
(* The lower layer: collections that archive what they take out of the     *)
(* suffix into volumes, the swap of the control files of the store and of  *)
(* a volume, aborts and deaths at each step, new volumes, and a reader.    *)
(*                                                                         *)
(* Entries are numbered in the order of the pack file: an entry is a       *)
(* commit or the objects a commit adds.  The flush of entries and the      *)
(* chunks of the suffix are in other modules.                              *)
(***************************************************************************)
EXTENDS Integers, Sequences, FiniteSets, SequencesExt, Functions

CONSTANTS
  Commits,     \* the entries that are commits
  Uses,        \* for each commit, the objects of its tree
  Parent,      \* for each commit, its parent, or 0
  Migrations,  \* entries of the store before it had a lower layer, for each
               \* initial state; 0 for a store created with one
  Allowed,     \* which of Situations the system meets
  MaxGcs,      \* bound: collections started
  MaxVolumes,  \* bound: volumes
  MaxCrashes   \* bound: deaths of the main process

Situations ==
  {"crashSwapped",   \* the main process dies between the two control files
   "loadSwapped",    \* a reader loads the volumes at that moment
   "addBehind",      \* a volume is added when the last target is not the last
                     \* commit before the suffix
   "forked",         \* a collection of a commit that does not descend from the
                     \* last target
   "staleControl"}   \* a commit of the lower layer is collected after an abort
                     \* that left the control file of the same generation

ASSUME ConstantsAssumption ==
  /\ Commits \subseteq Nat \ {0}
  /\ \E last \in Commits : \A c \in Commits : c <= last
  /\ \A c \in Commits :
       /\ Parent[c] \in {0} \cup Commits /\ Parent[c] < c
       /\ \A o \in Uses[c] : o \in Nat \ Commits /\ 0 < o /\ o < c
  /\ Migrations \subseteq {0} \cup Commits
  /\ Allowed \subseteq Situations
  /\ MaxGcs \in Nat /\ MaxVolumes \in Nat \ {0} /\ MaxCrashes \in Nat

MaxEntry == CHOOSE c \in Commits : \A d \in Commits : d <= c
Entries == 1..MaxEntry
Gens == 0..MaxGcs + 1
Volumes == 1..MaxVolumes

Nothing == [start |-> 0, end |-> 0, len |-> 0]
IsEmpty(volumeControl) == volumeControl.len = 0

VARIABLES
  entries,    \* the last entry of the store
  \* files
  control,    \* of the store: generation, suffix start, target, volumes
  prefixes,   \* for each generation with a prefix, its entries in order
  volumes,    \* for each volume: mapping, data, control and temporary ones
  volumeNames,  \* the directories that exist
  \* the main process
  pc,
  loaded,     \* the control files of the volumes in memory
  gcPc, target,
  gcs, crashes,
  \* a reader
  roPc, roControl, roPrefix, roLoaded,
  \* history
  archived,   \* the commits that collections took out of the suffix
  roArchived  \* the same, when the reader read the control file

storeVars == <<control, prefixes, volumes, volumeNames>>
rwVars == <<pc, loaded>>
gcVars == <<gcPc, target>>
boundVars == <<entries, gcs, crashes>>
roVars == <<roPc, roControl, roPrefix, roLoaded, roArchived>>
vars == <<storeVars, rwVars, gcVars, boundVars, roVars, archived>>

-----------------------------------------------------------------------------
(* Commits and what hangs on them. *)

Direct(c) == Uses[c] \cup ({Parent[c]} \ {0})

\* traverse_range: what can be reached from a commit, parents included.
history[c \in 0..MaxEntry] ==
  IF c \notin Commits THEN {} ELSE {c} \cup Uses[c] \cup history[Parent[c]]

\* snapshot_commit: a commit, its tree and its dangling parent.
Snapshot(c) == {c} \cup Direct(c)

\* The numbers of S in order: each stands at its rank.
Sorted(S) ==
  [i \in 1..Cardinality(S) |-> CHOOSE x \in S : Cardinality({y \in S : y <= x}) = i]

\* What proofs assume of the application.  The tree of a commit is made of objects
\* of its parent's tree and of objects that it adds: no tree of long ago comes
\* back.  Objects are not found by their hashes, as a collection asks for minimal
\* indexing.
TreesGrow ==
  \A c \in Commits : \A o \in Uses[c] :
    \/ Parent[c] # 0 /\ o \in Uses[Parent[c]]
    \/ \A d \in Commits : d < c => d < o

\* Every commit adds an object to the store.
ObjectsAdded == \A c \in Commits : c - 1 \notin {0} \cup Commits
-----------------------------------------------------------------------------
(* Reads. *)

\* Sparse_file.read_range_exn: the mapping, up to len, gives the place of o.
InVolume(v, len, o) ==
  \E i \in 1..len :
    /\ volumes[v].mapping[i].off = o
    /\ volumes[v].data[volumes[v].mapping[i].poff] = o

\* find_volume: the first volume whose range has o.
Holders(cs, o) == {v \in 1..Len(cs) : cs[v].start <= o /\ o < cs[v].end}
Holder(cs, o) == CHOOSE v \in Holders(cs, o) : \A w \in Holders(cs, o) : v <= w

\* Dispatcher.read_range_exn without a volume: the suffix, the prefix pre, or
\* the volume whose range has o.
CanRead(c, pre, cs, o) ==
  \/ o >= c.start
  \/ o \in ToSet(pre)
  \/ Holders(cs, o) # {} /\ InVolume(Holder(cs, o), cs[Holder(cs, o)].len, o)

\* A commit that is read from a volume has its tree and the headers of its
\* parents read from the same volume.
CanReadCommit(c, pre, cs, o) ==
  /\ CanRead(c, pre, cs, o)
  /\ \A d \in Direct(o) :
       IF o >= c.start \/ o \in ToSet(pre) THEN CanRead(c, pre, cs, d)
       ELSE InVolume(Holder(cs, o), cs[Holder(cs, o)].len, d)

\* open_prefix.
Prefix(g) == IF g \in DOMAIN prefixes THEN prefixes[g] ELSE << >>

\* load_volumes, when the control file names n of them.
Load(n) == [v \in 1..n |-> volumes[v].control]
-----------------------------------------------------------------------------
NewVolume ==
  [mapping |-> << >>, data |-> << >>, control |-> Nothing,
   tmp |-> [g \in Gens |-> Nothing]]

\* create_from: the suffix becomes the data of a volume.
MigratedVolume(m) ==
  [NewVolume EXCEPT
     !.mapping = [i \in 1..m |-> [off |-> i, poff |-> i]],
     !.data = [i \in 1..m |-> i],
     !.control = [start |-> 0, end |-> m + 1, len |-> m]]

\* create_rw with a lower layer, or migrate_to_lower of a store of m entries.
Init ==
  \E m \in Migrations :
    /\ entries = m
    /\ control = [gen |-> IF m = 0 THEN 0 ELSE 1, start |-> m + 1, target |-> 0,
                  volumes |-> 1]
    /\ prefixes = [g \in 1..(IF m = 0 THEN 0 ELSE 1) |-> << >>]
    /\ volumes = [v \in Volumes |->
                    IF v = 1 /\ m > 0 THEN MigratedVolume(m) ELSE NewVolume]
    /\ volumeNames = {1}
    /\ pc = "ready"
    /\ loaded = << IF m > 0 THEN MigratedVolume(m).control ELSE Nothing >>
    /\ gcPc = "none" /\ target = 0
    /\ gcs = 0 /\ crashes = 0
    /\ roPc = "closed" /\ roControl = control
    /\ roPrefix = << >> /\ roLoaded = << >>
    /\ archived = Commits \cap 1..m /\ roArchived = {}
-----------------------------------------------------------------------------
(* The application. *)

\* A commit and its new objects, flushed.
Commit ==
  /\ pc = "ready"
  /\ \E c \in Commits :
       /\ c > entries /\ \A d \in Commits : d > entries => c <= d
       /\ entries' = c
  /\ UNCHANGED <<storeVars, rwVars, gcVars, gcs, crashes, roVars, archived>>

NextGen == control.gen + 1
Appendable == control.volumes

\* Gc.v: a commit newer than the last target, wherever it is.
StartGc(c) ==
  /\ pc = "ready" /\ gcPc = "none" /\ gcs < MaxGcs
  /\ control.target < c /\ c <= entries
  /\ \/ c >= control.start
     \/ volumes[Appendable].tmp[NextGen] = Nothing
     \/ "staleControl" \in Allowed
  /\ control.target \in {0} \cup history[c] \/ "forked" \in Allowed
  /\ gcPc' = "prefix" /\ target' = c /\ gcs' = gcs + 1
  /\ UNCHANGED <<storeVars, rwVars, entries, crashes, roVars, archived>>

\* add_volume_exn without a collection: Lower.add_volume, then set_payload.
AddCreates ==
  /\ pc = "ready" /\ gcPc = "none"
  /\ ~IsEmpty(loaded[Len(loaded)])
  /\ control.target + 1 = control.start \/ "addBehind" \in Allowed
  /\ Len(loaded) < MaxVolumes /\ Len(loaded) + 1 \notin volumeNames
  /\ volumeNames' = volumeNames \cup {Len(loaded) + 1}
  /\ loaded' = Append(loaded, Nothing)
  /\ pc' = "adding"
  /\ UNCHANGED <<control, prefixes, volumes, gcVars, boundVars, roVars, archived>>

AddCounts ==
  /\ pc = "adding"
  /\ control' = [control EXCEPT !.volumes = Len(loaded)]
  /\ pc' = "ready"
  /\ UNCHANGED <<prefixes, volumes, volumeNames, loaded, gcVars, boundVars,
                 roVars, archived>>

-----------------------------------------------------------------------------
(* The worker of a collection: it opens the store as a reader.  It may stop  *)
(* at any of these steps: Abort.                                           *)

\* The first file a worker leaves: the prefix of the next generation.
WorkerPrefix ==
  /\ gcPc = "prefix"
  /\ CanReadCommit(control, Prefix(control.gen), Load(Appendable), target)
  /\ prefixes' = [g \in DOMAIN prefixes \cup {NextGen} |->
       IF g = NextGen THEN Sorted(Snapshot(target)) ELSE prefixes[g]]
  /\ gcPc' = "archive"
  /\ UNCHANGED <<control, volumes, volumeNames, rwVars, target, boundVars,
                 roVars, archived>>

\* Mutant of ToArchive: the target itself is left to the prefix.
ToArchiveBeforeTarget ==
  Sorted({o \in history[target] : o >= control.start /\ o < target})

\* The entries of the suffix that the target commit can reach.
ToArchive == Sorted({o \in history[target] : o >= control.start})

\* The entries of the mapping that archive_seq starts from.
Base ==
  IF ~IsEmpty(volumes[Appendable].control)
    THEN SubSeq(volumes[Appendable].mapping, 1, volumes[Appendable].control.len)
  ELSE IF Appendable = 1 THEN << >>
  ELSE [i \in 1..Len(Prefix(control.gen)) |->
          [off |-> Prefix(control.gen)[i], poff |-> i]]

\* Sparse.Ao.open_ao: the data ends where the last entry of the mapping says.
DataEnd(mapping) == IF mapping = << >> THEN 0 ELSE mapping[Len(mapping)].poff

\* Nothing to archive, or a check that the volume is older, or, for a new
\* volume that is not the first, a copy of the prefix.
WorkerArchives ==
  /\ gcPc = "archive"
  /\ gcPc' = IF ToArchive = << >> THEN "done"
             ELSE IF volumes[Appendable].control.end > ToArchive[1] THEN "refused"
             ELSE "data"
  /\ IF gcPc' = "data" /\ IsEmpty(volumes[Appendable].control) /\ Appendable # 1
       THEN volumes' = [volumes EXCEPT ![Appendable].data = Prefix(control.gen),
                                       ![Appendable].mapping = Base]
       ELSE UNCHANGED volumes
  /\ UNCHANGED <<control, prefixes, volumeNames, rwVars, target, boundVars,
                 roVars, archived>>

\* s from place n + 1 on, over what was there.
Overwrite(old, n, s) ==
  SubSeq(old, 1, n) \o s \o SubSeq(old, n + Len(s) + 1, Len(old))

\* Mutant of WorkerData: at the end of the file, past what an abort left.
WorkerDataAtFileEnd ==
  /\ gcPc = "data"
  /\ volumes' = [volumes EXCEPT ![Appendable].data = @ \o ToArchive]
  /\ gcPc' = "mapping"
  /\ UNCHANGED <<control, prefixes, volumeNames, rwVars, target, boundVars,
                 roVars, archived>>

\* Ao.flush of the data.
WorkerData ==
  /\ gcPc = "data"
  /\ volumes' = [volumes EXCEPT
       ![Appendable].data = Overwrite(@, DataEnd(Base), ToArchive)]
  /\ gcPc' = "mapping"
  /\ UNCHANGED <<control, prefixes, volumeNames, rwVars, target, boundVars,
                 roVars, archived>>

\* Ao.flush of the mapping.
WorkerMapping ==
  /\ gcPc = "mapping"
  /\ volumes' = [volumes EXCEPT
       ![Appendable].mapping = Overwrite(@, Len(Base),
         [i \in 1..Len(ToArchive) |->
            [off |-> ToArchive[i], poff |-> DataEnd(Base) + i]])]
  /\ gcPc' = "control"
  /\ UNCHANGED <<control, prefixes, volumeNames, rwVars, target, boundVars,
                 roVars, archived>>

\* The new control file of the volume, under a temporary name.
WorkerControl ==
  /\ gcPc = "control"
  /\ volumes' = [volumes EXCEPT ![Appendable].tmp[NextGen] =
       [start |-> IF IsEmpty(volumes[Appendable].control) THEN ToArchive[1]
                  ELSE volumes[Appendable].control.start,
        end |-> ToArchive[Len(ToArchive)] + 1,
        len |-> Len(Base) + Len(ToArchive)]]
  /\ gcPc' = "done"
  /\ UNCHANGED <<control, prefixes, volumeNames, rwVars, target, boundVars,
                 roVars, archived>>
-----------------------------------------------------------------------------
(* The main process ends a collection. *)

\* Lower.cleanup: the temporary control file of this generation takes the
\* name of the control file; the others stay, as unlink is given no directory.
CleanVolume(v) ==
  IF volumes[v].tmp[control.gen] = Nothing THEN volumes[v]
  ELSE [volumes[v] EXCEPT !.control = volumes[v].tmp[control.gen],
                          !.tmp[control.gen] = Nothing]

\* Fm.cleanup.
Cleanup ==
  /\ prefixes' = Restrict(prefixes, {control.gen} \cap DOMAIN prefixes)
  /\ volumes' = [volumes EXCEPT ![Appendable] = CleanVolume(Appendable)]

\* cancel, or finalise after the worker failed or died.
Abort ==
  /\ pc = "ready" /\ gcPc # "none"
  /\ Cleanup
  /\ gcPc' = "none" /\ target' = 0
  /\ UNCHANGED <<control, volumeNames, rwVars, boundVars, roVars, archived>>

\* Mutant of NewStart: a target of the lower layer moves the suffix back.
NewStartBack == target + 1

\* The suffix is not moved back by a target of the lower layer.
NewStart == IF control.start >= target THEN control.start ELSE target + 1

\* Fm.swap, step 2.
SwapControl ==
  /\ pc = "ready" /\ gcPc = "done"
  /\ control' = [control EXCEPT !.gen = @ + 1, !.start = NewStart,
                                !.target = target]
  /\ archived' = archived \cup {d \in history[target] \cap Commits : d < NewStart}
  /\ pc' = "swapped" /\ gcPc' = "none" /\ target' = 0
  /\ UNCHANGED <<prefixes, volumes, volumeNames, loaded, boundVars, roVars>>

\* Mutant of SwapVolume: the lower layer is not reloaded.
SwapVolumeNoReload ==
  /\ pc = "swapped"
  /\ volumes' = [volumes EXCEPT ![Appendable] = CleanVolume(Appendable)]
  /\ pc' = "unlinking"
  /\ UNCHANGED <<control, prefixes, volumeNames, loaded, gcVars, boundVars,
                 roVars, archived>>

\* Fm.swap, step 3: Lower.swap of the volume of the collection.
SwapVolume ==
  /\ pc = "swapped"
  /\ volumes' = [volumes EXCEPT ![Appendable] = CleanVolume(Appendable)]
  /\ loaded' = [v \in 1..Appendable |-> volumes'[v].control]
  /\ pc' = "unlinking"
  /\ UNCHANGED <<control, prefixes, volumeNames, gcVars, boundVars, roVars,
                 archived>>

\* unlink_all: the prefix before.
Unlink ==
  /\ pc = "unlinking"
  /\ prefixes' = Restrict(prefixes, DOMAIN prefixes \ {control.gen - 1})
  /\ pc' = "ready"
  /\ UNCHANGED <<control, volumes, volumeNames, loaded, gcVars, boundVars,
                 roVars, archived>>
-----------------------------------------------------------------------------
(* Deaths of the main process; its worker dies with it. *)

Crash ==
  /\ pc # "down" /\ crashes < MaxCrashes
  /\ pc = "swapped" => "crashSwapped" \in Allowed
  /\ pc' = "down" /\ crashes' = crashes + 1
  /\ loaded' = << >> /\ gcPc' = "none" /\ target' = 0
  /\ UNCHANGED <<storeVars, entries, gcs, roVars, archived>>

\* open_rw: make_lower, then the cleanup.
OpenLoads ==
  /\ pc = "down"
  /\ loaded' = Load(Appendable)
  /\ pc' = "opening"
  /\ UNCHANGED <<storeVars, gcVars, boundVars, roVars, archived>>

OpenCleans ==
  /\ pc = "opening"
  /\ Cleanup
  /\ pc' = "ready"
  /\ UNCHANGED <<control, volumeNames, loaded, gcVars, boundVars, roVars, archived>>
-----------------------------------------------------------------------------
(* A reader: open_ro, then reload. *)

\* The control file; a reload ends here when it is as before.
RoReadsControl ==
  /\ \/ roPc = "closed"
     \/ roPc = "ready" /\ roControl # control
  /\ roControl' = control /\ roArchived' = archived
  /\ roPc' = IF roPc = "ready" /\ roControl.gen = control.gen
                  /\ roControl.volumes = control.volumes
             THEN "ready" ELSE "loading"
  /\ UNCHANGED <<storeVars, rwVars, gcVars, boundVars, archived, roPrefix, roLoaded>>

\* The prefix, which may be gone: then the open or the reload fails.  Then the
\* control files of the volumes.
RoLoads ==
  /\ roPc = "loading"
  /\ pc = "swapped" /\ roControl.gen = control.gen => "loadSwapped" \in Allowed
  /\ IF roControl.gen > 0 /\ roControl.gen \notin DOMAIN prefixes
       THEN /\ roPc' = "closed" /\ roPrefix' = << >> /\ roLoaded' = << >>
            /\ roControl' = roControl /\ roArchived' = {}
       ELSE /\ roPc' = "ready" /\ roPrefix' = Prefix(roControl.gen)
            /\ roLoaded' = Load(roControl.volumes)
            /\ UNCHANGED <<roControl, roArchived>>
  /\ UNCHANGED <<storeVars, rwVars, gcVars, boundVars, archived>>
-----------------------------------------------------------------------------
Next ==
  \/ Commit \/ \E c \in Commits : StartGc(c)
  \/ AddCreates \/ AddCounts
  \/ WorkerPrefix \/ WorkerArchives \/ WorkerData \/ WorkerMapping
  \/ WorkerControl
  \/ Abort \/ SwapControl \/ SwapVolume \/ Unlink
  \/ Crash \/ OpenLoads \/ OpenCleans
  \/ RoReadsControl \/ RoLoads

Spec == Init /\ [][Next]_vars
-----------------------------------------------------------------------------
(* Properties. *)

VolumeControl == [start : Nat, end : Nat, len : Nat]
StoreControl == [gen : Gens, start : Nat, target : {0} \cup Commits,
                 volumes : Volumes]

TypeOK ==
  /\ entries \in {0} \cup Commits
  /\ control \in StoreControl /\ roControl \in StoreControl
  /\ DOMAIN prefixes \subseteq Gens
  /\ \A g \in DOMAIN prefixes : prefixes[g] \in Seq(Entries)
  /\ \A v \in Volumes :
       /\ volumes[v].mapping \in Seq([off : Entries, poff : Nat \ {0}])
       /\ volumes[v].data \in Seq(Entries)
       /\ volumes[v].control \in VolumeControl
       /\ volumes[v].tmp \in [Gens -> VolumeControl]
  /\ volumeNames \subseteq Volumes
  /\ pc \in {"ready", "adding", "swapped", "unlinking", "down", "opening"}
  /\ loaded \in Seq(VolumeControl) /\ roLoaded \in Seq(VolumeControl)
  /\ gcPc \in {"none", "prefix", "archive", "refused", "data", "mapping",
               "control", "done"}
  /\ target \in {0} \cup Commits
  /\ gcs \in 0..MaxGcs /\ crashes \in 0..MaxCrashes
  /\ roPc \in {"closed", "loading", "ready"}
  /\ roPrefix \in Seq(Entries)
  /\ archived \subseteq Commits /\ roArchived \subseteq Commits

\* Between two operations, the main process reads every archived commit, its
\* tree and its parents, from what it has in memory, while the worker of the
\* next collection writes to the files of the last volume.
RwReads ==
  pc = "ready" =>
    \A c \in archived : CanReadCommit(control, Prefix(control.gen), loaded, c)

\* So does a reader, for what was archived when it read the control file, even
\* when collections, aborts and restarts came after.
RoReads ==
  roPc = "ready" =>
    \A c \in roArchived : CanReadCommit(roControl, roPrefix, roLoaded, c)

\* Both processes read what was archived, each from the volumes it loaded.
ArchivedReads == TypeOK /\ RwReads /\ RoReads

\* At every instant, the files are enough: with the control file that a restart
\* renames in the last volume, every archived commit can be read.
Recoverable ==
  LET cs == [v \in 1..Appendable |->
               IF v = Appendable THEN CleanVolume(v).control
               ELSE volumes[v].control]
  IN  \A c \in archived : CanReadCommit(control, Prefix(control.gen), cs, c)

\* lower_layer.md: a volume is self-contained: a commit that it holds has its
\* tree and its parents there, whatever the prefix and the suffix have.
SelfContained ==
  LET cs == Load(Appendable)
  IN  pc = "ready" =>
        \A c \in archived :
          /\ Holders(cs, c) # {}
          /\ \A d \in Snapshot(c) :
               InVolume(Holder(cs, c), cs[Holder(cs, c)].len, d)

\* lower_layer.md, Validations: the last volume never has history that is newer
\* than what a collection archives; otherwise no collection could end any more.
ArchiveAccepted == gcPc # "refused"
=============================================================================
