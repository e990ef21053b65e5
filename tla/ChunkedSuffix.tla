---------------------------- MODULE ChunkedSuffix ----------------------------
(***************************************************************************)
(* The suffix of an irmin-pack store as a list of chunk files, and how      *)
(* batches, splits and garbage collections of one writer process change it  *)
(* under the readers.  A split makes the last chunk immutable and starts a  *)
(* new one (File_manager.split).  A collection forks a worker that opens    *)
(* the store, copies what its commit reaches into a prefix file and says    *)
(* which chunks are now useless (Gc_worker.run); the main process, which    *)
(* may have written and split meanwhile, then swaps (File_manager.swap) and *)
(* unlinks (Gc.unlink_all).  Batches, splits and swaps do not overlap here: *)
(* the fibers that could make them overlap are in another module.           *)
(*                                                                         *)
(* An entry takes one unit and is named by the number of its append, so an  *)
(* offset is a count of entries.  Any entry may be a collection's commit.   *)
(* A file keeps its contents here after its name is unlinked, as it does    *)
(* for the processes that still have it open.                               *)
(***************************************************************************)
EXTENDS Integers, Sequences, FiniteSets

CONSTANTS
  Needs,       \* the offsets reachable from the entry at each offset, with it
  AutoFlush,   \* whether a batch may fill the append buffer
  DiesAt,      \* the stages of the writer at which the process may die
  HasReader,   \* whether there is a reader process
  MaxEntries,  \* bound: entries of the log
  MaxAppends,  \* bound: appends, those lost in a crash included
  MaxChunks,   \* bound: index of the last chunk
  MaxGcs,      \* bound: collections
  MaxCrashes   \* bound: deaths of the writer process

Stages == {"ready", "batch", "control", "split"}
Offsets == 0..MaxEntries - 1

ASSUME ConstantsAssumption ==
  /\ AutoFlush \in BOOLEAN /\ HasReader \in BOOLEAN
  /\ DiesAt \subseteq Stages
  /\ MaxEntries \in Nat /\ MaxAppends \in Nat /\ MaxChunks \in Nat
  /\ MaxGcs \in Nat /\ MaxCrashes \in Nat
  /\ Needs \in [Offsets -> SUBSET Offsets]
  \* Reachability goes to older offsets and is transitive.
  /\ \A o \in Offsets : o \in Needs[o] /\ Needs[o] \subseteq 0..o
  /\ \A o \in Offsets : \A p \in Needs[o] : Needs[p] \subseteq Needs[o]

VARIABLES
  \* files
  chunkFile,    \* the entries of the chunk file of each index
  chunkNames,   \* the indexes whose chunk file is in the directory
  prefixFile,   \* the entries of the prefix of each generation, by offset
  prefixNames,  \* the generations whose prefix is in the directory
  control,      \* the payload of the control file
  \* the main process of the writer
  pc,           \* "down", "ready", in a "batch", or between two writes
  payload, chunks,
  buf,          \* the append buffer of the last chunk
  unlinking,    \* the chunk indexes whose unlink has not run yet
  unlinkingPrefix,
  \* the collection
  gcPc,         \* "none", "forked", "opened" or "done"
  gcTarget,     \* the offset of its commit
  gcStart,      \* the new start of the suffix
  gcPayload, gcChunks,    \* the store as the worker opened it
  \* the reader
  roPc, roPayload, roChunks,
  roPrefix,     \* the generation of its prefix, 0 for none
  roStale,      \* what its reload has still to reopen
  \* history
  log,          \* the entries of the writer, by offset + 1
  published,    \* how many of them the control file covers
  roLen,        \* how many it covered when the reader read it
  appends, crashes

fileVars == <<chunkFile, chunkNames, prefixFile, prefixNames, control>>
rwVars == <<pc, payload, chunks, buf, unlinking, unlinkingPrefix>>
gcVars == <<gcPc, gcTarget, gcStart, gcPayload, gcChunks>>
roVars == <<roPc, roPayload, roChunks, roPrefix, roStale, roLen>>
logVars == <<log, published, appends>>
vars == <<fileVars, rwVars, gcVars, roVars, logVars, crashes>>

Payload == [start : Nat, num : Nat \ {0}, poff : Nat, gen : Nat, target : Int,
            startOff : Nat, dead : Nat]
Chunk == [idx : Nat, off : Nat, end : Nat]

\* A read that no file answers.
Missing == -1

NewStore == [start |-> 0, num |-> 1, poff |-> 0, gen |-> 0, target |-> -1,
             startOff |-> 0, dead |-> 0]
-----------------------------------------------------------------------------
(* Chunked_suffix. *)

Last(cs) == cs[Len(cs)]

\* The contents of a chunk file after es is written at offset off.
Written(file, off, es) ==
  [i \in 1..(IF off + Len(es) > Len(file) THEN off + Len(es) ELSE Len(file)) |->
     IF i > off /\ i <= off + Len(es) THEN es[i - off] ELSE file[i]]

\* Ao_shim.v: the end of the appendable chunk is the one of the control file,
\* the end of the others is their size on disk.
ChunkEnd(idx, isAppendable, poff) ==
  IF isAppendable THEN poff ELSE Len(chunkFile[idx])

\* Inventory.open_: each chunk starts where the one before it ends.
Inventory(start, num, poff) ==
  LET End(i) == ChunkEnd(start + i - 1, i = num, poff)
      off[i \in 1..num] == IF i = 1 THEN 0 ELSE off[i - 1] + End(i - 1)
  IN [i \in 1..num |-> [idx |-> start + i - 1, off |-> off[i], end |-> End(i)]]

\* The files of an inventory are there and long enough to be opened.
CanOpen(start, num, poff) ==
  /\ start..start + num - 1 \subseteq chunkNames
  /\ poff <= Len(chunkFile[start + num - 1])

\* Inventory.length: the sum of the lengths of the chunks.
EndSoff(cs) ==
  LET sum[i \in 0..Len(cs)] == IF i = 0 THEN 0 ELSE sum[i - 1] + cs[i].end
  IN sum[Len(cs)]

\* read_exn: the first chunk that contains the offset, and the entry there.
ReadSuffix(cs, soff) ==
  LET holds == {i \in 1..Len(cs) : soff >= cs[i].off /\ soff < cs[i].off + cs[i].end}
  IN IF holds = {} THEN Missing
     ELSE LET c == cs[CHOOSE i \in holds : \A j \in holds : i <= j]
          IN IF soff - c.off < Len(chunkFile[c.idx])
             THEN chunkFile[c.idx][soff - c.off + 1] ELSE Missing

(* Dispatcher. *)

SoffOfOffset(p, o) == o - p.startOff + p.dead
OffsetOfSoff(p, soff) == p.startOff + soff - p.dead

\* read_exn: through the suffix from its start offset on, through the prefix
\* of generation g before it.
Read(p, cs, g, o) ==
  IF o >= p.startOff THEN ReadSuffix(cs, SoffOfOffset(p, o))
  ELSE IF g # 0 /\ o \in DOMAIN prefixFile[g] THEN prefixFile[g][o]
  ELSE Missing

\* The offsets a store with payload p still has to answer for, below n.
Live(p, n) == {o \in 0..n - 1 : p.target = -1 \/ o > p.target \/ o \in Needs[p.target]}

\* end_offset: the offset the next entry is given.
EndOffset(p, cs, b) == OffsetOfSoff(p, EndSoff(cs) + Len(b))
-----------------------------------------------------------------------------
(* The main process: batches and splits. *)

Init ==
  /\ chunkFile = [i \in 0..MaxChunks |-> << >>] /\ chunkNames = {0}
  /\ prefixFile = [g \in 1..MaxGcs |-> << >>] /\ prefixNames = {}
  /\ control = NewStore
  /\ pc = "ready" /\ payload = NewStore
  /\ chunks = <<[idx |-> 0, off |-> 0, end |-> 0]>> /\ buf = << >>
  /\ unlinking = {} /\ unlinkingPrefix = {}
  /\ gcPc = "none" /\ gcTarget = -1 /\ gcStart = 0
  /\ gcPayload = NewStore /\ gcChunks = << >>
  /\ roPc = "down" /\ roPayload = NewStore /\ roChunks = << >>
  /\ roPrefix = 0 /\ roStale = {} /\ roLen = 0
  /\ log = << >> /\ published = 0 /\ appends = 0
  /\ crashes = 0

StartBatch ==
  /\ pc = "ready"
  /\ pc' = "batch"
  /\ UNCHANGED <<fileVars, payload, chunks, buf, unlinking, unlinkingPrefix,
                 gcVars, roVars, logVars, crashes>>

\* The last chunk once b is written at its end.
FlushedChunks(b) ==
  [chunks EXCEPT ![Len(chunks)].end = @ + Len(b)]
FlushedFiles(b) ==
  [chunkFile EXCEPT ![Last(chunks).idx] = Written(@, Last(chunks).end, b)]

\* append_exn: the entry joins the buffer, which is written out when full.
AppendEntry ==
  /\ pc = "batch"
  /\ Len(log) < MaxEntries /\ appends < MaxAppends
  /\ appends' = appends + 1
  /\ log' = Append(log, appends')
  /\ \/ /\ buf' = Append(buf, appends')
        /\ UNCHANGED <<chunkFile, chunks>>
     \/ /\ AutoFlush
        /\ chunkFile' = FlushedFiles(Append(buf, appends'))
        /\ chunks' = FlushedChunks(Append(buf, appends'))
        /\ buf' = << >>
  /\ UNCHANGED <<chunkNames, prefixFile, prefixNames, control, pc, payload,
                 unlinking, unlinkingPrefix, gcVars, roVars, published, crashes>>

\* The flush at the end of a batch: first the suffix ...
FlushSuffix ==
  /\ pc = "batch"
  /\ pc' = "control"
  /\ chunkFile' = FlushedFiles(buf)
  /\ chunks' = FlushedChunks(buf)
  /\ buf' = << >>
  /\ UNCHANGED <<chunkNames, prefixFile, prefixNames, control, payload, unlinking,
                 unlinkingPrefix, gcVars, roVars, logVars, crashes>>

SetPayload(p) == payload' = p /\ control' = p

\* ... then the control file, with the end of the last chunk.
FlushControl ==
  /\ pc = "control"
  /\ pc' = "ready"
  /\ SetPayload([payload EXCEPT !.poff = Last(chunks).end])
  /\ published' = Len(log)
  /\ UNCHANGED <<chunkFile, chunkNames, prefixFile, prefixNames, chunks, buf,
                 unlinking, unlinkingPrefix, gcVars, roVars, log, appends, crashes>>

\* split, first step: add_chunk.  The last chunk is reopened with the size of
\* its file; the new one starts at the end it had in memory.  Its file is
\* created, or truncated when an earlier split left it.
AddChunk ==
  LET last == Last(chunks)
      new == last.idx + 1
      closed == [last EXCEPT !.end = ChunkEnd(last.idx, FALSE, 0)]
  IN /\ pc = "ready" /\ last.end # 0
     /\ new <= MaxChunks
     /\ pc' = "split"
     /\ chunks' = Append([chunks EXCEPT ![Len(chunks)] = closed],
                         [idx |-> new, off |-> last.off + last.end, end |-> 0])
     /\ chunkFile' = [chunkFile EXCEPT ![new] = << >>]
     /\ chunkNames' = chunkNames \cup {new}
     /\ UNCHANGED <<prefixFile, prefixNames, control, payload, buf, unlinking,
                    unlinkingPrefix, gcVars, roVars, logVars, crashes>>

\* split, second step: the control file takes the new chunk in.
SplitControl ==
  /\ pc = "split"
  /\ pc' = "ready"
  /\ SetPayload([payload EXCEPT !.num = @ + 1, !.poff = 0])
  /\ UNCHANGED <<chunkFile, chunkNames, prefixFile, prefixNames, chunks, buf,
                 unlinking, unlinkingPrefix, gcVars, roVars, logVars, crashes>>
-----------------------------------------------------------------------------
(* Garbage collection. *)

\* Gc.v, forbidden during a batch and on commits not newer than the last one.
\* The suffix will start after the commit, unless it starts there already.
StartGc(c) ==
  /\ pc = "ready" /\ gcPc = "none"
  /\ payload.gen < MaxGcs
  /\ c > payload.target
  /\ gcPc' = "forked" /\ gcTarget' = c
  /\ gcStart' = IF payload.gen > 0 /\ payload.startOff >= c
                THEN payload.startOff ELSE c + 1
  /\ UNCHANGED <<fileVars, rwVars, gcPayload, gcChunks, roVars, logVars, crashes>>

\* The worker opens the store like a reader; the main process goes on.
WorkerOpens ==
  /\ gcPc = "forked"
  /\ CanOpen(control.start, control.num, control.poff)
  /\ gcPc' = "opened"
  /\ gcPayload' = control
  /\ gcChunks' = Inventory(control.start, control.num, control.poff)
  /\ UNCHANGED <<fileVars, rwVars, gcTarget, gcStart, roVars, logVars, crashes>>

WorkerRead(o) == Read(gcPayload, gcChunks, gcPayload.gen, o)

\* The worker finds every object that its commit reaches.
CanCopy == \A o \in Needs[gcTarget] : WorkerRead(o) # Missing

\* The worker writes the next prefix, a file that must not exist.
WorkerWrites ==
  LET gen == gcPayload.gen + 1
  IN /\ gcPc = "opened" /\ CanCopy /\ gen \notin prefixNames
     /\ gcPc' = "done"
     /\ prefixFile' = [prefixFile EXCEPT ![gen] =
          [o \in Needs[gcTarget] |-> WorkerRead(o)]]
     /\ prefixNames' = prefixNames \cup {gen}
     /\ UNCHANGED <<chunkFile, chunkNames, control, rwVars, gcTarget, gcStart,
                    gcPayload, gcChunks, roVars, logVars, crashes>>

NoGc ==
  /\ gcPc' = "none" /\ gcTarget' = -1 /\ gcStart' = 0
  /\ gcPayload' = NewStore /\ gcChunks' = << >>

GcSoff == SoffOfOffset(gcPayload, gcStart)

\* Mutant of Removable: a chunk that only starts before the new start is taken.
RemovableByStart ==
  {i \in 1..Len(gcChunks) - 1 : gcChunks[i].end # 0 /\ gcChunks[i].off < GcSoff}

\* Step 6.1: the chunks, except the appendable one, that end before the new
\* start of the suffix.
Removable ==
  {i \in 1..Len(gcChunks) - 1 :
     gcChunks[i].end # 0 /\ gcChunks[i].off + gcChunks[i].end <= GcSoff}

\* Steps 6.2 and 6.3: the first chunk left, and the dead bytes before the new
\* start of the suffix in it.
SuffixParams ==
  IF Removable = {} THEN [start |-> gcChunks[1].idx, dead |-> GcSoff]
  ELSE LET last == gcChunks[CHOOSE i \in Removable : \A j \in Removable : j <= i]
       IN [start |-> last.idx + 1,
           dead |-> gcStart - OffsetOfSoff(gcPayload, last.off + last.end)]

\* Mutant of NewChunkNum: the chunks the worker saw are counted.
NewChunkNumOfWorker == Len(gcChunks) - Cardinality(Removable)

\* swap_and_purge: the main process may have added chunks since.
NewChunkNum == Len(chunks) - Cardinality(Removable)

\* The payload swap writes.
Swapped ==
  [payload EXCEPT !.start = SuffixParams.start, !.num = NewChunkNum,
                  !.gen = gcPayload.gen + 1, !.target = gcTarget,
                  !.startOff = gcStart, !.dead = SuffixParams.dead]

RemovableIdxs == {gcChunks[i].idx : i \in Removable}

\* Mutant of Swap: the old files are unlinked before the control file changes.
SwapUnlinksFirst ==
  /\ pc = "ready" /\ gcPc = "done" /\ buf = << >>
  /\ chunkNames \cap RemovableIdxs # {}
  /\ chunkNames' = chunkNames \ RemovableIdxs
  /\ UNCHANGED <<chunkFile, prefixFile, prefixNames, control, rwVars, gcVars,
                 roVars, logVars, crashes>>

\* finalise: swap reopens prefix and suffix and writes the control file, then
\* unlink_all starts to unlink the files that are no longer used.
Swap ==
  /\ pc = "ready" /\ gcPc = "done" /\ buf = << >>
  /\ NoGc
  /\ chunks' = Inventory(Swapped.start, Swapped.num, payload.poff)
  /\ SetPayload(Swapped)
  /\ unlinking' = unlinking \cup RemovableIdxs
  /\ unlinkingPrefix' = IF gcPayload.gen >= 1
                        THEN unlinkingPrefix \cup {gcPayload.gen}
                        ELSE unlinkingPrefix
  /\ UNCHANGED <<chunkFile, chunkNames, prefixFile, prefixNames, pc, buf,
                 roVars, logVars, crashes>>

\* unlink_dont_wait: a file disappears some time later.
UnlinkChunk(i) ==
  /\ i \in unlinking
  /\ unlinking' = unlinking \ {i}
  /\ chunkNames' = chunkNames \ {i}
  /\ UNCHANGED <<chunkFile, prefixFile, prefixNames, control, pc, payload, chunks,
                 buf, unlinkingPrefix, gcVars, roVars, logVars, crashes>>

UnlinkPrefix(g) ==
  /\ g \in unlinkingPrefix
  /\ unlinkingPrefix' = unlinkingPrefix \ {g}
  /\ prefixNames' = prefixNames \ {g}
  /\ UNCHANGED <<chunkFile, chunkNames, prefixFile, control, pc, payload, chunks,
                 buf, unlinking, gcVars, roVars, logVars, crashes>>

\* Mutant of Residual: chunks before the first one are kept.
ResidualAfterOnly ==
  {i \in chunkNames : i > control.start + control.num}

\* cleanup: the chunk files that do not belong to the store.
Residual ==
  {i \in chunkNames : i < control.start \/ i > control.start + control.num}

\* Fm.cleanup.
Cleanup ==
  /\ chunkNames' = chunkNames \ Residual
  /\ prefixNames' = prefixNames \cap {control.gen}

\* finalise when the worker failed: its commit reaches an object that an
\* earlier collection gave up.
GcFails ==
  /\ pc = "ready" /\ gcPc = "opened" /\ ~CanCopy
  /\ NoGc
  /\ Cleanup
  /\ UNCHANGED <<chunkFile, prefixFile, control, rwVars, roVars, logVars, crashes>>
-----------------------------------------------------------------------------
(* The writer process dies and starts again. *)

\* The process of the writer dies, its worker with it.
CrashRw ==
  /\ pc \in DiesAt /\ crashes < MaxCrashes
  /\ crashes' = crashes + 1
  /\ pc' = "down" /\ NoGc
  /\ payload' = NewStore /\ chunks' = << >> /\ buf' = << >>
  /\ unlinking' = {} /\ unlinkingPrefix' = {}
  /\ log' = SubSeq(log, 1, published)
  /\ UNCHANGED <<fileVars, roVars, published, appends>>

\* open_rw, which starts by reading the control file and ends with cleanup.
OpenRw ==
  /\ pc = "down"
  /\ CanOpen(control.start, control.num, control.poff)
  /\ control.gen # 0 => control.gen \in prefixNames
  /\ pc' = "ready"
  /\ payload' = control
  /\ chunks' = Inventory(control.start, control.num, control.poff)
  /\ Cleanup
  /\ UNCHANGED <<chunkFile, prefixFile, control, buf, unlinking, unlinkingPrefix,
                 gcVars, roVars, logVars, crashes>>
-----------------------------------------------------------------------------
(* The reader. *)

\* open_ro reads the control file.
RoOpenControl ==
  /\ HasReader /\ roPc \in {"down", "refused"}
  /\ roPc' = "openSuffix"
  /\ roPayload' = control /\ roLen' = published
  /\ roStale' = {"suffix"} \cup (IF control.gen = 0 THEN {} ELSE {"prefix"})
  /\ UNCHANGED <<fileVars, rwVars, gcVars, roChunks, roPrefix, logVars, crashes>>

\* What reload has to reopen after the payload went from old to new.
Stale(old, new) ==
  (IF old.num # new.num \/ old.start # new.start THEN {"suffix"} ELSE {})
    \cup (IF old.gen # new.gen THEN {"prefix"} ELSE {})

\* reload rereads the control file: a no-op when it did not change.
RoReloadControl ==
  /\ roPc \in {"ready", "failed"}
  /\ control # roPayload
  /\ roPc' = "suffix"
  /\ roStale' = Stale(roPayload, control)
  /\ roPayload' = control /\ roLen' = published
  /\ UNCHANGED <<fileVars, rwVars, gcVars, roChunks, roPrefix, logVars, crashes>>

RoGone ==
  /\ roPayload' = NewStore /\ roChunks' = << >> /\ roPrefix' = 0 /\ roLen' = 0
  /\ roStale' = {}

\* A file is missing.  open_ro returns the error; reload returns it too and
\* leaves the instance with the new control payload and the old files.
RoFails ==
  \/ /\ roPc \in {"openSuffix", "openPrefix"}
     /\ roPc' = "refused" /\ RoGone
  \/ /\ roPc \in {"suffix", "prefix"}
     /\ roPc' = "failed"
     /\ UNCHANGED <<roPayload, roChunks, roPrefix, roStale, roLen>>

RoSuffix ==
  /\ roPc \in {"openSuffix", "suffix"}
  /\ IF "suffix" \in roStale
        /\ ~CanOpen(roPayload.start, roPayload.num, roPayload.poff)
     THEN RoFails
     ELSE /\ roPc' = IF roPc = "openSuffix" THEN "openPrefix" ELSE "prefix"
          /\ roChunks' =
               IF "suffix" \in roStale
               THEN Inventory(roPayload.start, roPayload.num, roPayload.poff)
               ELSE roChunks
          /\ UNCHANGED <<roPayload, roPrefix, roStale, roLen>>
  /\ UNCHANGED <<fileVars, rwVars, gcVars, logVars, crashes>>

\* The prefix, then the new end of the last chunk.
RoPrefix ==
  /\ roPc \in {"openPrefix", "prefix"}
  /\ IF "prefix" \in roStale /\ roPayload.gen \notin prefixNames
     THEN RoFails
     ELSE /\ roPc' = "ready"
          /\ roChunks' = [roChunks EXCEPT ![Len(roChunks)].end = roPayload.poff]
          /\ roPrefix' = IF "prefix" \in roStale THEN roPayload.gen ELSE roPrefix
          /\ roStale' = {}
          /\ UNCHANGED <<roPayload, roLen>>
  /\ UNCHANGED <<fileVars, rwVars, gcVars, logVars, crashes>>

\* The reader closes its instance.
RoClose ==
  /\ roPc \in {"ready", "failed"}
  /\ roPc' = "down" /\ RoGone
  /\ UNCHANGED <<fileVars, rwVars, gcVars, logVars, crashes>>

Next ==
  \/ StartBatch \/ AppendEntry \/ FlushSuffix \/ FlushControl
  \/ AddChunk \/ SplitControl
  \/ \E c \in 0..Len(log) - 1 : StartGc(c)
  \/ WorkerOpens \/ WorkerWrites \/ Swap \/ GcFails
  \/ \E i \in unlinking : UnlinkChunk(i)
  \/ \E g \in unlinkingPrefix : UnlinkPrefix(g)
  \/ CrashRw \/ OpenRw
  \/ RoOpenControl \/ RoReloadControl \/ RoSuffix \/ RoPrefix \/ RoClose

Spec == Init /\ [][Next]_vars
-----------------------------------------------------------------------------
(* Properties. *)

\* The variables have their types, and the buffer is empty outside batches.
TypeOK ==
  /\ chunkFile \in [0..MaxChunks -> Seq(Nat)] /\ chunkNames \subseteq 0..MaxChunks
  /\ prefixNames \subseteq 1..MaxGcs
  /\ \A g \in 1..MaxGcs : \A o \in DOMAIN prefixFile[g] :
       o \in Offsets /\ prefixFile[g][o] \in Nat
  /\ control \in Payload
  /\ pc \in Stages \cup {"down"} /\ payload \in Payload
  /\ chunks \in Seq(Chunk) /\ buf \in Seq(Nat)
  /\ pc # "batch" => buf = << >>
  /\ unlinking \subseteq 0..MaxChunks /\ unlinkingPrefix \subseteq 1..MaxGcs
  /\ gcPc \in {"none", "forked", "opened", "done"}
  /\ gcTarget \in Int /\ gcStart \in Nat /\ gcPayload \in Payload
  /\ gcChunks \in Seq(Chunk)
  /\ roPc \in {"down", "refused", "openSuffix", "openPrefix", "suffix",
                "prefix", "ready", "failed"}
  /\ roPayload \in Payload /\ roChunks \in Seq(Chunk) /\ roPrefix \in 0..MaxGcs
  /\ roStale \subseteq {"suffix", "prefix"}
  /\ log \in Seq(Nat) /\ published \in 0..Len(log) /\ roLen \in Nat
  /\ appends \in 0..MaxAppends /\ crashes \in 0..MaxCrashes

\* What a store with payload p, chunks cs, an open prefix of generation g and
\* b in its buffer answers is right: the next offset is n + Len(b), and the
\* live offsets below n read as the entries that were given them.
Answers(p, cs, g, b, n) ==
  /\ EndOffset(p, cs, b) = n + Len(b)
  /\ \A o \in Live(p, n) : Read(p, cs, g, o) = log[o + 1]

PublishedInventory == Inventory(control.start, control.num, control.poff)

\* At every instant, between any two writes of a flush, split or collection,
\* a process that opened the store now would find every file the control file
\* names, and in them everything published that no collection gave up.
PublishedReads ==
  /\ CanOpen(control.start, control.num, control.poff)
  /\ control.gen \in prefixNames \cup {0}
  /\ Answers(control, PublishedInventory, control.gen, << >>, published)

\* The writer gives the next entry the next offset, and reads back what it
\* wrote, through any series of flushes, splits, collections and restarts.
WriterReads ==
  pc # "down" =>
    Answers(payload, chunks, payload.gen, buf, Len(log) - Len(buf))

\* A reader that is not in the middle of a reload, and none of whose reloads
\* failed, reads exactly what was published when it last read the control
\* file, although the writer has unlinked and split since.
ReaderReads ==
  roPc = "ready" => Answers(roPayload, roChunks, roPrefix, << >>, roLen)

\* Writer and reader, each from the files it has open, read the entry that was
\* given the offset, through splits and collections that the one makes while
\* the other holds an older view.
Reads == TypeOK /\ WriterReads /\ ReaderReads

\* A death at any point leaves files that can be opened and a writer that goes
\* on with the offsets and the entries it had published.
SurvivesDeath == PublishedReads /\ WriterReads

\* Once a writer is open and its collections are over, the directory has the
\* files of the store and at most one chunk more, which cleanup spares.
ResidueBounded ==
  pc = "ready" /\ gcPc = "none" /\ unlinking = {} /\ unlinkingPrefix = {} =>
    /\ chunkNames \subseteq payload.start..payload.start + payload.num
    /\ prefixNames \subseteq {payload.gen}

\* The files implement a log that collections shorten: what a process that
\* opened the store now could read.
Readable ==
  LET cs == PublishedInventory
  IN [o \in Live(control, published) |-> Read(control, cs, control.gen, o)]

Collected == INSTANCE CollectedLog WITH store <- Readable, end <- published

CollectedSpec == Collected!Spec
=============================================================================
