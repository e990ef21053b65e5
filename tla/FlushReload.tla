----------------------------- MODULE FlushReload -----------------------------
(***************************************************************************)
(* How one writer and one reader share the dict, suffix, index and control *)
(* files of an irmin-pack store.  The writer buffers dict strings and      *)
(* suffix entries (Append_only_file), writes them out in a fixed order     *)
(* (File_manager.flush) or early when a buffer fills up, and publishes     *)
(* them by renaming a new control file.  The reader polls                  *)
(* (File_manager.reload).  Either process may die between two system       *)
(* calls, the calls of the writer may fail, the machine may lose power.    *)
(*                                                                         *)
(* A dict string and a suffix entry take one unit of their file, so an     *)
(* offset is a count of units.  An entry carries its hash, which stands    *)
(* for its content, and the dict id its one path step was encoded with: 0  *)
(* when the dict was full and the step was written inline.  The suffix has *)
(* one chunk here; splits and garbage collection are in other modules.     *)
(***************************************************************************)
EXTENDS Naturals, Sequences

CONSTANTS
  Hashes,        \* the values that can be stored, named by their hash
  Indexed,       \* those whose kind is indexed and deduplicated (commits)
  Strings,       \* path steps
  StepOf,        \* the path step in the content of each value
  DictCapacity,  \* Dict.default_capacity
  UseFsync,      \* the use_fsync configuration key
  PowerFails,    \* whether the machine may lose power
  Failing,       \* which system calls may fail: of "append", "flush", "fsync"
  Junk,          \* unspecified bytes left by a power failure
  NoHash,        \* no value is being added
  MaxEntries,    \* bound: length of the suffix
  MaxCrashes     \* bound: deaths of the writer process

ASSUME ConstantsAssumption ==
  /\ Indexed \subseteq Hashes
  /\ NoHash \notin Hashes
  /\ StepOf \in [Hashes -> Strings]
  /\ Junk \notin Strings
  /\ Junk \notin [hash : Hashes, id : Nat]
  /\ DictCapacity \in Nat /\ MaxEntries \in Nat /\ MaxCrashes \in Nat
  /\ UseFsync \in BOOLEAN /\ PowerFails \in BOOLEAN
  /\ Failing \subseteq {"append", "flush", "fsync"}
  \* Without fsync the code promises nothing after a power failure.
  /\ PowerFails => UseFsync

VARIABLES
  \* files: their contents, and the length an fsync has made durable
  dictFile, suffixFile,
  control,      \* the payload a process reads from the control file
  controlSafe,  \* the payload found there after a power failure, at worst
  indexFile, indexSafe,
  \* the writer
  pc,           \* "down", "ready", or the stage its flush has reached
  auto,         \* the flush was triggered by the index
  dict,         \* the append-only file under the dict
  dictIndex,    \* the strings of the dict, by id
  suffix,       \* the append-only file under the suffix
  payload,      \* the control payload in memory
  controlIo,    \* the handle of the control file is still open
  index, staging,
  adding,       \* the value whose Index.add is running
  \* the reader
  roPc, roPayload, roSuffixEnd, roDictEnd, roDictIndex, roIndex,
  \* history
  acked,        \* length of the suffix when a flush last returned
  ackedIndex,   \* the commits that were in the index then
  crashes

fileVars == <<dictFile, suffixFile, control, controlSafe, indexFile, indexSafe>>
rwVars == <<pc, auto, dict, dictIndex, suffix, payload, controlIo, index,
            staging, adding>>
roVars == <<roPc, roPayload, roSuffixEnd, roDictEnd, roDictIndex, roIndex>>
ackVars == <<acked, ackedIndex>>
vars == <<fileVars, rwVars, roVars, ackVars, crashes>>

Entry == [hash : Hashes, id : Nat]
Payload == [dict : Nat, suffix : Nat]
File(X) == [data : Seq(X), safe : Nat]
Ao(X) == [persisted : Nat, buf : Seq(X), fsync : BOOLEAN, full : BOOLEAN]

FlushStages == {"dict", "suffix", "control", "controlFsync", "index"}
RoStages == {"openSuffix", "openDict", "openIndex", "control", "suffix", "dict"}
RoAtRest == {"opened", "reloaded"}

NoIndex == [h \in Indexed |-> 0]
NoPayload == [dict |-> 0, suffix |-> 0]
-----------------------------------------------------------------------------
(* Files. *)

Least(m, n) == IF m <= n THEN m ELSE n
Greatest(m, n) == IF m >= n THEN m ELSE n

\* The contents of a file after buf is written at offset off; a hole is junk.
Overwrite(s, off, buf) ==
  [i \in 1..Greatest(Len(s), off + Len(buf)) |->
     CASE off < i /\ i <= off + Len(buf) -> buf[i - off]
       [] i <= off /\ i <= Len(s)        -> s[i]
       [] i > off + Len(buf)             -> s[i]
       [] OTHER                          -> Junk]

WriteAt(file, off, buf) ==
  [data |-> Overwrite(file.data, off, buf), safe |-> Least(file.safe, off)]

Fsynced(file) == [data |-> file.data, safe |-> Len(file.data)]

\* The contents after a power failure: the fsynced part, then n - safe units
\* nobody vouches for.
Surviving(file, n) ==
  [data |-> [i \in 1..n |-> IF i <= file.safe THEN file.data[i] ELSE Junk],
   safe |-> Least(file.safe, n)]

(* Append_only_file. *)

EndPoff(ao) == ao.persisted + Len(ao.buf)

Opened(end) ==
  [persisted |-> end, buf |-> << >>, fsync |-> FALSE, full |-> FALSE]

Consistent(file, end) == end <= Len(file.data)

Flushed(ao) ==
  [persisted |-> EndPoff(ao), buf |-> << >>, fsync |-> TRUE, full |-> FALSE]

FlushedFile(ao, file) == WriteAt(file, ao.persisted, ao.buf)

Buffered(ao, x) == [ao EXCEPT !.buf = Append(ao.buf, x)]

\* append_exn: the buffer takes x and is written out when it is full.  The
\* threshold counts bytes, which the model does not: any append may reach it.
\* A write cut short by a crash leaves no more than a shorter write would.
AppendExn(ao, file, x) ==
  LET b == Buffered(ao, x) IN
  IF ao.full THEN {}
  ELSE {[ao |-> b, file |-> file],
        [ao |-> Flushed(b), file |-> FlushedFile(b, file)]}

\* Mutant of AppendFailed: the error of the write is dropped.
AppendFailedIgnored(ao, x) == Flushed(Buffered(ao, x))

\* The write of append_exn failed: x stays in the buffer, and the assertion
\* on the length of the buffer stops every append until a flush empties it.
AppendFailed(ao, x) ==
  IF ao.full THEN ao ELSE [Buffered(ao, x) EXCEPT !.full = TRUE]

\* The write of a flush stage.
Written(ao, file) ==
  IF ao.buf = << >> THEN [ao |-> ao, file |-> file]
  ELSE [ao |-> Flushed(ao), file |-> FlushedFile(ao, file)]

\* The write and the fsync of a flush stage.  Other processes never read past
\* the offsets of the control file, so they cannot tell the two apart.
FlushStage(ao, file) ==
  LET w == Written(ao, file) IN
  IF ~UseFsync THEN w
  ELSE [ao |-> [w.ao EXCEPT !.fsync = FALSE],
        file |-> IF w.ao.fsync THEN Fsynced(w.file) ELSE w.file]

(* Dict. *)

\* refill: the strings between two offsets of the file join those in memory.
Refill(strings, file, from, to) == strings \o SubSeq(file.data, from + 1, to)

DictIds(s) == {i \in 1..Len(dictIndex) : dictIndex[i] = s}

\* index: the id of s, with the strings of the dict after the call.
DictAdd(s, id) ==
  \/ /\ id \in DictIds(s)
     /\ UNCHANGED <<dict, dictIndex, dictFile>>
  \/ /\ DictIds(s) = {} /\ Len(dictIndex) > DictCapacity
     /\ id = 0
     /\ UNCHANGED <<dict, dictIndex, dictFile>>
  \/ /\ DictIds(s) = {} /\ Len(dictIndex) <= DictCapacity
     /\ id = Len(dictIndex) + 1
     /\ \E r \in AppendExn(dict, dictFile, s) :
          dict' = r.ao /\ dictFile' = r.file
     /\ dictIndex' = Append(dictIndex, s)
-----------------------------------------------------------------------------
(* The writer. *)

Init ==
  /\ dictFile = [data |-> << >>, safe |-> 0]
  /\ suffixFile = [data |-> << >>, safe |-> 0]
  /\ control = NoPayload
  /\ controlSafe = NoPayload
  /\ indexFile = NoIndex /\ indexSafe = NoIndex
  /\ pc = "ready" /\ auto = FALSE
  /\ dict = Opened(0) /\ dictIndex = << >> /\ suffix = Opened(0)
  /\ payload = NoPayload /\ controlIo = TRUE
  /\ index = NoIndex /\ staging = {} /\ adding = NoHash
  /\ roPc = "down" /\ roPayload = NoPayload
  /\ roSuffixEnd = 0 /\ roDictEnd = 0 /\ roDictIndex = << >>
  /\ roIndex = NoIndex
  /\ acked = 0 /\ ackedIndex = {} /\ crashes = 0

\* unsafe_append found the value already there: nothing is written.
Known(h) == h \in Indexed /\ (h \in staging \/ index[h] # 0)

\* unsafe_append: encode through the dict, append to the suffix, add to the
\* index, stage.  The index may be full: its callback then runs a flush, in
\* the middle of Index.add, before the value is staged.
AppendValue(h) ==
  /\ pc = "ready" /\ ~Known(h)
  /\ EndPoff(suffix) < MaxEntries
  /\ \E id \in 0..Len(dictIndex) + 1 :
       /\ DictAdd(StepOf[h], id)
       /\ \E r \in AppendExn(suffix, suffixFile, [hash |-> h, id |-> id]) :
            suffix' = r.ao /\ suffixFile' = r.file
  /\ index' = [k \in Indexed |-> IF k = h THEN EndPoff(suffix) + 1 ELSE index[k]]
  /\ \/ /\ staging' = staging \cup {h}
        /\ UNCHANGED <<pc, auto, adding>>
     \/ /\ h \in Indexed
        /\ pc' = "dict" /\ auto' = TRUE /\ adding' = h
        /\ UNCHANGED staging
  /\ UNCHANGED <<control, controlSafe, indexFile, indexSafe, payload, controlIo,
                 roVars, ackVars, crashes>>

\* The write of a full buffer fails and the exception leaves unsafe_append.
\* The dict has the string in its file or buffer but not in its tables; the
\* suffix has an entry no key was returned for.
AppendFails(h) ==
  /\ "append" \in Failing
  /\ pc = "ready" /\ ~Known(h)
  /\ EndPoff(suffix) < MaxEntries /\ EndPoff(dict) < MaxEntries
  /\ \/ /\ DictIds(StepOf[h]) = {} /\ Len(dictIndex) <= DictCapacity
        /\ dict' = AppendFailed(dict, StepOf[h])
        /\ UNCHANGED <<dictFile, dictIndex, suffix>>
     \/ \E id \in 0..Len(dictIndex) + 1 :
          /\ DictAdd(StepOf[h], id)
          /\ suffix' = AppendFailed(suffix, [hash |-> h, id |-> id])
  /\ UNCHANGED <<suffixFile, control, controlSafe, indexFile, indexSafe, pc, auto,
                 payload, controlIo, index, staging, adding, roVars, ackVars,
                 crashes>>

\* Mutant of StartFlush: the staging table is cleared at the first stage.
StartFlushUnstages ==
  /\ pc = "ready"
  /\ pc' = "dict" /\ auto' = FALSE /\ staging' = {}
  /\ UNCHANGED <<fileVars, dict, dictIndex, suffix, payload, controlIo, index,
                 adding, roVars, ackVars, crashes>>

\* flush, called by Repo.flush and at the end of every batch.
StartFlush ==
  /\ pc = "ready"
  /\ pc' = "dict" /\ auto' = FALSE
  /\ UNCHANGED <<fileVars, dict, dictIndex, suffix, payload, controlIo, index,
                 staging, adding, roVars, ackVars, crashes>>

FlushDict ==
  /\ pc = "dict"
  /\ dict' = FlushStage(dict, dictFile).ao
  /\ dictFile' = FlushStage(dict, dictFile).file
  /\ pc' = "suffix"
  /\ UNCHANGED <<suffixFile, control, controlSafe, indexFile, indexSafe, auto,
                 dictIndex, suffix, payload, controlIo, index, staging, adding,
                 roVars, ackVars, crashes>>

FlushSuffix ==
  /\ pc = "suffix"
  /\ suffix' = FlushStage(suffix, suffixFile).ao
  /\ suffixFile' = FlushStage(suffix, suffixFile).file
  /\ pc' = "control"
  /\ UNCHANGED <<dictFile, control, controlSafe, indexFile, indexSafe, auto,
                 dict, dictIndex, payload, controlIo, index, staging, adding,
                 roVars, ackVars, crashes>>

\* Mutant of NewPayload: the end of the dict is not updated.
StaleDictPayload == [dict |-> payload.dict, suffix |-> EndPoff(suffix)]

NewPayload == [dict |-> EndPoff(dict), suffix |-> EndPoff(suffix)]

\* Mutant of FlushControl: the control file is not fsynced.
FlushControlNoFsync ==
  /\ pc = "control"
  /\ NewPayload # payload => controlIo
  /\ control' = NewPayload /\ payload' = NewPayload
  /\ pc' = "index" /\ staging' = {}
  /\ UNCHANGED <<dictFile, suffixFile, controlSafe, indexFile, indexSafe, auto,
                 dict, dictIndex, suffix, controlIo, index, adding, roVars,
                 ackVars, crashes>>

\* flush_control.  The offsets did not change: no write.  Otherwise
\* set_payload closes the old handle, writes the temporary file, renames it.
\* With fsync a second step follows; after that the staging table is cleared.
FlushControl ==
  /\ pc = "control"
  /\ \/ /\ NewPayload = payload
        /\ pc' = "index" /\ staging' = {}
        /\ UNCHANGED <<control, payload>>
     \/ /\ NewPayload # payload /\ controlIo
        /\ control' = NewPayload /\ payload' = NewPayload
        /\ IF UseFsync
           THEN pc' = "controlFsync" /\ UNCHANGED staging
           ELSE pc' = "index" /\ staging' = {}
  /\ UNCHANGED <<dictFile, suffixFile, controlSafe, indexFile, indexSafe, auto,
                 dict, dictIndex, suffix, controlIo, index, adding, roVars,
                 ackVars, crashes>>

FsyncControl ==
  /\ pc = "controlFsync"
  /\ controlSafe' = control
  /\ pc' = "index" /\ staging' = {}
  /\ UNCHANGED <<dictFile, suffixFile, control, indexFile, indexSafe, auto, dict,
                 dictIndex, suffix, payload, controlIo, index, adding, roVars,
                 ackVars, crashes>>

\* The index writes its log; a flush it triggered itself goes on with the
\* rest of unsafe_append.
FlushIndex ==
  /\ pc = "index"
  /\ indexFile' = index
  /\ indexSafe' = IF UseFsync /\ ~auto THEN index ELSE indexSafe
  /\ pc' = "ready" /\ auto' = FALSE /\ adding' = NoHash
  /\ IF auto
     THEN staging' = staging \cup {adding} /\ UNCHANGED ackVars
     ELSE /\ acked' = EndPoff(suffix)
          /\ ackedIndex' = {h \in Indexed : index[h] # 0}
          /\ UNCHANGED staging
  /\ UNCHANGED <<dictFile, suffixFile, control, controlSafe, dict, dictIndex,
                 suffix, payload, controlIo, index, roVars, crashes>>

\* Mutant of FlushFails: the error is dropped, the next stage runs.
FlushFailsIgnored ==
  /\ "flush" \in Failing
  /\ pc \in FlushStages
  /\ pc' = CASE pc = "dict" -> "suffix" [] pc = "suffix" -> "control"
             [] OTHER -> "index"
  /\ UNCHANGED <<fileVars, auto, adding, dict, dictIndex, suffix, payload,
                 controlIo, index, staging, roVars, ackVars, crashes>>

\* A system call of the flush fails and the error leaves the flush.  When the
\* temporary control file cannot be created, the old handle is closed already
\* and every later set_payload fails on it (Double_close).
FlushFails ==
  /\ "flush" \in Failing
  /\ pc \in FlushStages
  /\ controlIo' \in IF pc = "control" /\ NewPayload # payload
                    THEN {controlIo, FALSE} ELSE {controlIo}
  /\ pc' = "ready" /\ auto' = FALSE /\ adding' = NoHash
  /\ UNCHANGED <<fileVars, dict, dictIndex, suffix, payload, index, staging,
                 roVars, ackVars, crashes>>

\* The fsync of a stage fails after its write went through.
FsyncFails ==
  /\ "fsync" \in Failing /\ UseFsync
  /\ \/ /\ pc = "dict" /\ dict.buf # << >>
        /\ dict' = Flushed(dict) /\ dictFile' = FlushedFile(dict, dictFile)
        /\ UNCHANGED <<suffix, suffixFile>>
     \/ /\ pc = "suffix" /\ suffix.buf # << >>
        /\ suffix' = Flushed(suffix)
        /\ suffixFile' = FlushedFile(suffix, suffixFile)
        /\ UNCHANGED <<dict, dictFile>>
  /\ pc' = "ready" /\ auto' = FALSE /\ adding' = NoHash
  /\ UNCHANGED <<control, controlSafe, indexFile, indexSafe, dictIndex, payload,
                 controlIo, index, staging, roVars, ackVars, crashes>>

\* The memory of the writer process is gone.
WriterGone ==
  /\ pc' = "down" /\ auto' = FALSE
  /\ dict' = Opened(0) /\ dictIndex' = << >> /\ suffix' = Opened(0)
  /\ payload' = NoPayload /\ controlIo' = FALSE
  /\ index' = NoIndex /\ staging' = {} /\ adding' = NoHash

\* The index flushes itself when it is closed.  Its callback then runs a
\* flush on files that are closed already, and raises if there is work to do.
IndexCloses ==
  \/ index = indexFile
  \/ NewPayload = payload /\ ~(UseFsync /\ (dict.fsync \/ suffix.fsync))

\* close fails with Pending_flush when a buffer is not empty, and on the
\* control file when its handle is closed; the process can then only end.
CloseRw ==
  /\ pc = "ready" /\ controlIo
  /\ dict.buf = << >> /\ suffix.buf = << >>
  /\ IF IndexCloses
     THEN indexFile' = index /\ indexSafe' = index
     ELSE UNCHANGED <<indexFile, indexSafe>>
  /\ WriterGone
  /\ UNCHANGED <<dictFile, suffixFile, control, controlSafe, roVars, ackVars,
                 crashes>>

\* The writer process dies: what it had not written is gone.
CrashRw ==
  /\ pc # "down" /\ crashes < MaxCrashes
  /\ crashes' = crashes + 1
  /\ WriterGone
  /\ UNCHANGED <<fileVars, roVars, ackVars>>

\* open_rw trusts the offsets of the control file, and truncates nothing:
\* units past them stay in the file until they are overwritten.
OpenRw ==
  /\ pc = "down"
  /\ Consistent(suffixFile, control.suffix) /\ Consistent(dictFile, control.dict)
  /\ payload' = control /\ controlIo' = TRUE
  /\ suffix' = Opened(control.suffix) /\ dict' = Opened(control.dict)
  /\ dictIndex' = Refill(<< >>, dictFile, 0, control.dict)
  /\ index' = indexFile
  /\ pc' = "ready"
  /\ UNCHANGED <<fileVars, auto, staging, adding, roVars, ackVars, crashes>>

ReaderGone ==
  /\ roPc' = "down" /\ roPayload' = NoPayload
  /\ roSuffixEnd' = 0 /\ roDictEnd' = 0 /\ roDictIndex' = << >>
  /\ roIndex' = NoIndex

\* The machine stops.  Both processes die, and what was not fsynced may or
\* may not be on disk; for the control file that is its rename.
PowerFailure ==
  /\ PowerFails /\ crashes < MaxCrashes
  /\ crashes' = crashes + 1
  /\ \E n \in 0..Len(dictFile.data) :
       /\ n >= dictFile.safe /\ dictFile' = Surviving(dictFile, n)
  /\ \E n \in 0..Len(suffixFile.data) :
       /\ n >= suffixFile.safe /\ suffixFile' = Surviving(suffixFile, n)
  /\ control' \in {control, controlSafe} /\ controlSafe' = control'
  /\ indexFile' \in {f \in [Indexed -> {indexFile[h] : h \in Indexed}
                                       \cup {indexSafe[h] : h \in Indexed}] :
                       \A h \in Indexed : f[h] \in {indexFile[h], indexSafe[h]}}
  /\ indexSafe' = indexFile'
  /\ WriterGone /\ ReaderGone
  /\ UNCHANGED ackVars
-----------------------------------------------------------------------------
(* The reader.  It opens control, suffix, dict, index in this order, and  *)
(* reloads index, control, suffix, dict.                                  *)

RoOpenControl ==
  /\ roPc = "down"
  /\ roPayload' = control
  /\ roPc' = "openSuffix"
  /\ UNCHANGED <<fileVars, rwVars, roSuffixEnd, roDictEnd, roDictIndex, roIndex,
                 ackVars, crashes>>

RoOpenSuffix ==
  /\ roPc = "openSuffix"
  /\ Consistent(suffixFile, roPayload.suffix)
  /\ roSuffixEnd' = roPayload.suffix
  /\ roPc' = "openDict"
  /\ UNCHANGED <<fileVars, rwVars, roPayload, roDictEnd, roDictIndex, roIndex,
                 ackVars, crashes>>

RoOpenDict ==
  /\ roPc = "openDict"
  /\ Consistent(dictFile, roPayload.dict)
  /\ roDictEnd' = roPayload.dict
  /\ roDictIndex' = Refill(<< >>, dictFile, 0, roPayload.dict)
  /\ roPc' = "openIndex"
  /\ UNCHANGED <<fileVars, rwVars, roPayload, roSuffixEnd, roIndex, ackVars,
                 crashes>>

RoOpenIndex ==
  /\ roPc = "openIndex"
  /\ roIndex' = indexFile
  /\ roPc' = "opened"
  /\ UNCHANGED <<fileVars, rwVars, roPayload, roSuffixEnd, roDictEnd,
                 roDictIndex, ackVars, crashes>>

RoReloadIndex ==
  /\ roPc \in RoAtRest
  /\ roIndex' = indexFile
  /\ roPc' = "control"
  /\ UNCHANGED <<fileVars, rwVars, roPayload, roSuffixEnd, roDictEnd,
                 roDictIndex, ackVars, crashes>>

RoReloadControl ==
  /\ roPc = "control"
  /\ roPayload' = control
  /\ roPc' = IF control = roPayload THEN "reloaded" ELSE "suffix"
  /\ UNCHANGED <<fileVars, rwVars, roSuffixEnd, roDictEnd, roDictIndex, roIndex,
                 ackVars, crashes>>

\* Mutant of RoReloadSuffix: the two end offsets are swapped.
RoReloadSuffixSwapped ==
  /\ roPc = "suffix"
  /\ roSuffixEnd' = roPayload.dict
  /\ roPc' = "dict"
  /\ UNCHANGED <<fileVars, rwVars, roPayload, roDictEnd, roDictIndex, roIndex,
                 ackVars, crashes>>

RoReloadSuffix ==
  /\ roPc = "suffix"
  /\ roSuffixEnd' = roPayload.suffix
  /\ roPc' = "dict"
  /\ UNCHANGED <<fileVars, rwVars, roPayload, roDictEnd, roDictIndex, roIndex,
                 ackVars, crashes>>

\* Mutant of RoReloadDict: the new end is noted, the strings are not read.
RoReloadDictNoRefill ==
  /\ roPc = "dict"
  /\ roDictEnd' = roPayload.dict
  /\ roPc' = "reloaded"
  /\ UNCHANGED <<fileVars, rwVars, roPayload, roSuffixEnd, roDictIndex, roIndex,
                 ackVars, crashes>>

RoReloadDict ==
  /\ roPc = "dict"
  /\ roDictIndex' = Refill(roDictIndex, dictFile, roDictEnd, roPayload.dict)
  /\ roDictEnd' = roPayload.dict
  /\ roPc' = "reloaded"
  /\ UNCHANGED <<fileVars, rwVars, roPayload, roSuffixEnd, roIndex, ackVars,
                 crashes>>

\* The reader closes its instance, or dies.
RoClose ==
  /\ roPc # "down"
  /\ ReaderGone
  /\ UNCHANGED <<fileVars, rwVars, ackVars, crashes>>
-----------------------------------------------------------------------------
WriterNext ==
  \/ \E h \in Hashes : AppendValue(h) \/ AppendFails(h)
  \/ StartFlush \/ FlushDict \/ FlushSuffix \/ FlushControl \/ FsyncControl
  \/ FlushIndex \/ FlushFails \/ FsyncFails
  \/ CloseRw \/ CrashRw \/ OpenRw

ReaderNext ==
  \/ RoOpenControl \/ RoOpenSuffix \/ RoOpenDict \/ RoOpenIndex
  \/ RoReloadIndex \/ RoReloadControl \/ RoReloadSuffix \/ RoReloadDict
  \/ RoClose

Next == WriterNext \/ ReaderNext \/ PowerFailure

Spec == Init /\ [][Next]_vars
-----------------------------------------------------------------------------
(* Every variable ranges over the values the code gives it. *)
TypeOK ==
  /\ dictFile \in File(Strings \cup {Junk})
  /\ suffixFile \in File(Entry \cup {Junk})
  /\ control \in Payload /\ controlSafe \in Payload /\ payload \in Payload
  /\ indexFile \in [Indexed -> Nat] /\ indexSafe \in [Indexed -> Nat]
  /\ pc \in {"down", "ready"} \cup FlushStages /\ auto \in BOOLEAN
  /\ dict \in Ao(Strings) /\ dictIndex \in Seq(Strings \cup {Junk})
  /\ suffix \in Ao(Entry) /\ controlIo \in BOOLEAN
  /\ index \in [Indexed -> Nat]
  /\ staging \subseteq Hashes /\ adding \in Hashes \cup {NoHash}
  /\ roPc \in {"down"} \cup RoAtRest \cup RoStages /\ roPayload \in Payload
  /\ roSuffixEnd \in Nat /\ roDictEnd \in Nat
  /\ roDictIndex \in Seq(Strings \cup {Junk}) /\ roIndex \in [Indexed -> Nat]
  /\ acked \in Nat /\ ackedIndex \subseteq Indexed /\ crashes \in Nat

(* The control file, and the payload a reader opens the files with, never   *)
(* point past the end of a file: check_consistent_store passes for every    *)
(* process, after a crash as well as during a flush.                        *)
ConsistentStore ==
  /\ Consistent(suffixFile, control.suffix) /\ Consistent(dictFile, control.dict)
  /\ roPc = "openSuffix" => Consistent(suffixFile, roPayload.suffix)
  /\ roPc \in {"openSuffix", "openDict"} => Consistent(dictFile, roPayload.dict)

\* An entry is read back as the content it was stored with.
Decodes(e, strings) ==
  /\ e # Junk
  /\ \/ e.id = 0
     \/ e.id \in 1..Len(strings) /\ strings[e.id] = StepOf[e.hash]

(* Every published entry can be decoded with the published dict: the dict is *)
(* flushed before the suffix, and the control file names both ends at once.  *)
PublishedDecodes ==
  \A i \in 1..control.suffix :
    i <= Len(suffixFile.data)
      => Decodes(suffixFile.data[i],
                 SubSeq(dictFile.data, 1, Least(control.dict, Len(dictFile.data))))

(* What a reader can reach in the suffix after an open or a reload, it can   *)
(* decode with the strings it refilled its own dict with.                    *)
ReaderDecodes ==
  roPc \in RoAtRest =>
    \A i \in 1..roSuffixEnd : Decodes(suffixFile.data[i], roDictIndex)

\* Every index entry leads to the value it is the hash of, before end.
Resolves(idx, end) ==
  \A h \in Indexed : idx[h] # 0 =>
    /\ idx[h] <= Least(end, Len(suffixFile.data))
    /\ suffixFile.data[idx[h]] # Junk /\ suffixFile.data[idx[h]].hash = h

(* The index file never runs ahead of the control file, whoever flushes it:  *)
(* an explicit flush, an automatic one, or the close of the store.           *)
IndexBehindControl == Resolves(indexFile, control.suffix)

(* After a reload, everything the reader finds in its index is within the    *)
(* suffix it can read: the index is read before the control file.            *)
ReloadedIndexResolves == roPc = "reloaded" => Resolves(roIndex, roSuffixEnd)

(* A reader that opened or reloaded next to a running or dying writer reads  *)
(* and decodes whatever its suffix and its index let it reach.               *)
ReaderReads == ReaderDecodes /\ ReloadedIndexResolves

(* The writer finds in its tables or in the file every value it knows: what  *)
(* is still in the buffer of the suffix is in the staging table, and what    *)
(* left the staging table is in the file.                                    *)
WriterReads ==
  pc # "down" =>
    /\ \A i \in 1..Len(suffix.buf) : suffix.buf[i].hash \in staging \cup {adding}
    /\ Resolves([h \in Indexed |-> IF h \in staging \cup {adding} THEN 0
                                   ELSE index[h]], suffix.persisted)

(* What a completed flush covered survives every later crash, with the index *)
(* entries of its commits.                                                   *)
AckedSurvives ==
  /\ acked <= control.suffix
  /\ \A h \in ackedIndex : indexFile[h] # 0

(* A published dict id never changes its meaning, whatever is written over   *)
(* the strings that an unfinished flush left behind it.                      *)
DictIdsStable ==
  [][\A i \in 1..Least(control.dict, control'.dict) :
       i <= Len(dictFile.data) =>
         i <= Len(dictFile'.data) /\ dictFile'.data[i] = dictFile.data[i]]_vars

Log == INSTANCE AppendOnlyLog WITH
  published <- SubSeq(suffixFile.data, 1,
                      Least(control.suffix, Len(suffixFile.data))),
  seen <- roSuffixEnd

(* Seen from outside the files are one append-only log of entries, and a    *)
(* dict whose ids keep their meaning.                                        *)
LogSpec == Log!Spec /\ DictIdsStable
=============================================================================
