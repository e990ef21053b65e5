----------------------- MODULE FlushReloadReads_proofs -----------------------
(***************************************************************************)
(* What the processes of FlushReload decode: an entry is read with the dict *)
(* it was encoded with.                                                     *)
(***************************************************************************)
EXTENDS FlushReload_proofs

\* The i-th unit of an append-only file: in its file or in its buffer.
At(ao, file, i) ==
  IF i <= ao.persisted THEN file.data[i] ELSE ao.buf[i - ao.persisted]

\* What was appended stays, wherever it is.
Grown(ao, file, newAo, newFile) ==
  /\ EndPoff(ao) <= EndPoff(newAo)
  /\ \A i \in 1..EndPoff(ao) : At(newAo, newFile, i) = At(ao, file, i)

\* e is an entry, encoded with one of the first n strings, or with none.
Named(e, strings, n) ==
  /\ e \in Entry
  /\ e.id = 0 \/ (e.id \in 1..n /\ strings[e.id] = StepOf[e.hash])

\* What a control payload names can be decoded with the dict it names.
DecodableIn(p, entries, strings) ==
  \A i \in 1..p.suffix : Named(entries[i], strings, p.dict)
Decodable(p) == DecodableIn(p, suffixFile.data, dictFile.data)

PublishedInv ==
  /\ Decodable(control) /\ Decodable(roPayload)
  /\ UseFsync => Decodable(controlSafe)

\* The table of the dict is its append-only file, and all that the writer
\* has appended can be decoded with it.
TableInv ==
  /\ Len(dictIndex) = EndPoff(dict)
  /\ \A i \in 1..EndPoff(dict) : dictIndex[i] = At(dict, dictFile, i)
  /\ \A i \in 1..EndPoff(suffix) :
       Named(At(suffix, suffixFile, i), dictIndex, EndPoff(dict))

RoTableInv ==
  /\ Len(roDictIndex) = roDictEnd
  /\ \A i \in 1..roDictEnd : roDictIndex[i] = dictFile.data[i]

DecodeInv == PublishedInv /\ (pc # "down" => TableInv) /\ RoTableInv

(***************************************************************************)
(* The operators.                                                           *)
(***************************************************************************)
LEMMA OverwritePuts ==
  ASSUME NEW S, NEW s \in Seq(S \cup {Junk}), NEW off \in Nat,
         NEW buf \in Seq(S), NEW i \in (off + 1)..(off + Len(buf))
  PROVE  Overwrite(s, off, buf)[i] = buf[i - off]
BY DEF Overwrite, Greatest

LEMMA FlushedGrows ==
  ASSUME NEW S, NEW ao \in Ao(S), NEW file \in File(S \cup {Junk}),
         ao.persisted <= Len(file.data)
  PROVE  /\ EndPoff(Flushed(ao)) = EndPoff(ao)
         /\ Flushed(ao) \in Ao(S)
         /\ Grown(ao, file, Flushed(ao), FlushedFile(ao, file))
<1> DEFINE d == file.data
           p == ao.persisted
           b == ao.buf
<1>1. /\ d \in Seq(S \cup {Junk}) /\ p \in Nat /\ b \in Seq(S)
      /\ p <= Len(d) /\ Len(b) \in Nat
  BY AoFields DEF File
<1>2. FlushedFile(ao, file).data = Overwrite(d, p, b)
      /\ Flushed(ao).persisted = p + Len(b) /\ Flushed(ao).buf = << >>
      /\ EndPoff(ao) = p + Len(b)
  BY DEF FlushedFile, WriteAt, Flushed, EndPoff
<1>3. EndPoff(Flushed(ao)) = EndPoff(ao) /\ Flushed(ao) \in Ao(S)
  BY <1>1, <1>2 DEF Flushed, EndPoff, Ao
<1>4. ASSUME NEW i \in 1..EndPoff(ao)
      PROVE  At(Flushed(ao), FlushedFile(ao, file), i) = At(ao, file, i)
  <2>1. i \in Nat /\ i <= p + Len(b) /\ i >= 1
    BY <1>1, <1>2
  <2>2. At(Flushed(ao), FlushedFile(ao, file), i) = Overwrite(d, p, b)[i]
    BY <1>2, <2>1 DEF At
  <2>3. At(ao, file, i) = IF i <= p THEN d[i] ELSE b[i - p]
    BY DEF At
  <2> HIDE DEF d, p, b
  <2>4. CASE i <= p
    <3>1. i \in 1..Len(d)
      BY <1>1, <2>1, <2>4
    <3>2. Overwrite(d, p, b)[i] = d[i]
      BY ONLY <1>1, <2>4, <3>1, OverwriteKeeps
    <3> QED BY <2>2, <2>3, <2>4, <3>2
  <2>5. CASE ~(i <= p)
    <3>1. i \in (p + 1)..(p + Len(b))
      BY <1>1, <2>1, <2>5
    <3>2. Overwrite(d, p, b)[i] = b[i - p]
      BY ONLY <1>1, <3>1, OverwritePuts
    <3> QED BY <2>2, <2>3, <2>5, <3>2
  <2> QED BY <2>4, <2>5
<1>5. EndPoff(ao) \in Nat
  BY AoFields
<1> QED BY <1>3, <1>4, <1>5 DEF Grown

LEMMA NothingGrows ==
  ASSUME NEW S, NEW ao \in Ao(S), NEW file
  PROVE  Grown(ao, file, ao, file)
BY AoFields DEF Grown

\* The entry that a buffer takes is its last.
LEMMA BufferedGrows ==
  ASSUME NEW S, NEW ao \in Ao(S), NEW file, NEW x \in S
  PROVE  /\ EndPoff(Buffered(ao, x)) = EndPoff(ao) + 1
         /\ Grown(ao, file, Buffered(ao, x), file)
         /\ At(Buffered(ao, x), file, EndPoff(ao) + 1) = x
<1> DEFINE b == Buffered(ao, x)
<1>1. /\ b.persisted = ao.persisted /\ b.buf = Append(ao.buf, x)
      /\ EndPoff(b) = EndPoff(ao) + 1
  BY BufferedType
<1>2. /\ ao.persisted \in Nat /\ ao.buf \in Seq(S) /\ Len(ao.buf) \in Nat
      /\ EndPoff(ao) = ao.persisted + Len(ao.buf)
  BY AoFields DEF EndPoff
<1> HIDE DEF b
<1>3. ASSUME NEW i \in 1..EndPoff(ao) PROVE At(b, file, i) = At(ao, file, i)
  BY <1>1, <1>2 DEF At
<1>4. At(b, file, EndPoff(ao) + 1) = x
  BY <1>1, <1>2 DEF At
<1> QED BY <1>1, <1>2, <1>3, <1>4 DEF Grown, b

LEMMA AppendGrows ==
  ASSUME NEW S, NEW ao \in Ao(S), NEW file \in File(S \cup {Junk}), NEW x \in S,
         ao.persisted <= Len(file.data), NEW r \in AppendExn(ao, file, x)
  PROVE  /\ EndPoff(r.ao) = EndPoff(ao) + 1
         /\ Grown(ao, file, r.ao, r.file)
         /\ At(r.ao, r.file, EndPoff(ao) + 1) = x
         /\ r.ao.buf = << >> \/ r.ao.buf = Append(ao.buf, x)
<1> DEFINE b == Buffered(ao, x)
<1>1. /\ b \in Ao(S) /\ b.persisted = ao.persisted /\ b.buf = Append(ao.buf, x)
  BY BufferedType
<1>2. /\ EndPoff(b) = EndPoff(ao) + 1 /\ Grown(ao, file, b, file)
      /\ At(b, file, EndPoff(ao) + 1) = x
  BY BufferedGrows
<1>3. EndPoff(ao) \in Nat
  BY AoFields
<1>4. \/ r = [ao |-> b, file |-> file]
      \/ r = [ao |-> Flushed(b), file |-> FlushedFile(b, file)]
  BY DEF AppendExn
<1> HIDE DEF b
<1>5. CASE r = [ao |-> b, file |-> file]
  BY <1>1, <1>2, <1>5
<1>6. CASE r = [ao |-> Flushed(b), file |-> FlushedFile(b, file)]
  <2>1. /\ EndPoff(Flushed(b)) = EndPoff(b)
        /\ Grown(b, file, Flushed(b), FlushedFile(b, file))
    BY <1>1, FlushedGrows
  <2>2. Flushed(b).buf = << >>
    BY DEF Flushed
  <2> QED BY <1>2, <1>3, <1>6, <2>1, <2>2 DEF Grown
<1> QED BY <1>4, <1>5, <1>6

LEMMA AppendFailedGrows ==
  ASSUME NEW S, NEW ao \in Ao(S), NEW file, NEW x \in S
  PROVE  Grown(ao, file, AppendFailed(ao, x), file)
<1>1. CASE ao.full
  BY <1>1, NothingGrows DEF AppendFailed
<1>2. CASE ~ao.full
  <2> DEFINE b == Buffered(ao, x)
             f == [b EXCEPT !.full = TRUE]
  <2>1. b \in Ao(S) /\ EndPoff(b) = EndPoff(ao) + 1 /\ Grown(ao, file, b, file)
    BY BufferedType, BufferedGrows
  <2> HIDE DEF b
  <2>2. f.persisted = b.persisted /\ f.buf = b.buf
    BY <2>1 DEF Ao
  <2>3. AppendFailed(ao, x) = f
    BY <1>2 DEF AppendFailed, b
  <2> QED BY <2>1, <2>2, <2>3 DEF Grown, EndPoff, At
<1> QED BY <1>1, <1>2

LEMMA StageGrows ==
  ASSUME NEW S, NEW ao \in Ao(S), NEW file \in File(S \cup {Junk}),
         ao.persisted <= Len(file.data)
  PROVE  LET r == FlushStage(ao, file)
         IN  EndPoff(r.ao) = EndPoff(ao) /\ Grown(ao, file, r.ao, r.file)
<1> DEFINE w == Written(ao, file)
           r == FlushStage(ao, file)
<1>1. w.ao \in Ao(S) /\ EndPoff(w.ao) = EndPoff(ao) /\ Grown(ao, file, w.ao, w.file)
  <2>1. CASE ao.buf = << >>
    BY <2>1, NothingGrows DEF Written
  <2>2. CASE ao.buf # << >>
    <3>1. w = [ao |-> Flushed(ao), file |-> FlushedFile(ao, file)]
      BY <2>2 DEF Written
    <3> QED BY <3>1, FlushedGrows
  <2> QED BY <2>1, <2>2
<1> HIDE DEF w
<1>2. r.file.data = w.file.data
  BY DEF FlushStage, Fsynced, w
<1>3. r.ao.persisted = w.ao.persisted /\ r.ao.buf = w.ao.buf
  <2>1. CASE ~UseFsync
    BY <2>1 DEF FlushStage, w
  <2>2. CASE UseFsync
    <3>1. r.ao = [w.ao EXCEPT !.fsync = FALSE]
      BY <2>2 DEF FlushStage, w
    <3> QED BY <1>1, <3>1 DEF Ao
  <2> QED BY <2>1, <2>2
<1> HIDE DEF r
<1>4. EndPoff(r.ao) = EndPoff(ao) /\ Grown(ao, file, r.ao, r.file)
  BY <1>1, <1>2, <1>3 DEF Grown, EndPoff, At
<1> QED BY <1>4 DEF r

\* More strings do not change what was decoded.
LEMMA NamedGrows ==
  ASSUME NEW e, NEW strings, NEW n \in Nat, NEW newStrings, NEW k \in Nat,
         n <= k, \A i \in 1..n : newStrings[i] = strings[i],
         Named(e, strings, n)
  PROVE  Named(e, newStrings, k)
BY DEF Named

(***************************************************************************)
(* Steps that keep the writer alive lose nothing of what it appended.       *)
(***************************************************************************)
MemoryGrows ==
  /\ Grown(dict, dictFile, dict', dictFile')
  /\ Grown(suffix, suffixFile, suffix', suffixFile')

SameEnds ==
  /\ EndPoff(dict') = EndPoff(dict) /\ EndPoff(suffix') = EndPoff(suffix)
  /\ UNCHANGED dictIndex

\* A step of the writer that appends nothing, or a step of the reader.
NoAppend ==
  \/ StartFlush \/ FlushDict \/ FlushSuffix \/ FlushControl \/ FsyncControl
  \/ FlushIndex \/ FlushFails \/ FsyncFails \/ ReaderNext \/ UNCHANGED vars

LEMMA FilesHold ==
  ASSUME StoreInv, pc # "down"
  PROVE  /\ dict \in Ao(Strings) /\ suffix \in Ao(Entry)
         /\ dictFile \in File(Strings \cup {Junk})
         /\ suffixFile \in File(Entry \cup {Junk})
         /\ dict.persisted <= Len(dictFile.data)
         /\ suffix.persisted <= Len(suffixFile.data)
BY StoreTypes DEF StoreInv, WriterInv, AoInv

LEMMA NoAppendGrows ==
  ASSUME StoreInv, pc # "down", NoAppend
  PROVE  MemoryGrows /\ SameEnds
<1>0. /\ Grown(dict, dictFile, dict, dictFile)
      /\ Grown(suffix, suffixFile, suffix, suffixFile)
  BY FilesHold, NothingGrows
<1>1. CASE FlushDict
  <2>1. /\ dict' = FlushStage(dict, dictFile).ao
        /\ dictFile' = FlushStage(dict, dictFile).file
        /\ UNCHANGED <<suffix, suffixFile, dictIndex>>
    BY <1>1 DEF FlushDict
  <2>2. /\ EndPoff(FlushStage(dict, dictFile).ao) = EndPoff(dict)
        /\ Grown(dict, dictFile, FlushStage(dict, dictFile).ao,
                 FlushStage(dict, dictFile).file)
    BY FilesHold, StageGrows
  <2> QED BY <1>0, <2>1, <2>2 DEF MemoryGrows, SameEnds
<1>2. CASE FlushSuffix
  <2>1. /\ suffix' = FlushStage(suffix, suffixFile).ao
        /\ suffixFile' = FlushStage(suffix, suffixFile).file
        /\ UNCHANGED <<dict, dictFile, dictIndex>>
    BY <1>2 DEF FlushSuffix
  <2>2. /\ EndPoff(FlushStage(suffix, suffixFile).ao) = EndPoff(suffix)
        /\ Grown(suffix, suffixFile, FlushStage(suffix, suffixFile).ao,
                 FlushStage(suffix, suffixFile).file)
    BY FilesHold, StageGrows
  <2> QED BY <1>0, <2>1, <2>2 DEF MemoryGrows, SameEnds
<1>3. CASE FsyncFails
  <2>1. UNCHANGED dictIndex
    BY <1>3 DEF FsyncFails
  <2>2. CASE /\ dict' = Flushed(dict) /\ dictFile' = FlushedFile(dict, dictFile)
             /\ UNCHANGED <<suffix, suffixFile>>
    <3>1. /\ EndPoff(Flushed(dict)) = EndPoff(dict)
          /\ Grown(dict, dictFile, Flushed(dict), FlushedFile(dict, dictFile))
      BY FilesHold, FlushedGrows
    <3> QED BY <1>0, <2>1, <2>2, <3>1 DEF MemoryGrows, SameEnds
  <2>3. CASE /\ suffix' = Flushed(suffix)
             /\ suffixFile' = FlushedFile(suffix, suffixFile)
             /\ UNCHANGED <<dict, dictFile>>
    <3>1. /\ EndPoff(Flushed(suffix)) = EndPoff(suffix)
          /\ Grown(suffix, suffixFile, Flushed(suffix),
                   FlushedFile(suffix, suffixFile))
      BY FilesHold, FlushedGrows
    <3> QED BY <1>0, <2>1, <2>3, <3>1 DEF MemoryGrows, SameEnds
  <2> QED BY <1>3, <2>2, <2>3 DEF FsyncFails
<1>4. CASE \/ StartFlush \/ FlushControl \/ FsyncControl \/ FlushIndex
           \/ FlushFails \/ ReaderNext \/ UNCHANGED vars
  <2>1. UNCHANGED <<dict, dictFile, suffix, suffixFile, dictIndex>>
    BY <1>4
    DEF StartFlush, FlushControl, FsyncControl, FlushIndex, FlushFails,
        ReaderNext, RoOpenControl, RoOpenSuffix, RoOpenDict, RoOpenIndex,
        RoReloadIndex, RoReloadControl, RoReloadSuffix, RoReloadDict, RoClose,
        vars, fileVars, rwVars
  <2> QED BY <1>0, <2>1 DEF MemoryGrows, SameEnds
<1> QED BY <1>1, <1>2, <1>3, <1>4 DEF NoAppend

\* What an append of a value does: the entry is the last, decoded by its id.
LEMMA ValueGrows ==
  ASSUME StoreInv, NEW h \in Hashes, AppendValue(h)
  PROVE  /\ pc = "ready" /\ MemoryGrows
         /\ \E id \in Nat :
              LET e == [hash |-> h, id |-> id] IN
              /\ DictAdd(StepOf[h], id) /\ e \in Entry
              /\ EndPoff(suffix') = EndPoff(suffix) + 1
              /\ At(suffix', suffixFile', EndPoff(suffix) + 1) = e
              /\ suffix'.buf = << >> \/ suffix'.buf = Append(suffix.buf, e)
<1>1. PICK id \in 0..Len(dictIndex) + 1 :
        /\ DictAdd(StepOf[h], id)
        /\ \E r \in AppendExn(suffix, suffixFile, [hash |-> h, id |-> id]) :
             suffix' = r.ao /\ suffixFile' = r.file
  BY DEF AppendValue
<1>2. pc = "ready" /\ WriterInv /\ StepOf[h] \in Strings
  BY ConstantsAssumption DEF AppendValue, StoreInv
<1>3. id \in Nat
  BY <1>1, <1>2, DictAddInv DEF StoreInv
<1> DEFINE e == [hash |-> h, id |-> id]
<1>4. e \in Entry
  BY <1>3 DEF Entry
<1>5. PICK r \in AppendExn(suffix, suffixFile, e) :
        suffix' = r.ao /\ suffixFile' = r.file
  BY <1>1
<1> HIDE DEF e
<1>6. /\ EndPoff(r.ao) = EndPoff(suffix) + 1
      /\ Grown(suffix, suffixFile, r.ao, r.file)
      /\ At(r.ao, r.file, EndPoff(suffix) + 1) = e
      /\ r.ao.buf = << >> \/ r.ao.buf = Append(suffix.buf, e)
  BY <1>2, <1>4, FilesHold, AppendGrows
<1>7. Grown(dict, dictFile, dict', dictFile')
  <2>1. CASE UNCHANGED <<dict, dictFile>>
    BY <1>2, <2>1, FilesHold, NothingGrows
  <2>2. CASE \E q \in AppendExn(dict, dictFile, StepOf[h]) :
               dict' = q.ao /\ dictFile' = q.file
    BY <1>2, <2>2, FilesHold, AppendGrows
  <2> QED BY <1>1, <2>1, <2>2 DEF DictAdd
<1>8. MemoryGrows
  BY <1>5, <1>6, <1>7 DEF MemoryGrows
<1> QED BY <1>1, <1>2, <1>3, <1>4, <1>5, <1>6, <1>8 DEF e

(***************************************************************************)
(* Decoding.  An append that fails half way is what breaks it, see Failing. *)
(***************************************************************************)
LEMMA InitDecodeInv == Init => DecodeInv
<1> SUFFICES ASSUME Init PROVE DecodeInv
  OBVIOUS
<1>1. /\ EndPoff(dict) = 0 /\ EndPoff(suffix) = 0 /\ Len(dictIndex) = 0
      /\ roDictEnd = 0 /\ Len(roDictIndex) = 0
      /\ control.suffix = 0 /\ controlSafe.suffix = 0 /\ roPayload.suffix = 0
  BY DEF Init, Opened, EndPoff, NoPayload
<1>2. Decodable(control) /\ Decodable(controlSafe) /\ Decodable(roPayload)
  BY <1>1 DEF Decodable, DecodableIn
<1>3. TableInv /\ RoTableInv
  BY <1>1 DEF TableInv, RoTableInv
<1> QED BY <1>2, <1>3 DEF DecodeInv, PublishedInv

LEMMA DecodableKept ==
  ASSUME StoreInv, PublishedKept, NEW p, Decodable(p),
         p.suffix \in Nat, p.dict \in Nat,
         p.suffix <= control.suffix, p.dict <= control.dict
  PROVE  DecodableIn(p, suffixFile'.data, dictFile'.data)
<1>1. control.suffix \in Nat /\ control.dict \in Nat
  BY StoreTypes DEF StoreInv
<1> SUFFICES ASSUME NEW i \in 1..p.suffix
             PROVE  Named(suffixFile'.data[i], dictFile'.data, p.dict)
  BY DEF DecodableIn
<1>2. Named(suffixFile.data[i], dictFile.data, p.dict)
  BY DEF Decodable, DecodableIn
<1>3. suffixFile'.data[i] = suffixFile.data[i]
  BY <1>1 DEF PublishedKept, Kept
<1>4. \A k \in 1..p.dict : dictFile'.data[k] = dictFile.data[k]
  BY <1>1 DEF PublishedKept, Kept
<1> QED BY <1>2, <1>3, <1>4, NamedGrows

\* Once both buffers are written, all that was appended may be published.
LEMMA AppendedDecodable ==
  ASSUME StoreInv, TableInv, pc = "control"
  PROVE  Decodable(NewPayload)
<1>1. /\ suffix.buf = << >> /\ dict.buf = << >>
      /\ suffix.persisted \in Nat /\ dict.persisted \in Nat
  BY AoFields, FilesHold DEF StoreInv, WriterInv, AoFlushed
<1>2. /\ EndPoff(suffix) = suffix.persisted /\ EndPoff(dict) = dict.persisted
      /\ EndPoff(suffix) \in Nat /\ EndPoff(dict) \in Nat
  BY <1>1 DEF EndPoff
<1>3. ASSUME NEW i \in 1..EndPoff(suffix)
      PROVE  Named(suffixFile.data[i], dictFile.data, EndPoff(dict))
  <2>1. Named(At(suffix, suffixFile, i), dictIndex, EndPoff(dict))
    BY DEF TableInv
  <2>2. At(suffix, suffixFile, i) = suffixFile.data[i]
    BY <1>1, <1>2 DEF At
  <2>3. \A k \in 1..EndPoff(dict) : dictFile.data[k] = dictIndex[k]
    BY <1>1, <1>2 DEF TableInv, At
  <2> QED BY <1>2, <2>1, <2>2, <2>3, NamedGrows
<1> QED BY <1>3 DEF Decodable, DecodableIn, NewPayload

LEMMA NextPublishedInv ==
  ASSUME StoreInv, EndsInv, DecodeInv, [Next]_vars
  PROVE  PublishedInv'
<1>0. /\ control.suffix \in Nat /\ control.dict \in Nat
      /\ controlSafe.suffix \in Nat /\ controlSafe.dict \in Nat
      /\ roPayload.suffix \in Nat /\ roPayload.dict \in Nat
      /\ control.suffix <= control.suffix /\ control.dict <= control.dict
  BY StoreTypes DEF StoreInv
<1> DEFINE In(p) == DecodableIn(p, suffixFile'.data, dictFile'.data)
<1>1. PublishedKept
  BY StepKeeps
<1>2. In(control)
  BY <1>0, <1>1, DecodableKept DEF DecodeInv, PublishedInv
<1>3. In(roPayload)
  BY <1>0, <1>1, DecodableKept DEF DecodeInv, PublishedInv, EndsInv
<1>4. UseFsync => In(controlSafe)
  <2>1. UseFsync => /\ controlSafe.suffix <= control.suffix
                    /\ controlSafe.dict <= control.dict
    BY DEF StoreInv, FilesInv, FileInv
  <2> QED BY <1>0, <1>1, <2>1, DecodableKept DEF DecodeInv, PublishedInv
<1>5. In(NoPayload)
  BY DEF DecodableIn, NoPayload
<1>6. In(control') /\ (UseFsync => In(controlSafe'))
  <2>1. CASE UNCHANGED <<control, controlSafe>>
    BY <1>2, <1>4, <2>1
  <2>2. CASE FlushControl
    <3>1. /\ pc = "control" /\ UNCHANGED <<suffixFile, dictFile, controlSafe>>
          /\ control' \in {control, NewPayload}
      BY <2>2 DEF FlushControl
    <3>2. Decodable(NewPayload)
      BY <3>1, AppendedDecodable DEF DecodeInv
    <3> HIDE DEF In
    <3>3. In(NewPayload)
      BY <3>1, <3>2 DEF Decodable, In
    <3> QED BY <1>2, <1>4, <3>1, <3>3
  <2>3. CASE FsyncControl
    BY <1>2, <2>3 DEF FsyncControl
  <2>4. CASE PowerFailure
    <3>1. UseFsync /\ control' \in {control, controlSafe} /\ controlSafe' = control'
      BY <2>4, ConstantsAssumption DEF PowerFailure
    <3> HIDE DEF In
    <3> QED BY <1>2, <1>4, <3>1
  <2>5. \/ UNCHANGED <<control, controlSafe>>
        \/ FlushControl \/ FsyncControl \/ PowerFailure
    BY DEF Next, WriterNext, AppendValue, AppendFails, StartFlush, FlushDict,
           FlushSuffix, FlushIndex, FlushFails, FsyncFails, CloseRw, CrashRw,
           OpenRw, ReaderNext, RoOpenControl, RoOpenSuffix, RoOpenDict,
           RoOpenIndex, RoReloadIndex, RoReloadControl, RoReloadSuffix,
           RoReloadDict, RoClose, vars, fileVars
  <2> QED BY <2>1, <2>2, <2>3, <2>4, <2>5
<1>7. In(roPayload')
  <2>1. roPayload' \in {roPayload, control, NoPayload}
    BY DEF Next, WriterNext, AppendValue, AppendFails, StartFlush, FlushDict,
           FlushSuffix, FlushControl, FsyncControl, FlushIndex, FlushFails,
           FsyncFails, CloseRw, CrashRw, OpenRw, PowerFailure, ReaderNext,
           RoOpenControl, RoOpenSuffix, RoOpenDict, RoOpenIndex, RoReloadIndex,
           RoReloadControl, RoReloadSuffix, RoReloadDict, RoClose, ReaderGone,
           vars, roVars
  <2> HIDE DEF In
  <2> QED BY <1>2, <1>3, <1>5, <2>1
<1> QED BY <1>6, <1>7 DEF PublishedInv, Decodable

\* What Dict.index does to the table, and the string of the id it returns.
LEMMA DictAddTable ==
  ASSUME StoreInv, pc # "down", TableInv, NEW str \in Strings, NEW id \in Nat,
         DictAdd(str, id)
  PROVE  /\ Len(dictIndex') = EndPoff(dict')
         /\ EndPoff(dict) <= EndPoff(dict') /\ EndPoff(dict') \in Nat
         /\ \A i \in 1..EndPoff(dict') : dictIndex'[i] = At(dict', dictFile', i)
         /\ \A i \in 1..EndPoff(dict) : dictIndex'[i] = dictIndex[i]
         /\ id = 0 \/ (id \in 1..EndPoff(dict') /\ dictIndex'[id] = str)
<1>1. /\ EndPoff(dict) \in Nat /\ Len(dictIndex) = EndPoff(dict)
      /\ dictIndex \in Seq(Strings \cup {Junk})
      /\ \A i \in 1..EndPoff(dict) : dictIndex[i] = At(dict, dictFile, i)
  BY FilesHold, AoFields DEF TableInv, StoreInv, TypeOK
<1>2. CASE UNCHANGED <<dict, dictIndex, dictFile>> /\ (id \in DictIds(str) \/ id = 0)
  BY <1>1, <1>2 DEF DictIds
<1>3. CASE /\ id = Len(dictIndex) + 1
           /\ \E r \in AppendExn(dict, dictFile, str) :
                dict' = r.ao /\ dictFile' = r.file
           /\ dictIndex' = Append(dictIndex, str)
  <2>1. PICK r \in AppendExn(dict, dictFile, str) :
               dict' = r.ao /\ dictFile' = r.file
    BY <1>3
  <2>2. /\ EndPoff(r.ao) = EndPoff(dict) + 1
        /\ Grown(dict, dictFile, r.ao, r.file)
        /\ At(r.ao, r.file, EndPoff(dict) + 1) = str
    BY FilesHold, AppendGrows
  <2>3. /\ Len(dictIndex') = EndPoff(dict) + 1
        /\ dictIndex'[EndPoff(dict) + 1] = str
        /\ \A i \in 1..EndPoff(dict) : dictIndex'[i] = dictIndex[i]
    BY <1>1, <1>3
  <2> QED BY <1>1, <1>3, <2>1, <2>2, <2>3 DEF Grown
<1> QED BY <1>2, <1>3 DEF DictAdd

LEMMA RefillIs ==
  ASSUME NEW S, NEW strings \in Seq(S), NEW file, file.data \in Seq(S),
         NEW to \in Nat, Len(strings) <= to, to <= Len(file.data),
         \A i \in 1..Len(strings) : strings[i] = file.data[i]
  PROVE  /\ Len(Refill(strings, file, Len(strings), to)) = to
         /\ \A i \in 1..to :
              Refill(strings, file, Len(strings), to)[i] = file.data[i]
<1> DEFINE d == file.data
           n == Len(strings)
           t == SubSeq(d, n + 1, to)
<1>1. n \in Nat /\ d \in Seq(S) /\ Len(d) \in Nat
  OBVIOUS
<1>2. /\ t \in Seq(S) /\ Len(t) = to - n
      /\ \A i \in 1..(to - n) : t[i] = d[n + i]
  <2>1. t = [i \in 1..(to - n) |-> d[n + i]]
    BY <1>1
  <2> QED BY <1>1, <2>1
<1>3. Refill(strings, file, n, to) = strings \o t
  BY DEF Refill
<1> HIDE DEF t
<1>4. Len(strings \o t) = to
  BY <1>1, <1>2
<1>5. ASSUME NEW i \in 1..to PROVE (strings \o t)[i] = d[i]
  <2>1. CASE i <= n
    BY <1>1, <1>2, <2>1
  <2>2. CASE i > n
    BY <1>1, <1>2, <2>2
  <2> HIDE DEF d, n
  <2>3. i <= n \/ i > n
    BY <1>1
  <2> QED BY <2>1, <2>2, <2>3
<1> QED BY <1>3, <1>4, <1>5

LEMMA RefillFirst ==
  ASSUME NEW S, NEW file, file.data \in Seq(S), NEW to \in Nat,
         to <= Len(file.data)
  PROVE  /\ Len(Refill(<< >>, file, 0, to)) = to
         /\ \A i \in 1..to : Refill(<< >>, file, 0, to)[i] = file.data[i]
<1> DEFINE t == SubSeq(file.data, 1, to)
<1>1. t = [i \in 1..to |-> file.data[i]]
  OBVIOUS
<1>2. t \in Seq(S) /\ Len(t) = to /\ \A i \in 1..to : t[i] = file.data[i]
  BY <1>1
<1>3. Refill(<< >>, file, 0, to) = << >> \o t
  BY DEF Refill
<1> HIDE DEF t
<1>4. << >> \o t = t
  BY <1>2
<1> QED BY <1>2, <1>3, <1>4

LEMMA NextTableInv ==
  ASSUME "append" \notin Failing, StoreInv, EndsInv, DecodeInv, [Next]_vars,
         pc' # "down"
  PROVE  TableInv'
<1>1. ASSUME NEW h \in Hashes, AppendValue(h) PROVE TableInv'
  <2>1. pc = "ready" /\ MemoryGrows
    BY <1>1, ValueGrows
  <2>2. PICK id \in Nat :
          LET e == [hash |-> h, id |-> id] IN
          /\ DictAdd(StepOf[h], id) /\ e \in Entry
          /\ EndPoff(suffix') = EndPoff(suffix) + 1
          /\ At(suffix', suffixFile', EndPoff(suffix) + 1) = e
    BY <1>1, ValueGrows
  <2> DEFINE e == [hash |-> h, id |-> id]
  <2>3. TableInv /\ StepOf[h] \in Strings
    BY <2>1, ConstantsAssumption DEF DecodeInv
  <2>4. /\ Len(dictIndex') = EndPoff(dict')
        /\ EndPoff(dict) <= EndPoff(dict') /\ EndPoff(dict') \in Nat
        /\ \A i \in 1..EndPoff(dict') : dictIndex'[i] = At(dict', dictFile', i)
        /\ \A i \in 1..EndPoff(dict) : dictIndex'[i] = dictIndex[i]
        /\ id = 0 \/ (id \in 1..EndPoff(dict') /\ dictIndex'[id] = StepOf[h])
    BY <2>1, <2>2, <2>3, DictAddTable
  <2>5. e.id = id /\ e.hash = h
    OBVIOUS
  <2>6. Named(e, dictIndex', EndPoff(dict'))
    BY <2>2, <2>4, <2>5 DEF Named
  <2>7. EndPoff(suffix) \in Nat /\ EndPoff(dict) \in Nat
    BY <2>1, FilesHold, AoFields
  <2> HIDE DEF e
  <2>8. ASSUME NEW i \in 1..EndPoff(suffix')
        PROVE  Named(At(suffix', suffixFile', i), dictIndex', EndPoff(dict'))
    <3>1. CASE i = EndPoff(suffix) + 1
      BY <2>2, <2>6, <3>1 DEF e
    <3>2. CASE i \in 1..EndPoff(suffix)
      <4>1. Named(At(suffix, suffixFile, i), dictIndex, EndPoff(dict))
        BY <2>3, <3>2 DEF TableInv
      <4>2. At(suffix', suffixFile', i) = At(suffix, suffixFile, i)
        BY <2>1, <3>2 DEF MemoryGrows, Grown
      <4> QED BY <2>4, <2>7, <4>1, <4>2, NamedGrows
    <3> QED BY <2>2, <2>7, <3>1, <3>2
  <2> QED BY <2>4, <2>8 DEF TableInv
<1>2. CASE NoAppend
  <2>1. pc # "down"
    BY <1>2 DEF NoAppend, StartFlush, FlushDict, FlushSuffix, FlushControl,
                FsyncControl, FlushIndex, FlushFails, FsyncFails, ReaderNext,
                RoOpenControl, RoOpenSuffix, RoOpenDict, RoOpenIndex,
                RoReloadIndex, RoReloadControl, RoReloadSuffix, RoReloadDict,
                RoClose, vars, rwVars, FlushStages
  <2>2. TableInv /\ MemoryGrows /\ SameEnds
    BY <1>2, <2>1, NoAppendGrows DEF DecodeInv
  <2> QED BY <2>2 DEF TableInv, MemoryGrows, SameEnds, Grown
<1>3. CASE OpenRw
  <2>1. /\ suffix' = Opened(control.suffix) /\ dict' = Opened(control.dict)
        /\ dictIndex' = Refill(<< >>, dictFile, 0, control.dict)
        /\ UNCHANGED <<suffixFile, dictFile>>
    BY <1>3 DEF OpenRw, fileVars
  <2>2. /\ control.suffix \in Nat /\ control.dict \in Nat
        /\ control.dict <= Len(dictFile.data)
        /\ dictFile.data \in Seq(Strings \cup {Junk})
    BY StoreTypes DEF StoreInv, FilesInv, FileInv
  <2>3. /\ EndPoff(suffix') = control.suffix /\ EndPoff(dict') = control.dict
        /\ suffix'.persisted = control.suffix /\ dict'.persisted = control.dict
    BY <2>1, <2>2 DEF Opened, EndPoff
  <2>4. /\ Len(dictIndex') = control.dict
        /\ \A i \in 1..control.dict : dictIndex'[i] = dictFile.data[i]
    BY <2>1, <2>2, RefillFirst
  <2>5. ASSUME NEW i \in 1..control.suffix
        PROVE  Named(At(suffix', suffixFile', i), dictIndex', EndPoff(dict'))
    <3>1. Named(suffixFile.data[i], dictFile.data, control.dict)
      BY DEF DecodeInv, PublishedInv, Decodable, DecodableIn
    <3>2. At(suffix', suffixFile', i) = suffixFile.data[i]
      BY <2>1, <2>2, <2>3 DEF At
    <3> QED BY <2>2, <2>3, <2>4, <3>1, <3>2, NamedGrows
  <2>6. \A i \in 1..control.dict : At(dict', dictFile', i) = dictFile.data[i]
    BY <2>1, <2>2, <2>3 DEF At
  <2> QED BY <2>3, <2>4, <2>5, <2>6 DEF TableInv
<1>4. CASE CloseRw \/ CrashRw \/ PowerFailure
  BY <1>4 DEF CloseRw, CrashRw, PowerFailure, WriterGone
<1>5. ASSUME NEW h \in Hashes PROVE ~AppendFails(h)
  BY DEF AppendFails
<1> QED BY <1>1, <1>2, <1>3, <1>4, <1>5 DEF Next, WriterNext, NoAppend

LEMMA NextRoTableInv ==
  ASSUME StoreInv, EndsInv, DecodeInv, [Next]_vars
  PROVE  RoTableInv'
<1>1. /\ Len(roDictIndex) = roDictEnd
      /\ \A i \in 1..roDictEnd : roDictIndex[i] = dictFile.data[i]
  BY DEF DecodeInv, RoTableInv
<1>2. /\ roDictEnd \in Nat /\ roPayload.dict \in Nat /\ control.dict \in Nat
      /\ roDictEnd <= roPayload.dict /\ roPayload.dict <= control.dict
      /\ control.dict <= Len(dictFile.data)
      /\ roDictIndex \in Seq(Strings \cup {Junk})
      /\ dictFile.data \in Seq(Strings \cup {Junk}) /\ Len(dictFile.data) \in Nat
  BY StoreTypes DEF StoreInv, TypeOK, EndsInv, FilesInv, FileInv
<1>3. CASE UNCHANGED <<roDictEnd, roDictIndex>>
  <2>1. Kept(dictFile, dictFile', control.dict)
    BY StepKeeps DEF PublishedKept
  <2> QED BY <1>1, <1>2, <1>3, <2>1 DEF RoTableInv, Kept
<1>4. CASE RoOpenDict
  <2>1. /\ roDictEnd' = roPayload.dict /\ UNCHANGED dictFile
        /\ roDictIndex' = Refill(<< >>, dictFile, 0, roPayload.dict)
    BY <1>4 DEF RoOpenDict, fileVars
  <2>2. roPayload.dict <= Len(dictFile.data)
    BY <1>2
  <2> QED BY SMTT(30), <1>2, <2>1, <2>2, RefillFirst DEF RoTableInv
<1>5. CASE RoReloadDict
  <2>1. /\ roDictEnd' = roPayload.dict /\ UNCHANGED dictFile
        /\ roDictIndex' = Refill(roDictIndex, dictFile, roDictEnd, roPayload.dict)
    BY <1>5 DEF RoReloadDict, fileVars
  <2>2. roPayload.dict <= Len(dictFile.data)
    BY <1>2
  <2> QED BY SMTT(30), <1>1, <1>2, <2>1, <2>2, RefillIs DEF RoTableInv
<1>6. CASE ReaderGone
  BY <1>6 DEF ReaderGone, RoTableInv
<1>7. \/ UNCHANGED <<roDictEnd, roDictIndex>>
      \/ RoOpenDict \/ RoReloadDict \/ ReaderGone
  BY DEF Next, WriterNext, AppendValue, AppendFails, StartFlush, FlushDict,
         FlushSuffix, FlushControl, FsyncControl, FlushIndex, FlushFails,
         FsyncFails, CloseRw, CrashRw, OpenRw, PowerFailure, ReaderNext,
         RoOpenControl, RoOpenSuffix, RoOpenIndex, RoReloadIndex,
         RoReloadControl, RoReloadSuffix, RoClose, vars, roVars
<1> QED BY <1>3, <1>4, <1>5, <1>6, <1>7

LEMMA NextDecodeInv ==
  ASSUME "append" \notin Failing, StoreInv, EndsInv, DecodeInv, [Next]_vars
  PROVE  DecodeInv'
BY NextPublishedInv, NextTableInv, NextRoTableInv DEF DecodeInv

LEMMA DecodeInvUsed ==
  ASSUME StoreInv, EndsInv, DecodeInv
  PROVE  PublishedDecodes /\ ReaderDecodes
<1>0. /\ control.suffix \in Nat /\ control.dict \in Nat
      /\ roPayload.suffix \in Nat /\ roPayload.dict \in Nat
      /\ control.dict <= Len(dictFile.data) /\ Len(dictFile.data) \in Nat
      /\ dictFile.data \in Seq(Strings \cup {Junk})
  BY StoreTypes DEF StoreInv, FilesInv, FileInv
<1>1. ASSUME NEW e, NEW strings, NEW n \in Nat, Named(e, strings, n),
             NEW table, Len(table) = n, \A i \in 1..n : table[i] = strings[i]
      PROVE  Decodes(e, table)
  BY <1>1, ConstantsAssumption DEF Named, Decodes, Entry
<1>2. PublishedDecodes
  <2> SUFFICES ASSUME NEW i \in 1..control.suffix
               PROVE  Decodes(suffixFile.data[i],
                              SubSeq(dictFile.data, 1,
                                     Least(control.dict, Len(dictFile.data))))
    BY DEF PublishedDecodes
  <2> DEFINE t == SubSeq(dictFile.data, 1, control.dict)
  <2>1. Least(control.dict, Len(dictFile.data)) = control.dict
    BY <1>0 DEF Least
  <2>2. t = [k \in 1..control.dict |-> dictFile.data[k]]
    BY <1>0
  <2>3. Len(t) = control.dict /\ \A k \in 1..control.dict : t[k] = dictFile.data[k]
    BY <1>0, <2>2
  <2>4. Named(suffixFile.data[i], dictFile.data, control.dict)
    BY DEF DecodeInv, PublishedInv, Decodable, DecodableIn
  <2> HIDE DEF t
  <2>5. Decodes(suffixFile.data[i], t)
    BY <1>0, <1>1, <2>3, <2>4
  <2> QED BY <2>1, <2>5 DEF t
<1>3. ReaderDecodes
  <2> SUFFICES ASSUME roPc \in RoAtRest, NEW i \in 1..roSuffixEnd
               PROVE  Decodes(suffixFile.data[i], roDictIndex)
    BY DEF ReaderDecodes
  <2>1. roSuffixEnd = roPayload.suffix /\ roDictEnd = roPayload.dict
    BY DEF RoAtRest, EndsInv
  <2>2. Named(suffixFile.data[i], dictFile.data, roPayload.dict)
    BY <2>1 DEF DecodeInv, PublishedInv, Decodable, DecodableIn
  <2> QED BY <1>0, <1>1, <2>1, <2>2 DEF DecodeInv, RoTableInv
<1> QED BY <1>2, <1>3

(* Every entry that a crash or a power failure may leave published can be    *)
(* decoded with the dict published with it, and what a reader reaches after  *)
(* an open or a reload with the strings it refilled its dict with, if no     *)
(* write fails in the middle of an append.                                   *)
THEOREM EntriesDecode ==
  ASSUME "append" \notin Failing
  PROVE  Spec => []PublishedDecodes /\ []ReaderDecodes
<1>1. Init => StoreInv /\ EndsInv /\ DecodeInv
  BY InitStoreInv, InitLogInv, InitDecodeInv DEF LogInv
<1>2. (StoreInv /\ EndsInv /\ DecodeInv) /\ [Next]_vars
        => (StoreInv /\ EndsInv /\ DecodeInv)'
  BY NextStoreInv, NextEndsInv, NextDecodeInv
<1>3. StoreInv /\ EndsInv /\ DecodeInv => PublishedDecodes /\ ReaderDecodes
  BY DecodeInvUsed
<1> QED BY <1>1, <1>2, <1>3, PTL DEF Spec
-----------------------------------------------------------------------------
(***************************************************************************)
(* What the processes of FlushReload find: the index leads to the value it  *)
(* is the hash of, on disk and in memory, and what a flush has acknowledged *)
(* stays found.                                                             *)
(***************************************************************************)

\* The index leads to its values, in the file or in the buffer.
WriterLeads ==
  \A h \in Indexed : index[h] # 0 =>
    /\ index[h] \in 1..EndPoff(suffix)
    /\ At(suffix, suffixFile, index[h]) \in Entry
    /\ At(suffix, suffixFile, index[h]).hash = h

\* An index on disk, or a copy of it, leads to its values before end.
LeadsIn(idx, end, entries) ==
  \A h \in Indexed : idx[h] # 0 =>
    /\ idx[h] \in 1..end
    /\ entries[idx[h]] \in Entry
    /\ entries[idx[h]].hash = h
Leads(idx, end) == LeadsIn(idx, end, suffixFile.data)

IndexInv ==
  /\ pc # "down" => WriterLeads
  /\ Leads(indexFile, control.suffix)
  /\ roPc = "control" => Leads(roIndex, control.suffix)
  /\ roPc \in {"suffix", "dict", "reloaded"} => Leads(roIndex, roPayload.suffix)

\* What a flush acknowledged is published, and in the index for good.
AckedInv ==
  /\ acked <= control.suffix
  /\ \A h \in ackedIndex : indexFile[h] # 0
  /\ pc # "down" => \A h \in Indexed : indexFile[h] # 0 => index[h] # 0

\* What is only in the buffer is staged, or about to be.
StagedInv ==
  /\ pc \in {"ready", "down"} => adding = NoHash
  /\ \A i \in 1..Len(suffix.buf) : suffix.buf[i].hash \in staging \cup {adding}

LEMMA InitIndexInv == Init => IndexInv /\ AckedInv /\ StagedInv
<1> SUFFICES ASSUME Init PROVE IndexInv /\ AckedInv /\ StagedInv
  OBVIOUS
<1>1. /\ \A h \in Indexed : index[h] = 0 /\ indexFile[h] = 0
      /\ acked = 0 /\ ackedIndex = {} /\ control.suffix = 0 /\ roPc = "down"
      /\ suffix.buf = << >> /\ adding = NoHash
  BY DEF Init, NoIndex, NoPayload, Opened
<1> QED BY <1>1 DEF IndexInv, WriterLeads, Leads, LeadsIn, AckedInv, StagedInv

\* The failed append of an entry loses nothing that was there.
LEMMA FailGrows ==
  ASSUME StoreInv, NEW h \in Hashes, AppendFails(h)
  PROVE  /\ pc = "ready" /\ UNCHANGED suffixFile
         /\ Grown(suffix, suffixFile, suffix', suffixFile')
<1>1. pc = "ready" /\ UNCHANGED suffixFile /\ WriterInv /\ StepOf[h] \in Strings
  BY ConstantsAssumption DEF AppendFails, StoreInv
<1>2. suffix \in Ao(Entry)
  BY <1>1, FilesHold
<1>3. CASE UNCHANGED suffix
  BY <1>1, <1>2, <1>3, NothingGrows
<1>4. CASE \E id \in 0..Len(dictIndex) + 1 :
             /\ DictAdd(StepOf[h], id)
             /\ suffix' = AppendFailed(suffix, [hash |-> h, id |-> id])
  <2>1. PICK id \in 0..Len(dictIndex) + 1 :
             /\ DictAdd(StepOf[h], id)
             /\ suffix' = AppendFailed(suffix, [hash |-> h, id |-> id])
    BY <1>4
  <2>2. id \in Nat
    BY <1>1, <2>1, DictAddInv DEF StoreInv
  <2>3. [hash |-> h, id |-> id] \in Entry
    BY <2>2 DEF Entry
  <2> QED BY <1>1, <1>2, <2>1, <2>3, AppendFailedGrows
<1> QED BY <1>1, <1>3, <1>4 DEF AppendFails

LEMMA NextWriterLeads ==
  ASSUME StoreInv, IndexInv, [Next]_vars, pc' # "down"
  PROVE  WriterLeads'
<1>0. StoreInv'
  BY NextStoreInv
<1>1. ASSUME NEW h \in Hashes, AppendValue(h) PROVE WriterLeads'
  <2>1. pc = "ready" /\ MemoryGrows
    BY <1>1, ValueGrows
  <2>2. PICK id \in Nat :
          LET e == [hash |-> h, id |-> id] IN
          /\ e \in Entry
          /\ EndPoff(suffix') = EndPoff(suffix) + 1
          /\ At(suffix', suffixFile', EndPoff(suffix) + 1) = e
    BY <1>1, ValueGrows
  <2>3. EndPoff(suffix) \in Nat
    BY <2>1, FilesHold, AoFields
  <2>4. ASSUME NEW k \in Indexed, index'[k] # 0
        PROVE  /\ index'[k] \in 1..EndPoff(suffix')
               /\ At(suffix', suffixFile', index'[k]) \in Entry
               /\ At(suffix', suffixFile', index'[k]).hash = k
    <3>1. CASE k = h
      <4>1. index'[k] = EndPoff(suffix) + 1
        BY <1>1, <3>1 DEF AppendValue
      <4> QED BY <2>2, <2>3, <3>1, <4>1
    <3>2. CASE k # h
      <4>1. index'[k] = index[k]
        BY <1>1, <3>2 DEF AppendValue
      <4>2. /\ index[k] \in 1..EndPoff(suffix)
            /\ At(suffix, suffixFile, index[k]) \in Entry
            /\ At(suffix, suffixFile, index[k]).hash = k
        BY <2>1, <2>4, <4>1 DEF IndexInv, WriterLeads
      <4>3. At(suffix', suffixFile', index[k]) = At(suffix, suffixFile, index[k])
        BY <2>1, <4>2 DEF MemoryGrows, Grown
      <4> QED BY <2>2, <2>3, <4>1, <4>2, <4>3
    <3> QED BY <3>1, <3>2
  <2> QED BY <2>4 DEF WriterLeads
<1>2. ASSUME pc # "down", Grown(suffix, suffixFile, suffix', suffixFile'),
             UNCHANGED index
      PROVE  WriterLeads'
  <2>1. WriterLeads /\ EndPoff(suffix) \in Nat
    BY <1>2, FilesHold, AoFields DEF IndexInv
  <2>2. EndPoff(suffix') \in Nat /\ EndPoff(suffix) <= EndPoff(suffix')
    <3>1. suffix' \in Ao(Entry)
      BY <1>0 DEF StoreInv, TypeOK
    <3> QED BY <1>2, <3>1, AoFields DEF Grown
  <2> SUFFICES ASSUME NEW k \in Indexed, index[k] # 0
               PROVE  /\ index[k] \in 1..EndPoff(suffix')
                      /\ At(suffix', suffixFile', index[k]) \in Entry
                      /\ At(suffix', suffixFile', index[k]).hash = k
    BY <1>2 DEF WriterLeads
  <2>3. /\ index[k] \in 1..EndPoff(suffix)
        /\ At(suffix, suffixFile, index[k]) \in Entry
        /\ At(suffix, suffixFile, index[k]).hash = k
    BY <2>1 DEF WriterLeads
  <2>4. At(suffix', suffixFile', index[k]) = At(suffix, suffixFile, index[k])
    BY <1>2, <2>3 DEF Grown
  <2> QED BY <2>1, <2>2, <2>3, <2>4
<1>3. ASSUME NEW h \in Hashes, AppendFails(h) PROVE WriterLeads'
  <2>1. UNCHANGED index
    BY <1>3 DEF AppendFails
  <2> QED BY <1>2, <1>3, <2>1, FailGrows
<1>4. ASSUME NoAppend PROVE WriterLeads'
  <2>1. pc # "down" /\ UNCHANGED index
    BY <1>4 DEF NoAppend, StartFlush, FlushDict, FlushSuffix, FlushControl,
                FsyncControl, FlushIndex, FlushFails, FsyncFails, ReaderNext,
                RoOpenControl, RoOpenSuffix, RoOpenDict, RoOpenIndex,
                RoReloadIndex, RoReloadControl, RoReloadSuffix, RoReloadDict,
                RoClose, vars, rwVars, FlushStages
  <2> QED BY <1>2, <1>4, <2>1, NoAppendGrows DEF MemoryGrows
<1>5. CASE OpenRw
  <2>1. /\ suffix' = Opened(control.suffix) /\ index' = indexFile
        /\ UNCHANGED suffixFile /\ control.suffix \in Nat
    BY <1>5, StoreTypes DEF OpenRw, fileVars, StoreInv
  <2>2. EndPoff(suffix') = control.suffix /\ suffix'.persisted = control.suffix
    BY <2>1 DEF Opened, EndPoff
  <2>3. \A i \in 1..control.suffix :
          At(suffix', suffixFile', i) = suffixFile.data[i]
    BY <2>1, <2>2 DEF At
  <2> QED BY <2>1, <2>2, <2>3 DEF WriterLeads, IndexInv, Leads, LeadsIn
<1>6. CASE CloseRw \/ CrashRw \/ PowerFailure
  BY <1>6 DEF CloseRw, CrashRw, PowerFailure, WriterGone
<1> QED BY <1>1, <1>3, <1>4, <1>5, <1>6 DEF Next, WriterNext, NoAppend

LEMMA LeadsKept ==
  ASSUME StoreInv, PublishedKept, NEW idx, NEW end \in Nat, Leads(idx, end),
         end <= control.suffix, NEW newEnd \in Nat, end <= newEnd
  PROVE  LeadsIn(idx, newEnd, suffixFile'.data)
<1>1. control.suffix \in Nat
  BY StoreTypes DEF StoreInv
<1>2. \A i \in 1..end : suffixFile'.data[i] = suffixFile.data[i]
  BY <1>1 DEF PublishedKept, Kept
<1> QED BY <1>2 DEF Leads, LeadsIn

\* When nothing is left to publish, the index of the writer may go to disk.
LEMMA WriterIndexLeads ==
  ASSUME StoreInv, pc # "down", WriterLeads, suffix.buf = << >>,
         EndPoff(suffix) = control.suffix
  PROVE  Leads(index, control.suffix)
<1>1. suffix.persisted = control.suffix /\ control.suffix \in Nat
  BY SMTT(30), FilesHold, AoFields, StoreTypes DEF EndPoff, StoreInv
<1>2. \A i \in 1..control.suffix : At(suffix, suffixFile, i) = suffixFile.data[i]
  BY <1>1 DEF At
<1> QED BY <1>2 DEF WriterLeads, Leads, LeadsIn

LEMMA NextIndexInv ==
  ASSUME ~PowerFails, StoreInv, EndsInv, IndexInv, [Next]_vars
  PROVE  IndexInv'
<1>0. /\ control.suffix \in Nat /\ roPayload.suffix \in Nat
      /\ control'.suffix \in Nat /\ roPayload'.suffix \in Nat
      /\ roPayload.suffix <= control.suffix
      /\ control.suffix <= control.suffix /\ roPayload.suffix <= roPayload.suffix
  <2>1. StoreInv'
    BY NextStoreInv
  <2>2. control' \in Payload /\ roPayload' \in Payload
    BY <2>1 DEF StoreInv, TypeOK
  <2> QED BY SMTT(30), <2>2, StoreTypes DEF StoreInv, EndsInv, Payload
<1>1. PublishedKept /\ control.suffix <= control'.suffix
  BY StepKeeps, NextEndsInv DEF PowerFailure, Forward
<1> DEFINE In(idx, end) == LeadsIn(idx, end, suffixFile'.data)
<1>2. In(indexFile, control'.suffix) /\ In(indexFile, control.suffix)
  BY <1>0, <1>1, LeadsKept DEF IndexInv
<1>3. In(indexFile', control'.suffix)
  <2>1. CASE indexFile' = indexFile
    BY <1>2, <2>1
  <2>2. CASE (FlushIndex \/ CloseRw) /\ indexFile' = index /\ index # indexFile
    <3>1. pc # "down" /\ suffix.buf = << >>
      BY <2>2 DEF FlushIndex, CloseRw, StoreInv, WriterInv, AoFlushed
    <3>2. EndPoff(suffix) = control.suffix
      <4>1. CASE FlushIndex
        BY <4>1 DEF FlushIndex, EndsInv
      <4>2. CASE CloseRw
        <5>1. NewPayload = payload /\ payload = control
          BY <2>2, <3>1, <4>2 DEF CloseRw, IndexCloses, EndsInv
        <5> QED BY <5>1 DEF NewPayload
      <4> QED BY <2>2, <4>1, <4>2
    <3>3. Leads(index, control.suffix)
      BY <3>1, <3>2, WriterIndexLeads DEF IndexInv
    <3> QED BY <1>0, <1>1, <2>2, <3>3, LeadsKept
  <2>3. \/ indexFile' = indexFile
        \/ (FlushIndex \/ CloseRw) /\ indexFile' = index
    BY DEF Next, WriterNext, AppendValue, AppendFails, StartFlush, FlushDict,
           FlushSuffix, FlushControl, FsyncControl, FlushIndex, FlushFails,
           FsyncFails, CloseRw, CrashRw, OpenRw, PowerFailure, ReaderNext,
           RoOpenControl, RoOpenSuffix, RoOpenDict, RoOpenIndex, RoReloadIndex,
           RoReloadControl, RoReloadSuffix, RoReloadDict, RoClose, vars, fileVars
  <2> QED BY <2>1, <2>2, <2>3
<1>4. /\ roPc' = "control" => In(roIndex', control'.suffix)
      /\ roPc' \in {"suffix", "dict", "reloaded"} => In(roIndex', roPayload'.suffix)
  <2>1. CASE UNCHANGED <<roPc, roPayload, roIndex>>
    BY <1>0, <1>1, <2>1, LeadsKept DEF IndexInv
  <2>2. CASE RoReloadIndex
    BY <1>2, <2>2 DEF RoReloadIndex, fileVars
  <2>3. CASE RoReloadControl
    <3>1. /\ roPc = "control" /\ roPayload' = control /\ UNCHANGED roIndex
          /\ roPc' \in {"reloaded", "suffix"}
      BY <2>3 DEF RoReloadControl
    <3>2. In(roIndex, control.suffix)
      BY <1>0, <1>1, <3>1, LeadsKept DEF IndexInv
    <3> HIDE DEF In
    <3> QED BY <3>1, <3>2
  <2>4. CASE RoReloadSuffix \/ RoReloadDict
    <3>1. /\ roPc \in {"suffix", "dict"} /\ roPc' \in {"dict", "reloaded"}
          /\ UNCHANGED <<roIndex, roPayload>>
      BY <2>4 DEF RoReloadSuffix, RoReloadDict
    <3>2. In(roIndex, roPayload.suffix)
      BY <1>0, <1>1, <3>1, LeadsKept DEF IndexInv
    <3> HIDE DEF In
    <3> QED BY <3>1, <3>2
  <2>5. CASE RoOpenControl \/ RoOpenSuffix \/ RoOpenDict \/ RoOpenIndex \/ RoClose
    BY <2>5 DEF RoOpenControl, RoOpenSuffix, RoOpenDict, RoOpenIndex, RoClose,
                ReaderGone
  <2>6. CASE PowerFailure
    BY <2>6 DEF PowerFailure
  <2>7. CASE ~ReaderNext /\ ~PowerFailure
    <3>1. UNCHANGED <<roPc, roPayload, roIndex>>
      BY <2>7 DEF Next, WriterNext, AppendValue, AppendFails, StartFlush,
             FlushDict, FlushSuffix, FlushControl, FsyncControl, FlushIndex,
             FlushFails, FsyncFails, CloseRw, CrashRw, OpenRw, vars, roVars
    <3> QED BY <2>1, <3>1
  <2> QED BY <2>2, <2>3, <2>4, <2>5, <2>6, <2>7 DEF ReaderNext
<1>5. pc' # "down" => WriterLeads'
  BY NextWriterLeads
<1> QED BY <1>3, <1>4, <1>5 DEF IndexInv, Leads

LEMMA NextAckedInv ==
  ASSUME ~PowerFails, StoreInv, EndsInv, AckedInv, [Next]_vars
  PROVE  AckedInv'
<1>0. /\ control.suffix \in Nat /\ acked \in Nat
      /\ ackedIndex \subseteq Indexed
  BY StoreTypes DEF StoreInv, TypeOK
<1>1. control'.suffix \in Nat /\ control.suffix <= control'.suffix
  <2>1. StoreInv'
    BY NextStoreInv
  <2> QED BY <2>1, NextEndsInv DEF PowerFailure, Forward, StoreInv, TypeOK, Payload
<1>2. ASSUME FlushIndex PROVE AckedInv'
  <2>1. pc = "index" /\ indexFile' = index /\ UNCHANGED <<control, index>>
    BY <1>2 DEF FlushIndex
  <2>2. \A h \in Indexed : indexFile[h] # 0 => index[h] # 0
    BY <2>1 DEF AckedInv
  <2>3. CASE auto
    BY <1>0, <1>2, <2>1, <2>2, <2>3 DEF FlushIndex, AckedInv, ackVars
  <2>4. CASE ~auto
    <3>1. /\ acked' = EndPoff(suffix)
          /\ ackedIndex' = {h \in Indexed : index[h] # 0}
      BY <1>2, <2>4 DEF FlushIndex
    <3>2. EndPoff(suffix) = control.suffix
      BY <2>1 DEF EndsInv
    <3> QED BY <1>0, <2>1, <3>1, <3>2 DEF AckedInv
  <2> QED BY <2>3, <2>4
<1>3. ASSUME CloseRw PROVE AckedInv'
  <2>1. /\ pc = "ready" /\ pc' = "down" /\ UNCHANGED <<control, acked, ackedIndex>>
        /\ indexFile' \in {index, indexFile}
    BY <1>3 DEF CloseRw, WriterGone, ackVars
  <2>2. \A h \in Indexed : indexFile[h] # 0 => index[h] # 0
    BY <2>1 DEF AckedInv
  <2> QED BY <1>0, <2>1, <2>2 DEF AckedInv
<1>4. ASSUME ~FlushIndex, ~CloseRw PROVE AckedInv'
  <2>1. UNCHANGED <<indexFile, acked, ackedIndex>>
    BY <1>4 DEF Next, WriterNext, AppendValue, AppendFails, StartFlush, FlushDict,
           FlushSuffix, FlushControl, FsyncControl, FlushFails, FsyncFails,
           CrashRw, OpenRw, PowerFailure, ReaderNext, RoOpenControl,
           RoOpenSuffix, RoOpenDict, RoOpenIndex, RoReloadIndex,
           RoReloadControl, RoReloadSuffix, RoReloadDict, RoClose, vars,
           fileVars, ackVars
  <2>2. ASSUME pc' # "down", NEW h \in Indexed, indexFile[h] # 0
        PROVE  index'[h] # 0
    <3>1. CASE \E k \in Hashes : AppendValue(k)
      <4>1. PICK k \in Hashes : AppendValue(k)
        BY <3>1
      <4>2. pc = "ready" /\ EndPoff(suffix) \in Nat
        BY <4>1, FilesHold, AoFields DEF AppendValue
      <4> QED BY <2>2, <4>1, <4>2 DEF AppendValue, AckedInv
    <3>2. CASE OpenRw
      BY <2>2, <3>2 DEF OpenRw
    <3>3. CASE CrashRw \/ PowerFailure
      BY <2>2, <3>3 DEF CrashRw, WriterGone, PowerFailure
    <3>4. CASE ~(\E k \in Hashes : AppendValue(k)) /\ ~OpenRw /\ ~CrashRw
               /\ ~PowerFailure
      <4>1. pc # "down" /\ UNCHANGED index
        BY <1>4, <2>2, <3>4 DEF Next, WriterNext, AppendFails, StartFlush,
               FlushDict, FlushSuffix, FlushControl, FsyncControl, FlushFails,
               FsyncFails, ReaderNext, RoOpenControl, RoOpenSuffix, RoOpenDict,
               RoOpenIndex, RoReloadIndex, RoReloadControl, RoReloadSuffix,
               RoReloadDict, RoClose, vars, rwVars, FlushStages
      <4> QED BY <2>2, <4>1 DEF AckedInv
    <3> QED BY <3>1, <3>2, <3>3, <3>4
  <2> QED BY <1>0, <1>1, <2>1, <2>2 DEF AckedInv
<1> QED BY <1>2, <1>3, <1>4

LEMMA LeadsResolve ==
  ASSUME StoreInv, NEW idx, NEW end \in Nat, end <= control.suffix,
         Leads(idx, end)
  PROVE  Resolves(idx, end)
<1>1. /\ control.suffix \in Nat /\ control.suffix <= Len(suffixFile.data)
      /\ Len(suffixFile.data) \in Nat
  BY StoreTypes DEF StoreInv, FilesInv, FileInv
<1>2. Least(end, Len(suffixFile.data)) = end
  BY <1>1 DEF Least
<1>3. Junk \notin Entry
  BY ConstantsAssumption DEF Entry
<1> QED BY <1>2, <1>3 DEF Leads, LeadsIn, Resolves

(* While the machine keeps its power, and whatever else fails, the index     *)
(* file never runs ahead of the control file, and what a reader finds in its *)
(* index after a reload is in the suffix it reads.                           *)
THEOREM IndexIsBehind ==
  ASSUME ~PowerFails
  PROVE  Spec => []IndexBehindControl /\ []ReloadedIndexResolves
<1> DEFINE Inv == StoreInv /\ EndsInv /\ IndexInv
<1>1. Init => Inv
  BY InitStoreInv, InitLogInv, InitIndexInv DEF LogInv
<1>2. Inv /\ [Next]_vars => Inv'
  BY NextStoreInv, NextEndsInv, NextIndexInv
<1>3. Inv => IndexBehindControl /\ ReloadedIndexResolves
  <2> SUFFICES ASSUME Inv PROVE IndexBehindControl /\ ReloadedIndexResolves
    OBVIOUS
  <2>1. /\ control.suffix \in Nat /\ roPayload.suffix \in Nat
        /\ control.suffix <= control.suffix
    BY StoreTypes DEF StoreInv
  <2>2. IndexBehindControl
    BY <2>1, LeadsResolve DEF IndexBehindControl, IndexInv
  <2>3. ReloadedIndexResolves
    <3> SUFFICES ASSUME roPc = "reloaded" PROVE Resolves(roIndex, roSuffixEnd)
      BY DEF ReloadedIndexResolves
    <3>1. roSuffixEnd = roPayload.suffix /\ roPayload.suffix <= control.suffix
      BY DEF EndsInv
    <3> QED BY <2>1, <3>1, LeadsResolve DEF IndexInv
  <2> QED BY <2>2, <2>3
<1> HIDE DEF Inv
<1> QED BY <1>1, <1>2, <1>3, PTL DEF Spec

(* While the machine keeps its power, what a flush acknowledged stays        *)
(* published, and its commits stay in the index, through every death of the  *)
(* writer and every error.                                                   *)
THEOREM AcksSurvive == ASSUME ~PowerFails PROVE Spec => []AckedSurvives
<1> DEFINE Inv == StoreInv /\ EndsInv /\ AckedInv
<1>1. Init => Inv
  BY InitStoreInv, InitLogInv, InitIndexInv DEF LogInv
<1>2. Inv /\ [Next]_vars => Inv'
  BY NextStoreInv, NextEndsInv, NextAckedInv
<1>3. Inv => AckedSurvives
  BY DEF AckedInv, AckedSurvives
<1> HIDE DEF Inv
<1> QED BY <1>1, <1>2, <1>3, PTL DEF Spec

(* A reader beside a writer that runs or dies reads and decodes what its     *)
(* suffix and its index let it reach.                                        *)
THEOREM ReaderFinds ==
  ASSUME ~PowerFails, "append" \notin Failing
  PROVE  Spec => []ReaderReads
<1>1. Spec => []ReaderDecodes /\ []ReloadedIndexResolves
  BY EntriesDecode, IndexIsBehind
<1>2. ReaderDecodes /\ ReloadedIndexResolves => ReaderReads
  BY DEF ReaderReads
<1> QED BY <1>1, <1>2, PTL

LEMMA NextStagedInv ==
  ASSUME Failing = {}, StoreInv, StagedInv, [Next]_vars
  PROVE  StagedInv'
<1>1. ASSUME NEW h \in Hashes, AppendValue(h) PROVE StagedInv'
  <2>1. PICK id \in Nat :
          LET e == [hash |-> h, id |-> id] IN
          suffix'.buf = << >> \/ suffix'.buf = Append(suffix.buf, e)
    BY <1>1, ValueGrows
  <2> DEFINE e == [hash |-> h, id |-> id]
  <2>2. e.hash = h /\ suffix.buf \in Seq(Entry) /\ pc = "ready" /\ adding = NoHash
    BY <1>1, FilesHold, AoFields DEF AppendValue, StagedInv
  <2>3. \A i \in 1..Len(suffix.buf) : suffix.buf[i].hash \in staging
    <3> SUFFICES ASSUME NEW i \in 1..Len(suffix.buf)
                 PROVE  suffix.buf[i].hash \in staging
      OBVIOUS
    <3>1. suffix.buf[i] \in Entry
      BY <2>2
    <3>2. suffix.buf[i].hash \in Hashes
      BY <3>1 DEF Entry
    <3> QED BY <2>2, <3>2, ConstantsAssumption DEF StagedInv
  <2> HIDE DEF e
  <2>4. \A i \in 1..Len(suffix'.buf) : suffix'.buf[i].hash \in staging \cup {h}
    <3>1. CASE suffix'.buf = << >>
      BY <3>1
    <3>2. CASE suffix'.buf = Append(suffix.buf, e)
      BY <2>2, <2>3, <3>2
    <3> QED BY <2>1, <3>1, <3>2 DEF e
  <2>5. \/ pc' = "ready" /\ adding' = NoHash /\ staging' = staging \cup {h}
        \/ pc' = "dict" /\ adding' = h /\ staging' = staging
    BY <1>1, <2>2 DEF AppendValue
  <2> QED BY <2>4, <2>5 DEF StagedInv
<1>2. ASSUME UNCHANGED <<staging, adding>>, suffix'.buf = suffix.buf \/ suffix'.buf = << >>,
             pc' \in {"ready", "down"} => pc \in {"ready", "down"}
      PROVE  StagedInv'
  BY <1>2 DEF StagedInv
<1>3. ASSUME suffix'.buf = << >>, pc' \in {"ready", "down"} => adding' = NoHash
      PROVE  StagedInv'
  BY <1>3 DEF StagedInv
<1>4. CASE StartFlush \/ FlushDict
  BY <1>2, <1>4 DEF StartFlush, FlushDict
<1>5. CASE FlushSuffix
  <2>1. FlushStage(suffix, suffixFile).ao.buf = << >>
    BY <1>5, FilesHold, FlushStageInv, ConstantsAssumption, StoreTypes
    DEF FlushSuffix, StoreInv, WriterInv, FilesInv, AoFlushed
  <2> QED BY <1>3, <1>5, <2>1 DEF FlushSuffix
<1>6. CASE FlushControl \/ FsyncControl \/ FlushIndex
  <2>1. suffix.buf = << >> /\ UNCHANGED suffix
    BY <1>6 DEF FlushControl, FsyncControl, FlushIndex, StoreInv, WriterInv,
                AoFlushed
  <2>2. pc' \in {"ready", "down"} => adding' = NoHash
    BY <1>6 DEF FlushControl, FsyncControl, FlushIndex
  <2> QED BY <1>3, <2>1, <2>2
<1>7. CASE CloseRw \/ CrashRw \/ PowerFailure
  BY <1>3, <1>7 DEF CloseRw, CrashRw, PowerFailure, WriterGone, Opened
<1>8. CASE OpenRw
  BY <1>3, <1>8 DEF OpenRw, Opened, StagedInv
<1>9. CASE ReaderNext \/ UNCHANGED vars
  <2>1. UNCHANGED rwVars
    BY <1>9 DEF ReaderNext, RoOpenControl, RoOpenSuffix, RoOpenDict, RoOpenIndex,
                RoReloadIndex, RoReloadControl, RoReloadSuffix, RoReloadDict,
                RoClose, vars
  <2> QED BY <1>2, <2>1 DEF rwVars
<1>10. ~FlushFails /\ ~FsyncFails /\ \A h \in Hashes : ~AppendFails(h)
  BY DEF FlushFails, FsyncFails, AppendFails
<1> QED BY <1>1, <1>4, <1>5, <1>6, <1>7, <1>8, <1>9, <1>10 DEF Next, WriterNext

LEMMA StagedInvUsed ==
  ASSUME StoreInv, IndexInv, StagedInv
  PROVE  WriterReads
<1> SUFFICES ASSUME pc # "down"
             PROVE  /\ \A i \in 1..Len(suffix.buf) :
                         suffix.buf[i].hash \in staging \cup {adding}
                    /\ Resolves([h \in Indexed |->
                                   IF h \in staging \cup {adding} THEN 0
                                   ELSE index[h]], suffix.persisted)
  BY DEF WriterReads
<1>1. /\ suffix.persisted \in Nat /\ suffix.persisted <= Len(suffixFile.data)
      /\ Len(suffixFile.data) \in Nat /\ Len(suffix.buf) \in Nat
      /\ EndPoff(suffix) = suffix.persisted + Len(suffix.buf)
  BY SMTT(30), FilesHold, AoFields, StoreTypes DEF StoreInv, EndPoff
<1>2. Least(suffix.persisted, Len(suffixFile.data)) = suffix.persisted
  BY <1>1 DEF Least
<1>3. ASSUME NEW h \in Indexed, h \notin staging \cup {adding}, index[h] # 0
      PROVE  /\ index[h] <= suffix.persisted
             /\ suffixFile.data[index[h]] # Junk
             /\ suffixFile.data[index[h]].hash = h
  <2>1. /\ index[h] \in 1..EndPoff(suffix)
        /\ At(suffix, suffixFile, index[h]) \in Entry
        /\ At(suffix, suffixFile, index[h]).hash = h
    BY <1>3 DEF IndexInv, WriterLeads
  <2>2. index[h] <= suffix.persisted
    <3> SUFFICES ASSUME ~(index[h] <= suffix.persisted) PROVE FALSE
      OBVIOUS
    <3> DEFINE i == index[h] - suffix.persisted
    <3>1. i \in 1..Len(suffix.buf)
      BY <1>1, <2>1
    <3>2. At(suffix, suffixFile, index[h]) = suffix.buf[i]
      BY DEF At
    <3> QED BY <1>3, <2>1, <3>1, <3>2 DEF StagedInv
  <2>3. suffixFile.data[index[h]] = At(suffix, suffixFile, index[h])
    BY <2>2 DEF At
  <2>4. Junk \notin Entry
    BY ConstantsAssumption DEF Entry
  <2> QED BY <2>1, <2>2, <2>3, <2>4
<1> QED BY <1>2, <1>3 DEF StagedInv, Resolves

(* While nothing fails but processes, the writer finds in its tables or in   *)
(* the file every value it knows.                                            *)
THEOREM WriterFinds ==
  ASSUME ~PowerFails, Failing = {}
  PROVE  Spec => []WriterReads
<1> DEFINE Inv == StoreInv /\ EndsInv /\ IndexInv /\ StagedInv
<1>1. Init => Inv
  BY InitStoreInv, InitLogInv, InitIndexInv DEF LogInv
<1>2. Inv /\ [Next]_vars => Inv'
  BY NextStoreInv, NextEndsInv, NextIndexInv, NextStagedInv
<1>3. Inv => WriterReads
  BY StagedInvUsed
<1> HIDE DEF Inv
<1> QED BY <1>1, <1>2, <1>3, PTL DEF Spec
=============================================================================
