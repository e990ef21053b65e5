------------------------- MODULE FlushReload_proofs -------------------------
(***************************************************************************)
(* Proofs about FlushReload: the lengths of its files and the ends, then    *)
(* what its bytes do not lose.                                              *)
(***************************************************************************)
EXTENDS FlushReload, TLAPS

LEMMA OverwriteType ==
  ASSUME NEW S, NEW s \in Seq(S \cup {Junk}), NEW off \in Nat,
         NEW buf \in Seq(S)
  PROVE  /\ Overwrite(s, off, buf) \in Seq(S \cup {Junk})
         /\ Len(Overwrite(s, off, buf)) = Greatest(Len(s), off + Len(buf))
<1> DEFINE n == Greatest(Len(s), off + Len(buf))
<1>1. n \in Nat
  BY DEF Greatest
<1>2. \A i \in 1..n : Overwrite(s, off, buf)[i] \in S \cup {Junk}
  BY <1>1 DEF Overwrite, Greatest
<1>3. Overwrite(s, off, buf) \in [1..n -> S \cup {Junk}]
  BY <1>2 DEF Overwrite
<1> QED BY <1>1, <1>3

LEMMA OverwriteKeeps ==
  ASSUME NEW S, NEW s \in Seq(S \cup {Junk}), NEW off \in Nat,
         NEW buf \in Seq(S), NEW i \in 1..Len(s), i <= off
  PROVE  Overwrite(s, off, buf)[i] = s[i]
BY DEF Overwrite, Greatest

LEMMA SurvivingType ==
  ASSUME NEW S, NEW file \in File(S \cup {Junk}), NEW n \in 0..Len(file.data)
  PROVE  /\ Surviving(file, n) \in File(S \cup {Junk})
         /\ Len(Surviving(file, n).data) = n
         /\ n >= file.safe => Surviving(file, n).safe = file.safe
BY DEF Surviving, File, Least

LEMMA AoFields ==
  ASSUME NEW S, NEW ao \in Ao(S)
  PROVE  ao.persisted \in Nat /\ ao.buf \in Seq(S) /\ EndPoff(ao) \in Nat
BY DEF Ao, EndPoff

LEMMA BufferedType ==
  ASSUME NEW S, NEW ao \in Ao(S), NEW x \in S
  PROVE  /\ Buffered(ao, x) \in Ao(S)
         /\ Buffered(ao, x).persisted = ao.persisted
         /\ Buffered(ao, x).buf = Append(ao.buf, x)
         /\ Buffered(ao, x).fsync = ao.fsync
         /\ Buffered(ao, x).full = ao.full
         /\ EndPoff(Buffered(ao, x)) = EndPoff(ao) + 1
<1> DEFINE b == Append(ao.buf, x)
<1>1. b \in Seq(S) /\ Len(b) = Len(ao.buf) + 1
  BY AoFields
<1>2. Buffered(ao, x) = [ao EXCEPT !.buf = b]
  BY DEF Buffered
<1> HIDE DEF b
<1>3. Buffered(ao, x) \in Ao(S) /\ Buffered(ao, x).buf = b
      /\ Buffered(ao, x).persisted = ao.persisted
      /\ Buffered(ao, x).fsync = ao.fsync
      /\ Buffered(ao, x).full = ao.full
  BY <1>1, <1>2 DEF Ao
<1>4. EndPoff(Buffered(ao, x)) = EndPoff(ao) + 1
  BY SMTT(30), <1>1, <1>3, AoFields DEF EndPoff
<1> QED BY <1>3, <1>4 DEF b

LEMMA FlushedType ==
  ASSUME NEW S, NEW ao \in Ao(S), NEW file \in File(S \cup {Junk}),
         ao.persisted <= Len(file.data), file.safe <= Len(file.data)
  PROVE  /\ Flushed(ao) \in Ao(S)
         /\ Flushed(ao).persisted = EndPoff(ao)
         /\ EndPoff(Flushed(ao)) = EndPoff(ao)
         /\ FlushedFile(ao, file) \in File(S \cup {Junk})
         /\ EndPoff(ao) <= Len(FlushedFile(ao, file).data)
         /\ Len(file.data) <= Len(FlushedFile(ao, file).data)
         /\ FlushedFile(ao, file).safe = Least(file.safe, ao.persisted)
<1> DEFINE f == FlushedFile(ao, file)
<1>1. /\ ao.persisted \in Nat /\ ao.buf \in Seq(S) /\ EndPoff(ao) \in Nat
  BY AoFields
<1>2. file.data \in Seq(S \cup {Junk}) /\ file.safe \in Nat
  BY DEF File
<1>3. f.data = Overwrite(file.data, ao.persisted, ao.buf)
      /\ f.safe = Least(file.safe, ao.persisted)
  BY DEF FlushedFile, WriteAt
<1> DEFINE w == Overwrite(file.data, ao.persisted, ao.buf)
<1>a. /\ w \in Seq(S \cup {Junk})
      /\ Len(w) = Greatest(Len(file.data), ao.persisted + Len(ao.buf))
  <2> DEFINE d == file.data
             p == ao.persisted
             c == ao.buf
  <2>1. d \in Seq(S \cup {Junk}) /\ p \in Nat /\ c \in Seq(S)
    BY <1>1, <1>2
  <2> HIDE DEF d, p, c
  <2>2. /\ Overwrite(d, p, c) \in Seq(S \cup {Junk})
        /\ Len(Overwrite(d, p, c)) = Greatest(Len(d), p + Len(c))
    BY ONLY <2>1, OverwriteType
  <2> QED BY <2>2 DEF d, p, c
<1>4. f.data \in Seq(S \cup {Junk})
      /\ Len(f.data) = Greatest(Len(file.data), EndPoff(ao))
  BY <1>a, <1>3 DEF EndPoff
<1>5. f \in File(S \cup {Junk})
  BY <1>1, <1>2, <1>3, <1>4 DEF File, FlushedFile, WriteAt, Least
<1>6. Flushed(ao) \in Ao(S) /\ EndPoff(Flushed(ao)) = EndPoff(ao)
      /\ Flushed(ao).persisted = EndPoff(ao)
  BY <1>1 DEF Flushed, Ao, EndPoff
<1> QED BY <1>1, <1>2, <1>3, <1>4, <1>5, <1>6 DEF Greatest

LEMMA OpenedType ==
  ASSUME NEW S, NEW end \in Nat
  PROVE  Opened(end) \in Ao(S) /\ EndPoff(Opened(end)) = end
BY DEF Opened, Ao, EndPoff

(***************************************************************************)
(* What one file and its append-only file owe each other.  end is what the *)
(* control file says of the file, safeEnd what it may say after a power    *)
(* failure.                                                                *)
(***************************************************************************)
FileInv(file, end, safeEnd) ==
  /\ file.safe <= Len(file.data)
  /\ end <= Len(file.data)
  /\ UseFsync => safeEnd <= end /\ end <= file.safe

AoInv(ao, file, end) ==
  /\ ao.persisted <= Len(file.data)
  /\ end <= ao.persisted
  /\ UseFsync /\ ~ao.fsync => ao.persisted <= file.safe

AoFlushed(ao) == ao.buf = << >> /\ (UseFsync => ~ao.fsync)

LEMMA WrittenOutInv ==
  ASSUME NEW S, NEW ao \in Ao(S), NEW file \in File(S \cup {Junk}),
         NEW end \in Nat, NEW safeEnd \in Nat,
         FileInv(file, end, safeEnd), AoInv(ao, file, end)
  PROVE  LET g == FlushedFile(ao, file)
         IN  /\ Flushed(ao) \in Ao(S) /\ g \in File(S \cup {Junk})
             /\ FileInv(g, end, safeEnd) /\ AoInv(Flushed(ao), g, end)
             /\ Len(file.data) <= Len(g.data)
             /\ EndPoff(Flushed(ao)) = EndPoff(ao)
             /\ Flushed(ao).buf = << >>
<1>1. /\ ao.persisted \in Nat /\ file.safe \in Nat /\ Len(file.data) \in Nat
      /\ EndPoff(ao) \in Nat /\ ao.persisted <= EndPoff(ao)
  BY AoFields DEF File, Ao, EndPoff
<1>2. ao.persisted <= Len(file.data) /\ file.safe <= Len(file.data)
  BY DEF AoInv, FileInv
<1>3. /\ Flushed(ao) \in Ao(S)
      /\ Flushed(ao).persisted = EndPoff(ao)
      /\ EndPoff(Flushed(ao)) = EndPoff(ao)
      /\ FlushedFile(ao, file) \in File(S \cup {Junk})
      /\ EndPoff(ao) <= Len(FlushedFile(ao, file).data)
      /\ Len(file.data) <= Len(FlushedFile(ao, file).data)
      /\ FlushedFile(ao, file).safe = Least(file.safe, ao.persisted)
  BY <1>2, FlushedType
<1>4. Flushed(ao).fsync = TRUE /\ Flushed(ao).buf = << >>
  BY DEF Flushed
<1>5. Len(FlushedFile(ao, file).data) \in Nat
  BY <1>3 DEF File
<1> QED BY <1>1, <1>2, <1>3, <1>4, <1>5 DEF AoInv, FileInv, Least

LEMMA AppendExnInv ==
  ASSUME NEW S, NEW ao \in Ao(S), NEW file \in File(S \cup {Junk}), NEW x \in S,
         NEW end \in Nat, NEW safeEnd \in Nat,
         FileInv(file, end, safeEnd), AoInv(ao, file, end),
         NEW r \in AppendExn(ao, file, x)
  PROVE  /\ r.ao \in Ao(S) /\ r.file \in File(S \cup {Junk})
         /\ FileInv(r.file, end, safeEnd) /\ AoInv(r.ao, r.file, end)
         /\ Len(file.data) <= Len(r.file.data)
         /\ EndPoff(r.ao) = EndPoff(ao) + 1
<1> DEFINE b == Buffered(ao, x)
<1>1. /\ b \in Ao(S) /\ b.persisted = ao.persisted /\ b.fsync = ao.fsync
      /\ EndPoff(b) = EndPoff(ao) + 1
  BY BufferedType
<1>2. CASE r = [ao |-> b, file |-> file]
  BY <1>1, <1>2 DEF AoInv
<1>3. CASE r = [ao |-> Flushed(b), file |-> FlushedFile(b, file)]
  <2>1. /\ ao.persisted \in Nat /\ file.safe \in Nat /\ Len(file.data) \in Nat
        /\ EndPoff(b) \in Nat /\ ao.persisted <= EndPoff(b)
    BY <1>1, AoFields DEF File, Ao, EndPoff
  <2>2. b.persisted <= Len(file.data) /\ file.safe <= Len(file.data)
    BY <1>1 DEF AoInv, FileInv
  <2>3. /\ Flushed(b) \in Ao(S)
        /\ Flushed(b).persisted = EndPoff(b)
        /\ EndPoff(Flushed(b)) = EndPoff(b)
        /\ FlushedFile(b, file) \in File(S \cup {Junk})
        /\ EndPoff(b) <= Len(FlushedFile(b, file).data)
        /\ Len(file.data) <= Len(FlushedFile(b, file).data)
        /\ FlushedFile(b, file).safe = Least(file.safe, b.persisted)
    BY <1>1, <2>2, FlushedType
  <2>4. Flushed(b).fsync = TRUE
    BY DEF Flushed
  <2>5. Len(FlushedFile(b, file).data) \in Nat
    BY <2>3 DEF File
  <2> HIDE DEF b
  <2> QED BY <1>1, <1>3, <2>1, <2>2, <2>3, <2>4, <2>5 DEF AoInv, FileInv, Least
<1> QED BY <1>2, <1>3 DEF AppendExn

LEMMA AppendFailedInv ==
  ASSUME NEW S, NEW ao \in Ao(S), NEW x \in S, NEW file,
         NEW end \in Nat, NEW safeEnd \in Nat, AoInv(ao, file, end)
  PROVE  /\ AppendFailed(ao, x) \in Ao(S)
         /\ AoInv(AppendFailed(ao, x), file, end)
<1>1. /\ Buffered(ao, x) \in Ao(S) /\ Buffered(ao, x).persisted = ao.persisted
      /\ Buffered(ao, x).fsync = ao.fsync
  BY BufferedType
<1> DEFINE b == Buffered(ao, x)
           f == [b EXCEPT !.full = TRUE]
<1>2. f \in Ao(S) /\ f.persisted = ao.persisted /\ f.fsync = ao.fsync
  <2> HIDE DEF b
  <2> QED BY <1>1 DEF Ao, b
<1> QED BY <1>2 DEF AppendFailed, AoInv

LEMMA FlushStageInv ==
  ASSUME NEW S, NEW ao \in Ao(S), NEW file \in File(S \cup {Junk}),
         NEW end \in Nat, NEW safeEnd \in Nat,
         FileInv(file, end, safeEnd), AoInv(ao, file, end),
         UseFsync \in BOOLEAN
  PROVE  LET r == FlushStage(ao, file)
         IN  /\ r.ao \in Ao(S) /\ r.file \in File(S \cup {Junk})
             /\ FileInv(r.file, end, safeEnd)
             /\ AoInv(r.ao, r.file, end)
             /\ Len(file.data) <= Len(r.file.data)
             /\ EndPoff(r.ao) = EndPoff(ao)
             /\ AoFlushed(r.ao)
<1> DEFINE w == Written(ao, file)
           r == FlushStage(ao, file)
<1>0. /\ ao.persisted \in Nat /\ file.safe \in Nat /\ Len(file.data) \in Nat
      /\ EndPoff(ao) \in Nat /\ ao.persisted <= EndPoff(ao)
  BY AoFields DEF File, Ao, EndPoff
<1>1. /\ w.ao \in Ao(S) /\ w.file \in File(S \cup {Junk})
      /\ w.ao.buf = << >> /\ EndPoff(w.ao) = EndPoff(ao)
      /\ FileInv(w.file, end, safeEnd) /\ AoInv(w.ao, w.file, end)
      /\ Len(file.data) <= Len(w.file.data)
  <2>1. CASE ao.buf = << >>
    BY <2>1, <1>0 DEF Written
  <2>2. CASE ao.buf # << >>
    <3>1. ao.persisted <= Len(file.data) /\ file.safe <= Len(file.data)
      BY DEF AoInv, FileInv
    <3>2. /\ Flushed(ao) \in Ao(S)
          /\ Flushed(ao).persisted = EndPoff(ao)
          /\ EndPoff(Flushed(ao)) = EndPoff(ao)
          /\ FlushedFile(ao, file) \in File(S \cup {Junk})
          /\ EndPoff(ao) <= Len(FlushedFile(ao, file).data)
          /\ Len(file.data) <= Len(FlushedFile(ao, file).data)
          /\ FlushedFile(ao, file).safe = Least(file.safe, ao.persisted)
      BY <3>1, FlushedType
    <3>3. Flushed(ao).fsync = TRUE /\ Flushed(ao).buf = << >>
      BY DEF Flushed
    <3>4. Len(FlushedFile(ao, file).data) \in Nat
      BY <3>2 DEF File
    <3>5. w = [ao |-> Flushed(ao), file |-> FlushedFile(ao, file)]
      BY <2>2 DEF Written
    <3> QED BY <1>0, <3>1, <3>2, <3>3, <3>4, <3>5 DEF AoInv, FileInv, Least
  <2> QED BY <2>1, <2>2
<1> HIDE DEF w
<1>2. CASE ~UseFsync
  <2>1. r = w
    BY <1>2 DEF FlushStage, w
  <2> HIDE DEF r
  <2> QED BY <1>1, <1>2, <2>1 DEF AoFlushed, r
<1>3. CASE UseFsync
  <2> DEFINE a == [w.ao EXCEPT !.fsync = FALSE]
             g == IF w.ao.fsync THEN Fsynced(w.file) ELSE w.file
  <2>1. r = [ao |-> a, file |-> g]
    BY <1>3 DEF FlushStage, w
  <2>2. /\ a \in Ao(S) /\ a.buf = << >> /\ a.persisted = w.ao.persisted
        /\ a.fsync = FALSE /\ EndPoff(a) = EndPoff(w.ao)
    BY <1>1 DEF Ao, EndPoff
  <2>3. /\ w.file.data \in Seq(S \cup {Junk}) /\ w.file.safe \in Nat
        /\ Len(w.file.data) \in Nat /\ w.ao.persisted \in Nat
    BY <1>1 DEF File, Ao
  <2>4. /\ g \in File(S \cup {Junk}) /\ g.data = w.file.data
        /\ w.ao.fsync => g.safe = Len(w.file.data)
        /\ ~w.ao.fsync => g.safe = w.file.safe
    BY <1>1, <2>3 DEF File, Fsynced
  <2> HIDE DEF a, g
  <2>5. FileInv(g, end, safeEnd)
    BY <1>1, <1>3, <2>3, <2>4 DEF FileInv
  <2>6. AoInv(a, g, end)
    BY <1>1, <1>3, <2>2, <2>3, <2>4 DEF AoInv
  <2>7. r.ao = a /\ r.file = g
    BY <2>1
  <2> HIDE DEF r
  <2> QED BY <1>1, <2>2, <2>4, <2>5, <2>6, <2>7 DEF AoFlushed, r
<1> QED BY <1>2, <1>3

\* Once a stage is over, the end of its file can be published.
LEMMA PublishableInv ==
  ASSUME NEW S, NEW ao \in Ao(S), NEW file \in File(S \cup {Junk}),
         NEW end \in Nat, NEW safeEnd \in Nat, FileInv(file, end, safeEnd),
         AoInv(ao, file, end), AoFlushed(ao)
  PROVE  /\ AoInv(ao, file, ao.persisted)
         /\ FileInv(file, ao.persisted, safeEnd)
<1>1. ao.persisted \in Nat /\ file.safe \in Nat /\ Len(file.data) \in Nat
  BY DEF Ao, File
<1> QED BY <1>1 DEF AoInv, FileInv, AoFlushed

LEMMA SurvivingInv ==
  ASSUME NEW S, NEW file \in File(S \cup {Junk}), NEW n \in 0..Len(file.data),
         NEW end \in Nat, NEW safeEnd \in Nat, FileInv(file, end, safeEnd),
         n >= file.safe, UseFsync, NEW e \in {end, safeEnd}
  PROVE  /\ Surviving(file, n) \in File(S \cup {Junk})
         /\ FileInv(Surviving(file, n), e, e)
<1>1. /\ Surviving(file, n) \in File(S \cup {Junk})
      /\ Len(Surviving(file, n).data) = n /\ Surviving(file, n).safe = file.safe
  BY SurvivingType
<1>2. n \in Nat /\ file.safe \in Nat
  BY DEF File
<1> QED BY <1>1, <1>2 DEF FileInv

(***************************************************************************)
(* The inductive invariant: the files cover the control file, what the     *)
(* writer has in memory fits the files, and a stage of a flush leaves      *)
(* behind it an empty buffer and a durable file.                           *)
(***************************************************************************)
FilesInv ==
  /\ FileInv(dictFile, control.dict, controlSafe.dict)
  /\ FileInv(suffixFile, control.suffix, controlSafe.suffix)

WriterInv ==
  /\ AoInv(dict, dictFile, control.dict)
  /\ AoInv(suffix, suffixFile, control.suffix)
  /\ pc \in {"suffix", "control", "controlFsync", "index"} => AoFlushed(dict)
  /\ pc \in {"control", "controlFsync", "index"} => AoFlushed(suffix)

ReaderInv ==
  /\ roPc = "openSuffix" => roPayload.suffix <= Len(suffixFile.data)
  /\ roPc \in {"openSuffix", "openDict", "suffix", "dict"}
       => roPayload.dict <= Len(dictFile.data)

\* A flush the index started belongs to the value being added.
AutoInv == auto => adding \in Hashes

StoreInv ==
  /\ TypeOK
  /\ AutoInv
  /\ FilesInv
  /\ pc # "down" => WriterInv
  /\ ReaderInv

LEMMA InitStoreInv == Init => StoreInv
<1> SUFFICES ASSUME Init PROVE StoreInv
  OBVIOUS
<1> USE ConstantsAssumption DEF Init
<1>1. /\ << >> \in Seq(Strings \cup {Junk}) /\ << >> \in Seq(Entry \cup {Junk})
      /\ << >> \in Seq(Strings) /\ << >> \in Seq(Entry) /\ Len(<< >>) = 0
  OBVIOUS
<1>2. Opened(0) \in Ao(Strings) /\ Opened(0) \in Ao(Entry)
  BY OpenedType
<1>3. TypeOK
  BY <1>1, <1>2 DEF TypeOK, File, Payload, NoPayload, NoIndex
<1>4. FilesInv /\ WriterInv
  BY <1>1 DEF FilesInv, WriterInv, FileInv, AoInv, NoPayload, Opened
<1>5. AutoInv
  BY DEF AutoInv
<1> QED BY <1>3, <1>4, <1>5 DEF StoreInv, ReaderInv

\* What the prover needs of TypeOK about the files and the writer's memory.
LEMMA StoreTypes ==
  ASSUME TypeOK
  PROVE  /\ dictFile \in File(Strings \cup {Junk})
         /\ suffixFile \in File(Entry \cup {Junk})
         /\ dict \in Ao(Strings) /\ suffix \in Ao(Entry)
         /\ control.dict \in Nat /\ control.suffix \in Nat
         /\ controlSafe.dict \in Nat /\ controlSafe.suffix \in Nat
         /\ payload.dict \in Nat /\ payload.suffix \in Nat
         /\ roPayload.dict \in Nat /\ roPayload.suffix \in Nat
         /\ dictFile.data \in Seq(Strings \cup {Junk})
         /\ Len(dictFile.data) \in Nat
         /\ suffixFile.data \in Seq(Entry \cup {Junk})
         /\ Len(suffixFile.data) \in Nat
         /\ dictFile.safe \in Nat /\ suffixFile.safe \in Nat
BY SMTT(30) DEF TypeOK, File, Payload

LEMMA RefillType ==
  ASSUME NEW S, NEW strings \in Seq(S), NEW file, file.data \in Seq(S),
         NEW from \in Nat, NEW to \in Nat, to <= Len(file.data)
  PROVE  Refill(strings, file, from, to) \in Seq(S)
<1>1. SubSeq(file.data, from + 1, to) \in Seq(S)
  OBVIOUS
<1> QED BY <1>1 DEF Refill

LEMMA WriterGoneTypes ==
  ASSUME WriterGone
  PROVE  /\ pc' = "down" /\ auto' \in BOOLEAN /\ controlIo' \in BOOLEAN
         /\ dict' \in Ao(Strings) /\ suffix' \in Ao(Entry)
         /\ dictIndex' \in Seq(Strings \cup {Junk})
         /\ payload' \in Payload /\ index' \in [Indexed -> Nat]
         /\ staging' \subseteq Hashes /\ adding' \in Hashes \cup {NoHash}
<1>1. Opened(0) \in Ao(Strings) /\ Opened(0) \in Ao(Entry)
  BY OpenedType
<1>2. /\ dict' \in Ao(Strings) /\ suffix' \in Ao(Entry)
  BY <1>1 DEF WriterGone
<1>3. pc' = "down" /\ dictIndex' \in Seq(Strings \cup {Junk})
  BY DEF WriterGone
<1>5. auto' \in BOOLEAN /\ controlIo' \in BOOLEAN
  BY Zenon DEF WriterGone
<1>4. /\ payload' \in Payload /\ index' \in [Indexed -> Nat]
      /\ staging' \subseteq Hashes /\ adding' \in Hashes \cup {NoHash}
  BY DEF WriterGone, Payload, NoPayload, NoIndex
<1> QED BY <1>2, <1>3, <1>4, <1>5

LEMMA ReaderGoneTypes ==
  ASSUME ReaderGone
  PROVE  /\ roPc' = "down" /\ roPayload' \in Payload
         /\ roSuffixEnd' \in Nat /\ roDictEnd' \in Nat
         /\ roDictIndex' \in Seq(Strings \cup {Junk})
         /\ roIndex' \in [Indexed -> Nat]
BY DEF ReaderGone, Payload, NoPayload, NoIndex

\* Dict.index returns an id, and may add the string to the dict.
LEMMA DictAddInv ==
  ASSUME TypeOK, FilesInv, WriterInv, NEW s \in Strings, NEW id, DictAdd(s, id)
  PROVE  /\ id \in Nat
         /\ dict' \in Ao(Strings) /\ dictFile' \in File(Strings \cup {Junk})
         /\ dictIndex' \in Seq(Strings \cup {Junk})
         /\ FileInv(dictFile', control.dict, controlSafe.dict)
         /\ AoInv(dict', dictFile', control.dict)
         /\ Len(dictFile.data) <= Len(dictFile'.data)
<1>1. dictIndex \in Seq(Strings \cup {Junk}) /\ Len(dictIndex) \in Nat
  BY DEF TypeOK
<1>2. FileInv(dictFile, control.dict, controlSafe.dict)
      /\ AoInv(dict, dictFile, control.dict)
  BY DEF FilesInv, WriterInv
<1>3. CASE id \in DictIds(s) /\ UNCHANGED <<dict, dictIndex, dictFile>>
  BY <1>1, <1>2, <1>3, StoreTypes DEF DictIds
<1>4. CASE id = 0 /\ UNCHANGED <<dict, dictIndex, dictFile>>
  BY <1>1, <1>2, <1>4, StoreTypes
<1>5. CASE /\ id = Len(dictIndex) + 1
           /\ \E r \in AppendExn(dict, dictFile, s) :
                dict' = r.ao /\ dictFile' = r.file
           /\ dictIndex' = Append(dictIndex, s)
  <2>1. PICK r \in AppendExn(dict, dictFile, s) : dict' = r.ao /\ dictFile' = r.file
    BY <1>5
  <2>2. /\ r.ao \in Ao(Strings) /\ r.file \in File(Strings \cup {Junk})
        /\ FileInv(r.file, control.dict, controlSafe.dict)
        /\ AoInv(r.ao, r.file, control.dict)
        /\ Len(dictFile.data) <= Len(r.file.data)
    BY <1>2, StoreTypes, AppendExnInv
  <2>3. Append(dictIndex, s) \in Seq(Strings \cup {Junk})
    BY <1>1
  <2> QED BY <1>1, <1>5, <2>1, <2>2, <2>3
<1> QED BY <1>3, <1>4, <1>5 DEF DictAdd

\* Files that only grow keep what the reader relies on.
LEMMA ReaderKept ==
  ASSUME TypeOK, ReaderInv, roPc' = roPc, roPayload' = roPayload,
         dictFile' \in File(Strings \cup {Junk}),
         suffixFile' \in File(Entry \cup {Junk}),
         Len(dictFile.data) <= Len(dictFile'.data),
         Len(suffixFile.data) <= Len(suffixFile'.data)
  PROVE  ReaderInv'
<1>1. Len(dictFile'.data) \in Nat /\ Len(suffixFile'.data) \in Nat
  BY DEF File
<1>2. /\ Len(dictFile.data) \in Nat /\ Len(suffixFile.data) \in Nat
      /\ roPayload.dict \in Nat /\ roPayload.suffix \in Nat
  BY StoreTypes
<1> QED BY <1>1, <1>2 DEF ReaderInv

LEMMA AppendValueInv ==
  ASSUME StoreInv, NEW h \in Hashes, AppendValue(h)
  PROVE  StoreInv'
<1> USE DEF StoreInv
<1>1. PICK id \in 0..Len(dictIndex) + 1 :
        /\ DictAdd(StepOf[h], id)
        /\ \E r \in AppendExn(suffix, suffixFile, [hash |-> h, id |-> id]) :
             suffix' = r.ao /\ suffixFile' = r.file
  BY DEF AppendValue
<1>2. PICK r \in AppendExn(suffix, suffixFile, [hash |-> h, id |-> id]) :
        suffix' = r.ao /\ suffixFile' = r.file
  BY <1>1
<1>3. pc = "ready" /\ WriterInv /\ StepOf[h] \in Strings
  BY ConstantsAssumption DEF AppendValue
<1>4. /\ id \in Nat
      /\ dict' \in Ao(Strings) /\ dictFile' \in File(Strings \cup {Junk})
      /\ dictIndex' \in Seq(Strings \cup {Junk})
      /\ FileInv(dictFile', control.dict, controlSafe.dict)
      /\ AoInv(dict', dictFile', control.dict)
      /\ Len(dictFile.data) <= Len(dictFile'.data)
  BY <1>1, <1>3, DictAddInv
<1>5. /\ suffix' \in Ao(Entry) /\ suffixFile' \in File(Entry \cup {Junk})
      /\ FileInv(suffixFile', control.suffix, controlSafe.suffix)
      /\ AoInv(suffix', suffixFile', control.suffix)
      /\ Len(suffixFile.data) <= Len(suffixFile'.data)
  <2>1. [hash |-> h, id |-> id] \in Entry
    BY <1>4 DEF Entry
  <2>2. /\ FileInv(suffixFile, control.suffix, controlSafe.suffix)
        /\ AoInv(suffix, suffixFile, control.suffix)
    BY <1>3 DEF FilesInv, WriterInv
  <2> QED BY <1>2, <2>1, <2>2, StoreTypes, AppendExnInv
<1>6. /\ UNCHANGED <<control, controlSafe, roPc, roPayload>>
      /\ pc' \in {"ready", "dict"}
  BY <1>3 DEF AppendValue, roVars
<1>7. FilesInv' /\ WriterInv'
  BY <1>4, <1>5, <1>6 DEF FilesInv, WriterInv
<1>8. ReaderInv'
  BY <1>4, <1>5, <1>6, ReaderKept
<1>9. index' \in [Indexed -> Nat]
  <2>1. EndPoff(suffix) \in Nat
    BY StoreTypes, AoFields
  <2> QED BY <2>1 DEF AppendValue, TypeOK
<1>10. /\ auto' \in BOOLEAN /\ staging' \subseteq Hashes
       /\ adding' \in Hashes \cup {NoHash}
  BY DEF AppendValue, TypeOK
<1>11. TypeOK'
  BY <1>4, <1>5, <1>6, <1>9, <1>10
  DEF AppendValue, TypeOK, roVars, ackVars, FlushStages
<1>12. AutoInv'
  BY DEF AppendValue, AutoInv
<1> QED BY <1>7, <1>8, <1>11, <1>12

LEMMA AppendFailsInv ==
  ASSUME StoreInv, NEW h \in Hashes, AppendFails(h)
  PROVE  StoreInv'
<1> USE DEF StoreInv
<1>1. pc = "ready" /\ WriterInv /\ StepOf[h] \in Strings
  BY ConstantsAssumption DEF AppendFails
<1>2. /\ FileInv(dictFile, control.dict, controlSafe.dict)
      /\ AoInv(dict, dictFile, control.dict)
      /\ AoInv(suffix, suffixFile, control.suffix)
  BY <1>1 DEF FilesInv, WriterInv
<1>3. /\ dict' \in Ao(Strings) /\ dictFile' \in File(Strings \cup {Junk})
      /\ dictIndex' \in Seq(Strings \cup {Junk}) /\ suffix' \in Ao(Entry)
      /\ FileInv(dictFile', control.dict, controlSafe.dict)
      /\ AoInv(dict', dictFile', control.dict)
      /\ AoInv(suffix', suffixFile, control.suffix)
      /\ Len(dictFile.data) <= Len(dictFile'.data)
  <2>1. CASE /\ dict' = AppendFailed(dict, StepOf[h])
             /\ UNCHANGED <<dictFile, dictIndex, suffix>>
    <3>1. dictIndex \in Seq(Strings \cup {Junk})
      BY DEF TypeOK
    <3>2. /\ dict' \in Ao(Strings)
          /\ AoInv(dict', dictFile, control.dict)
      BY <1>1, <1>2, <2>1, StoreTypes, AppendFailedInv
    <3> QED BY <1>2, <2>1, <3>1, <3>2, StoreTypes
  <2>2. CASE \E id \in 0..Len(dictIndex) + 1 :
               /\ DictAdd(StepOf[h], id)
               /\ suffix' = AppendFailed(suffix, [hash |-> h, id |-> id])
    <3>1. PICK id \in 0..Len(dictIndex) + 1 :
                 /\ DictAdd(StepOf[h], id)
                 /\ suffix' = AppendFailed(suffix, [hash |-> h, id |-> id])
      BY <2>2
    <3>2. /\ id \in Nat
          /\ dict' \in Ao(Strings) /\ dictFile' \in File(Strings \cup {Junk})
          /\ dictIndex' \in Seq(Strings \cup {Junk})
          /\ FileInv(dictFile', control.dict, controlSafe.dict)
          /\ AoInv(dict', dictFile', control.dict)
          /\ Len(dictFile.data) <= Len(dictFile'.data)
      BY <1>1, <3>1, DictAddInv
    <3>3. [hash |-> h, id |-> id] \in Entry
      BY <3>2 DEF Entry
    <3>4. /\ suffix' \in Ao(Entry)
          /\ AoInv(suffix', suffixFile, control.suffix)
      BY <1>2, <3>1, <3>3, StoreTypes, AppendFailedInv
    <3> QED BY <3>2, <3>4
  <2> QED BY <2>1, <2>2 DEF AppendFails
<1>4. UNCHANGED <<suffixFile, control, controlSafe, pc, roPc, roPayload>>
  BY DEF AppendFails, roVars
<1>5. FilesInv' /\ WriterInv'
  BY <1>1, <1>3, <1>4 DEF FilesInv, WriterInv
<1>6. ReaderInv'
  BY <1>3, <1>4, StoreTypes, ReaderKept
<1>7. TypeOK'
  BY <1>3, <1>4 DEF AppendFails, TypeOK, roVars, ackVars
<1>8. AutoInv'
  BY DEF AppendFails, AutoInv
<1> QED BY <1>5, <1>6, <1>7, <1>8

LEMMA FlushDictInv == ASSUME StoreInv, FlushDict PROVE StoreInv'
<1> USE DEF StoreInv
<1>1. pc = "dict" /\ pc' = "suffix" /\ WriterInv
  BY DEF FlushDict
<1>2. /\ FileInv(dictFile, control.dict, controlSafe.dict)
      /\ AoInv(dict, dictFile, control.dict)
  BY <1>1 DEF FilesInv, WriterInv
<1>3. /\ dict' \in Ao(Strings) /\ dictFile' \in File(Strings \cup {Junk})
      /\ FileInv(dictFile', control.dict, controlSafe.dict)
      /\ AoInv(dict', dictFile', control.dict)
      /\ Len(dictFile.data) <= Len(dictFile'.data)
      /\ AoFlushed(dict')
  BY <1>2, StoreTypes, FlushStageInv, ConstantsAssumption DEF FlushDict
<1>4. UNCHANGED <<suffixFile, suffix, control, controlSafe, roPc, roPayload>>
  BY DEF FlushDict, roVars
<1>5. FilesInv' /\ WriterInv'
  BY <1>1, <1>3, <1>4 DEF FilesInv, WriterInv
<1>6. ReaderInv'
  BY <1>3, <1>4, StoreTypes, ReaderKept
<1>7. TypeOK'
  BY <1>1, <1>3, <1>4 DEF FlushDict, TypeOK, roVars, ackVars, FlushStages
<1>8. AutoInv'
  BY DEF FlushDict, AutoInv
<1> QED BY <1>5, <1>6, <1>7, <1>8

LEMMA FlushSuffixInv == ASSUME StoreInv, FlushSuffix PROVE StoreInv'
<1> USE DEF StoreInv
<1>1. pc = "suffix" /\ pc' = "control" /\ WriterInv /\ AoFlushed(dict)
  BY DEF FlushSuffix, WriterInv
<1>2. /\ FileInv(suffixFile, control.suffix, controlSafe.suffix)
      /\ AoInv(suffix, suffixFile, control.suffix)
  BY <1>1 DEF FilesInv, WriterInv
<1>3. /\ suffix' \in Ao(Entry) /\ suffixFile' \in File(Entry \cup {Junk})
      /\ FileInv(suffixFile', control.suffix, controlSafe.suffix)
      /\ AoInv(suffix', suffixFile', control.suffix)
      /\ Len(suffixFile.data) <= Len(suffixFile'.data)
      /\ AoFlushed(suffix')
  BY <1>2, StoreTypes, FlushStageInv, ConstantsAssumption DEF FlushSuffix
<1>4. UNCHANGED <<dictFile, dict, control, controlSafe, roPc, roPayload>>
  BY DEF FlushSuffix, roVars
<1>5. FilesInv' /\ WriterInv'
  BY <1>1, <1>3, <1>4 DEF FilesInv, WriterInv
<1>6. ReaderInv'
  BY <1>3, <1>4, StoreTypes, ReaderKept
<1>7. TypeOK'
  BY <1>1, <1>3, <1>4 DEF FlushSuffix, TypeOK, roVars, ackVars, FlushStages
<1>8. AutoInv'
  BY DEF FlushSuffix, AutoInv
<1> QED BY <1>5, <1>6, <1>7, <1>8

LEMMA FlushControlInv == ASSUME StoreInv, FlushControl PROVE StoreInv'
<1> USE DEF StoreInv
<1>1. /\ pc = "control" /\ WriterInv /\ AoFlushed(dict) /\ AoFlushed(suffix)
      /\ pc' \in {"controlFsync", "index"}
  BY DEF FlushControl, WriterInv
<1>2. /\ NewPayload.dict = dict.persisted /\ NewPayload.suffix = suffix.persisted
      /\ NewPayload \in Payload
  <2>1. /\ dict.persisted \in Nat /\ suffix.persisted \in Nat
        /\ dict.buf = << >> /\ suffix.buf = << >>
    BY <1>1, StoreTypes, AoFields DEF AoFlushed
  <2>2. EndPoff(dict) = dict.persisted /\ EndPoff(suffix) = suffix.persisted
    BY <2>1 DEF EndPoff
  <2> QED BY <2>1, <2>2 DEF NewPayload, Payload
<1>3. UNCHANGED <<dictFile, suffixFile, dict, suffix, controlSafe, roPc, roPayload>>
  BY DEF FlushControl, roVars
<1>4. control' = control \/ control' = NewPayload
  BY DEF FlushControl
<1>5. FilesInv' /\ WriterInv'
  <2>1. CASE control' = control
    BY <1>1, <1>3, <2>1 DEF FilesInv, WriterInv
  <2>2. CASE control' = NewPayload
    <3>1. /\ AoInv(dict, dictFile, control.dict)
          /\ FileInv(dictFile, control.dict, controlSafe.dict)
          /\ AoInv(suffix, suffixFile, control.suffix)
          /\ FileInv(suffixFile, control.suffix, controlSafe.suffix)
      BY <1>1 DEF WriterInv, FilesInv
    <3>2. /\ AoInv(dict, dictFile, dict.persisted)
          /\ FileInv(dictFile, dict.persisted, controlSafe.dict)
      BY <1>1, <3>1, StoreTypes, PublishableInv
    <3>3. /\ AoInv(suffix, suffixFile, suffix.persisted)
          /\ FileInv(suffixFile, suffix.persisted, controlSafe.suffix)
      BY <1>1, <3>1, StoreTypes, PublishableInv
    <3> QED BY <1>1, <1>2, <1>3, <2>2, <3>2, <3>3 DEF FilesInv, WriterInv
  <2> QED BY <1>4, <2>1, <2>2
<1>6. ReaderInv'
  BY <1>3 DEF ReaderInv
<1>7. control' \in Payload /\ payload' \in Payload /\ staging' \subseteq Hashes
  BY <1>2 DEF FlushControl, TypeOK
<1>8. TypeOK'
  BY <1>1, <1>3, <1>7 DEF FlushControl, TypeOK, roVars, ackVars, FlushStages
<1>9. AutoInv'
  BY DEF FlushControl, AutoInv
<1> QED BY <1>5, <1>6, <1>8, <1>9

\* A step of the flush that moves no file and no append-only file.
LEMMA FlushEndsInv ==
  ASSUME StoreInv, StartFlush \/ FsyncControl \/ FlushIndex \/ FlushFails
  PROVE  StoreInv'
<1> USE DEF StoreInv
<1>1. CASE StartFlush
  <2>1. WriterInv /\ pc' = "dict"
    BY <1>1 DEF StartFlush
  <2>2. FilesInv' /\ WriterInv' /\ ReaderInv'
    BY <1>1, <2>1 DEF StartFlush, FilesInv, WriterInv, ReaderInv, fileVars, roVars
  <2>3. TypeOK'
    BY <1>1 DEF StartFlush, TypeOK, fileVars, roVars, ackVars, FlushStages
  <2>4. AutoInv'
    BY <1>1 DEF StartFlush, AutoInv
  <2> QED BY <2>2, <2>3, <2>4
<1>2. CASE FsyncControl
  <2>1. /\ WriterInv /\ pc = "controlFsync" /\ pc' = "index"
        /\ controlSafe' = control
    BY <1>2 DEF FsyncControl
  <2>2. /\ UNCHANGED <<dictFile, suffixFile, control, dict, suffix>>
        /\ UNCHANGED <<roPc, roPayload>>
    BY <1>2 DEF FsyncControl, roVars
  <2>3. FilesInv'
    BY SMTT(30), <2>1, <2>2, StoreTypes DEF FilesInv, FileInv
  <2>4. WriterInv'
    BY <2>1, <2>2 DEF WriterInv, AoInv
  <2>5. ReaderInv'
    BY <2>2 DEF ReaderInv
  <2>6. TypeOK'
    BY <1>2 DEF FsyncControl, TypeOK, roVars, ackVars, FlushStages
  <2>7. AutoInv'
    BY <1>2 DEF FsyncControl, AutoInv
  <2> QED BY <2>3, <2>4, <2>5, <2>6, <2>7
<1>3. CASE FlushIndex
  <2>1. WriterInv /\ pc = "index" /\ pc' = "ready"
    BY <1>3 DEF FlushIndex
  <2>2. FilesInv' /\ WriterInv' /\ ReaderInv'
    BY <1>3, <2>1 DEF FlushIndex, FilesInv, WriterInv, ReaderInv, roVars
  <2>3. indexFile' \in [Indexed -> Nat] /\ indexSafe' \in [Indexed -> Nat]
    BY <1>3 DEF FlushIndex, TypeOK
  <2>4. /\ acked' \in Nat /\ ackedIndex' \subseteq Indexed
        /\ staging' \subseteq Hashes
    <3>1. EndPoff(suffix) \in Nat
      BY StoreTypes, AoFields
    <3>2. CASE auto
      <4>1. adding \in Hashes
        BY <3>2 DEF AutoInv
      <4> QED BY <1>3, <3>2, <4>1 DEF FlushIndex, TypeOK, ackVars
    <3>3. CASE ~auto
      BY <1>3, <3>1, <3>3 DEF FlushIndex, TypeOK
    <3> QED BY <3>2, <3>3
  <2>5. auto' \in BOOLEAN /\ adding' \in Hashes \cup {NoHash}
    BY <1>3, Zenon DEF FlushIndex
  <2>6. TypeOK'
    BY <1>3, <2>3, <2>4, <2>5 DEF FlushIndex, TypeOK, roVars
  <2>7. AutoInv'
    BY <1>3 DEF FlushIndex, AutoInv
  <2> QED BY <2>2, <2>6, <2>7
<1>4. CASE FlushFails
  <2>1. WriterInv /\ pc # "down" /\ pc' = "ready"
    BY <1>4 DEF FlushFails, FlushStages
  <2>2. FilesInv' /\ WriterInv' /\ ReaderInv'
    BY <1>4, <2>1
    DEF FlushFails, FilesInv, WriterInv, ReaderInv, fileVars, roVars
  <2>3. controlIo' \in BOOLEAN
    BY <1>4 DEF FlushFails, TypeOK
  <2>4. TypeOK'
    BY <1>4, <2>3 DEF FlushFails, TypeOK, fileVars, roVars, ackVars
  <2>5. AutoInv'
    BY <1>4 DEF FlushFails, AutoInv
  <2> QED BY <2>2, <2>4, <2>5
<1> QED BY <1>1, <1>2, <1>3, <1>4

LEMMA FsyncFailsInv == ASSUME StoreInv, FsyncFails PROVE StoreInv'
<1> USE DEF StoreInv
<1>1. WriterInv /\ pc' = "ready"
  BY DEF FsyncFails
<1>2. UNCHANGED <<control, controlSafe, roPc, roPayload>>
  BY DEF FsyncFails, roVars
<1>3. /\ FileInv(dictFile, control.dict, controlSafe.dict)
      /\ AoInv(dict, dictFile, control.dict)
      /\ FileInv(suffixFile, control.suffix, controlSafe.suffix)
      /\ AoInv(suffix, suffixFile, control.suffix)
  BY <1>1 DEF WriterInv, FilesInv
<1>4. /\ dict' \in Ao(Strings) /\ dictFile' \in File(Strings \cup {Junk})
      /\ suffix' \in Ao(Entry) /\ suffixFile' \in File(Entry \cup {Junk})
      /\ FilesInv' /\ WriterInv'
      /\ Len(dictFile.data) <= Len(dictFile'.data)
      /\ Len(suffixFile.data) <= Len(suffixFile'.data)
  <2>1. CASE /\ dict' = Flushed(dict) /\ dictFile' = FlushedFile(dict, dictFile)
             /\ UNCHANGED <<suffix, suffixFile>>
    <3>1. /\ dict' \in Ao(Strings) /\ dictFile' \in File(Strings \cup {Junk})
          /\ FileInv(dictFile', control.dict, controlSafe.dict)
          /\ AoInv(dict', dictFile', control.dict)
          /\ Len(dictFile.data) <= Len(dictFile'.data)
      BY <1>3, <2>1, StoreTypes, WrittenOutInv
    <3> QED BY <1>1, <1>2, <1>3, <2>1, <3>1, StoreTypes DEF FilesInv, WriterInv
  <2>2. CASE /\ suffix' = Flushed(suffix)
             /\ suffixFile' = FlushedFile(suffix, suffixFile)
             /\ UNCHANGED <<dict, dictFile>>
    <3>1. /\ suffix' \in Ao(Entry) /\ suffixFile' \in File(Entry \cup {Junk})
          /\ FileInv(suffixFile', control.suffix, controlSafe.suffix)
          /\ AoInv(suffix', suffixFile', control.suffix)
          /\ Len(suffixFile.data) <= Len(suffixFile'.data)
      BY <1>3, <2>2, StoreTypes, WrittenOutInv
    <3> QED BY <1>1, <1>2, <1>3, <2>2, <3>1, StoreTypes DEF FilesInv, WriterInv
  <2> QED BY <2>1, <2>2 DEF FsyncFails
<1>5. ReaderInv'
  BY <1>2, <1>4, ReaderKept
<1>6. auto' \in BOOLEAN /\ AutoInv'
  BY Zenon DEF FsyncFails, AutoInv
<1>7. adding' \in Hashes \cup {NoHash}
  BY DEF FsyncFails
<1>8. TypeOK'
  BY <1>1, <1>2, <1>4, <1>6, <1>7 DEF FsyncFails, TypeOK, roVars, ackVars
<1> QED BY <1>4, <1>5, <1>6, <1>8

LEMMA CloseCrashInv == ASSUME StoreInv, CloseRw \/ CrashRw PROVE StoreInv'
<1> USE DEF StoreInv
<1>1. WriterGone
  BY DEF CloseRw, CrashRw
<1>2. UNCHANGED <<dictFile, suffixFile, control, controlSafe, roVars, ackVars>>
  BY DEF CloseRw, CrashRw, fileVars
<1>3. indexFile' \in [Indexed -> Nat] /\ indexSafe' \in [Indexed -> Nat]
  BY DEF CloseRw, CrashRw, fileVars, TypeOK
<1>4. crashes' \in Nat
  BY DEF CloseRw, CrashRw, TypeOK
<1>5. TypeOK'
  BY <1>1, <1>2, <1>3, <1>4, WriterGoneTypes DEF TypeOK, roVars, ackVars
<1>6. FilesInv' /\ ReaderInv'
  BY <1>2 DEF FilesInv, ReaderInv, roVars
<1>7. AutoInv' /\ pc' = "down"
  BY <1>1 DEF WriterGone, AutoInv
<1> QED BY <1>5, <1>6, <1>7

LEMMA OpenRwInv == ASSUME StoreInv, OpenRw PROVE StoreInv'
<1> USE DEF StoreInv
<1>1. /\ UNCHANGED fileVars /\ UNCHANGED roVars /\ pc' = "ready"
      /\ suffix' = Opened(control.suffix) /\ dict' = Opened(control.dict)
      /\ payload' = control /\ index' = indexFile
      /\ UNCHANGED <<auto, adding>>
  BY DEF OpenRw
<1>2. dict' \in Ao(Strings) /\ suffix' \in Ao(Entry)
  BY <1>1, OpenedType, StoreTypes
<1>3. dictIndex' \in Seq(Strings \cup {Junk})
  <2>1. control.dict <= Len(dictFile.data)
    BY DEF OpenRw, Consistent
  <2>2. << >> \in Seq(Strings \cup {Junk}) /\ 0 \in Nat
    OBVIOUS
  <2>3. dictIndex' = Refill(<< >>, dictFile, 0, control.dict)
    BY DEF OpenRw
  <2> QED BY <2>1, <2>2, <2>3, StoreTypes, RefillType
<1>4. TypeOK'
  BY <1>1, <1>2, <1>3 DEF OpenRw, TypeOK, fileVars, roVars, ackVars
<1>5. FilesInv' /\ ReaderInv' /\ AutoInv'
  BY <1>1 DEF FilesInv, ReaderInv, AutoInv, fileVars, roVars
<1>6. WriterInv'
  <2>1. /\ dict'.persisted = control.dict /\ suffix'.persisted = control.suffix
        /\ UNCHANGED <<dictFile, suffixFile, control, controlSafe>>
    BY <1>1 DEF Opened, fileVars
  <2>2. /\ AoInv(dict', dictFile, control.dict)
        /\ AoInv(suffix', suffixFile, control.suffix)
    BY <2>1, StoreTypes DEF AoInv, FilesInv, FileInv
  <2> QED BY <1>1, <2>1, <2>2 DEF WriterInv
<1> QED BY <1>1, <1>4, <1>5, <1>6

LEMMA PowerFailureInv == ASSUME StoreInv, PowerFailure PROVE StoreInv'
<1> USE DEF StoreInv
<1>1. WriterGone /\ ReaderGone /\ UseFsync
  BY ConstantsAssumption DEF PowerFailure
<1>2. PICK n \in 0..Len(dictFile.data) :
        n >= dictFile.safe /\ dictFile' = Surviving(dictFile, n)
  BY DEF PowerFailure
<1>3. PICK k \in 0..Len(suffixFile.data) :
        k >= suffixFile.safe /\ suffixFile' = Surviving(suffixFile, k)
  BY DEF PowerFailure
<1>4. control' \in {control, controlSafe} /\ controlSafe' = control'
  BY DEF PowerFailure
<1>5. /\ dictFile' \in File(Strings \cup {Junk})
      /\ FileInv(dictFile', control'.dict, control'.dict)
  <2>1. control'.dict \in {control.dict, controlSafe.dict}
    BY <1>4
  <2> QED BY <1>1, <1>2, <2>1, StoreTypes, SurvivingInv DEF FilesInv
<1>6. /\ suffixFile' \in File(Entry \cup {Junk})
      /\ FileInv(suffixFile', control'.suffix, control'.suffix)
  <2>1. control'.suffix \in {control.suffix, controlSafe.suffix}
    BY <1>4
  <2> QED BY <1>1, <1>3, <2>1, StoreTypes, SurvivingInv DEF FilesInv
<1>7. indexFile' \in [Indexed -> Nat] /\ indexSafe' \in [Indexed -> Nat]
  <2>1. indexSafe' = indexFile'
    BY DEF PowerFailure
  <2>2. /\ indexFile \in [Indexed -> Nat] /\ indexSafe \in [Indexed -> Nat]
    BY DEF TypeOK
  <2>3. /\ indexFile' \in [Indexed -> {indexFile[h] : h \in Indexed}
                                       \cup {indexSafe[h] : h \in Indexed}]
    BY DEF PowerFailure
  <2> QED BY <2>1, <2>2, <2>3
<1>8. control' \in Payload /\ controlSafe' \in Payload
  BY <1>4 DEF TypeOK
<1>9. crashes' \in Nat /\ UNCHANGED ackVars
  BY DEF PowerFailure, TypeOK
<1>10. TypeOK'
  BY <1>1, <1>5, <1>6, <1>7, <1>8, <1>9, WriterGoneTypes, ReaderGoneTypes
  DEF TypeOK, ackVars
<1>11. FilesInv'
  BY <1>4, <1>5, <1>6 DEF FilesInv
<1>12. AutoInv' /\ ReaderInv' /\ pc' = "down"
  BY <1>1 DEF WriterGone, ReaderGone, AutoInv, ReaderInv
<1> QED BY <1>10, <1>11, <1>12

LEMMA ReaderStepInv == ASSUME StoreInv, ReaderNext PROVE StoreInv'
<1> USE DEF StoreInv
<1>1. UNCHANGED <<fileVars, rwVars, ackVars, crashes>>
  BY DEF ReaderNext, RoOpenControl, RoOpenSuffix, RoOpenDict, RoOpenIndex,
         RoReloadIndex, RoReloadControl, RoReloadSuffix, RoReloadDict, RoClose
<1>2. FilesInv' /\ AutoInv' /\ (pc' # "down" => WriterInv')
  BY <1>1 DEF fileVars, rwVars, FilesInv, AutoInv, WriterInv
<1>3. /\ control.dict <= Len(dictFile.data)
      /\ control.suffix <= Len(suffixFile.data)
  BY DEF FilesInv, FileInv
<1>4. /\ roPc' \in {"down"} \cup RoAtRest \cup RoStages /\ roPayload' \in Payload
      /\ roSuffixEnd' \in Nat /\ roDictEnd' \in Nat
      /\ roDictIndex' \in Seq(Strings \cup {Junk})
      /\ roIndex' \in [Indexed -> Nat]
      /\ ReaderInv'
  <2> USE DEF RoAtRest, RoStages
  <2>0. /\ roPc \in {"down"} \cup RoAtRest \cup RoStages /\ roPayload \in Payload
        /\ roSuffixEnd \in Nat /\ roDictEnd \in Nat
        /\ roDictIndex \in Seq(Strings \cup {Junk})
        /\ roIndex \in [Indexed -> Nat] /\ indexFile \in [Indexed -> Nat]
        /\ control \in Payload
    BY DEF TypeOK
  <2>1. CASE RoOpenControl
    BY <1>1, <1>3, <2>0, <2>1 DEF RoOpenControl, ReaderInv, fileVars
  <2>2. CASE RoOpenSuffix
    BY <1>1, <2>0, <2>2, StoreTypes DEF RoOpenSuffix, ReaderInv, fileVars
  <2>3. CASE RoOpenDict
    <3>1. roPayload.dict <= Len(dictFile.data)
      BY <2>3 DEF RoOpenDict, ReaderInv
    <3>2. << >> \in Seq(Strings \cup {Junk}) /\ 0 \in Nat
      OBVIOUS
    <3>3. Refill(<< >>, dictFile, 0, roPayload.dict) \in Seq(Strings \cup {Junk})
      BY <3>1, <3>2, StoreTypes, RefillType
    <3> QED BY <1>1, <2>0, <2>3, <3>3, StoreTypes
            DEF RoOpenDict, ReaderInv, fileVars
  <2>4. CASE RoOpenIndex
    BY <1>1, <2>0, <2>4 DEF RoOpenIndex, ReaderInv, fileVars
  <2>5. CASE RoReloadIndex
    BY <1>1, <2>0, <2>5 DEF RoReloadIndex, ReaderInv, fileVars
  <2>6. CASE RoReloadControl
    BY <1>1, <1>3, <2>0, <2>6 DEF RoReloadControl, ReaderInv, fileVars
  <2>7. CASE RoReloadSuffix
    BY <1>1, <2>0, <2>7, StoreTypes DEF RoReloadSuffix, ReaderInv, fileVars
  <2>8. CASE RoReloadDict
    <3>1. roPayload.dict <= Len(dictFile.data)
      BY <2>8 DEF RoReloadDict, ReaderInv
    <3>2. Refill(roDictIndex, dictFile, roDictEnd, roPayload.dict)
            \in Seq(Strings \cup {Junk})
      BY <2>0, <3>1, StoreTypes, RefillType
    <3> QED BY <1>1, <2>0, <2>8, <3>2, StoreTypes
            DEF RoReloadDict, ReaderInv, fileVars
  <2>9. CASE RoClose
    BY <2>9, ReaderGoneTypes DEF RoClose, ReaderGone, ReaderInv
  <2> QED BY <2>1, <2>2, <2>3, <2>4, <2>5, <2>6, <2>7, <2>8, <2>9 DEF ReaderNext
<1>5. TypeOK'
  BY <1>1, <1>4 DEF TypeOK, fileVars, rwVars, ackVars
<1> QED BY <1>2, <1>4, <1>5

LEMMA NextStoreInv == StoreInv /\ [Next]_vars => StoreInv'
<1> SUFFICES ASSUME StoreInv, [Next]_vars PROVE StoreInv'
  OBVIOUS
<1>1. CASE WriterNext
  <2>1. ASSUME NEW h \in Hashes, AppendValue(h) \/ AppendFails(h) PROVE StoreInv'
    BY <2>1, AppendValueInv, AppendFailsInv
  <2> QED BY <1>1, <2>1, FlushDictInv, FlushSuffixInv, FlushControlInv,
             FlushEndsInv, FsyncFailsInv, CloseCrashInv, OpenRwInv
          DEF WriterNext
<1>2. CASE ReaderNext
  BY <1>2, ReaderStepInv
<1>3. CASE PowerFailure
  BY <1>3, PowerFailureInv
<1>4. CASE UNCHANGED vars
  BY <1>4 DEF StoreInv, TypeOK, AutoInv, FilesInv, WriterInv, ReaderInv, vars,
              fileVars, rwVars, roVars, ackVars
<1> QED BY <1>1, <1>2, <1>3, <1>4 DEF Next

(* Whatever fails and whenever a process or the machine stops, the control   *)
(* file, and the payload a reader opens the store with, stay within the      *)
(* files, and every variable keeps its type.                                 *)
THEOREM StoreCorrect == Spec => [](TypeOK /\ ConsistentStore)
<1>1. Spec => []StoreInv
  BY InitStoreInv, NextStoreInv, PTL DEF Spec
<1>2. StoreInv => TypeOK /\ ConsistentStore
  BY DEF StoreInv, FilesInv, FileInv, ReaderInv, ConsistentStore, Consistent
<1> QED BY <1>1, <1>2, PTL
-----------------------------------------------------------------------------
(***************************************************************************)
(* What the bytes of FlushReload do not lose: a dict id keeps its meaning   *)
(* through every fault, and a store on a machine that keeps its power is    *)
(* the log of AppendOnlyLog.                                                *)
(***************************************************************************)

\* The first end units of a file are the same before and after.
Kept(file, newFile, end) ==
  /\ end <= Len(file.data) /\ end <= Len(newFile.data)
  /\ \A i \in 1..end : newFile.data[i] = file.data[i]

(***************************************************************************)
(* The operators.                                                           *)
(***************************************************************************)
LEMMA FlushedKeeps ==
  ASSUME NEW S, NEW ao \in Ao(S), NEW file \in File(S \cup {Junk}),
         NEW end \in Nat, AoInv(ao, file, end)
  PROVE  Kept(file, FlushedFile(ao, file), end)
<1> DEFINE d == file.data
           p == ao.persisted
           b == ao.buf
           w == FlushedFile(ao, file)
<1>1. /\ d \in Seq(S \cup {Junk}) /\ p \in Nat /\ b \in Seq(S)
      /\ p <= Len(d) /\ end <= p
  BY AoFields DEF File, AoInv
<1>2. w.data = Overwrite(d, p, b)
  BY DEF FlushedFile, WriteAt
<1> HIDE DEF d, p, b, w
<1>3. Overwrite(d, p, b) \in Seq(S \cup {Junk})
      /\ Len(Overwrite(d, p, b)) = Greatest(Len(d), p + Len(b))
  BY ONLY <1>1, OverwriteType
<1>4. Len(d) \in Nat /\ Len(b) \in Nat
  BY <1>1
<1>5. end <= Len(d) /\ end <= Len(w.data)
  BY <1>1, <1>2, <1>3, <1>4 DEF Greatest
<1>6. ASSUME NEW i \in 1..end PROVE w.data[i] = d[i]
  <2>1. i \in 1..Len(d) /\ i <= p
    BY <1>1, <1>4
  <2> QED BY ONLY <1>1, <1>2, <2>1, OverwriteKeeps
<1> QED BY <1>5, <1>6 DEF Kept, d, w

LEMMA NothingKeeps ==
  ASSUME NEW file, NEW end \in Nat, end <= Len(file.data)
  PROVE  Kept(file, file, end)
BY DEF Kept

LEMMA AppendKeeps ==
  ASSUME NEW S, NEW ao \in Ao(S), NEW file \in File(S \cup {Junk}), NEW x \in S,
         NEW end \in Nat, AoInv(ao, file, end), NEW r \in AppendExn(ao, file, x)
  PROVE  Kept(file, r.file, end)
<1> DEFINE b == Buffered(ao, x)
<1>1. b \in Ao(S) /\ b.persisted = ao.persisted /\ b.fsync = ao.fsync
  BY BufferedType
<1>2. AoInv(b, file, end)
  BY <1>1 DEF AoInv
<1>3. r.file = file \/ r.file = FlushedFile(b, file)
  BY DEF AppendExn
<1>4. end <= Len(file.data)
  BY AoFields DEF AoInv, File
<1> HIDE DEF b
<1>5. Kept(file, FlushedFile(b, file), end)
  BY <1>1, <1>2, FlushedKeeps
<1> QED BY <1>3, <1>4, <1>5, NothingKeeps

LEMMA StageKeeps ==
  ASSUME NEW S, NEW ao \in Ao(S), NEW file \in File(S \cup {Junk}),
         NEW end \in Nat, AoInv(ao, file, end)
  PROVE  Kept(file, FlushStage(ao, file).file, end)
<1>1. end <= Len(file.data)
  BY AoFields DEF AoInv, File
<1>2. Kept(file, FlushedFile(ao, file), end) /\ Kept(file, file, end)
  BY <1>1, FlushedKeeps, NothingKeeps
<1>3. Kept(file, Written(ao, file).file, end)
  BY <1>2 DEF Written
<1> DEFINE w == Written(ao, file)
<1>4. FlushStage(ao, file).file.data = w.file.data
  BY DEF FlushStage, Fsynced
<1> QED BY <1>3, <1>4 DEF Kept

\* What a power failure leaves has the durable part of the file.
LEMMA SurvivingKeeps ==
  ASSUME NEW S, NEW file \in File(S \cup {Junk}), NEW n \in 0..Len(file.data),
         NEW end \in Nat, n >= file.safe, end <= file.safe
  PROVE  Kept(file, Surviving(file, n), end)
<1>1. n \in Nat /\ file.safe \in Nat /\ Len(file.data) \in Nat
  BY DEF File
<1>2. Len(Surviving(file, n).data) = n
  BY SurvivingType
<1>3. \A i \in 1..n : i <= file.safe => Surviving(file, n).data[i] = file.data[i]
  BY DEF Surviving
<1> QED BY <1>1, <1>2, <1>3 DEF Kept

(***************************************************************************)
(* No step of the system touches what is published.                         *)
(***************************************************************************)
PublishedKept ==
  /\ Kept(dictFile, dictFile', control.dict)
  /\ Kept(suffixFile, suffixFile', control.suffix)

LEMMA SameFilesKept ==
  ASSUME StoreInv, UNCHANGED <<dictFile, suffixFile>>
  PROVE  PublishedKept
<1>1. /\ control.dict <= Len(dictFile.data)
      /\ control.suffix <= Len(suffixFile.data)
  BY DEF StoreInv, FilesInv, FileInv
<1> QED BY <1>1, StoreTypes, NothingKeeps DEF PublishedKept, StoreInv

LEMMA DictAddKeeps ==
  ASSUME TypeOK, WriterInv, FilesInv, NEW s \in Strings, NEW id, DictAdd(s, id)
  PROVE  Kept(dictFile, dictFile', control.dict)
<1>1. AoInv(dict, dictFile, control.dict) /\ control.dict <= Len(dictFile.data)
  BY DEF WriterInv, FilesInv, FileInv
<1>2. CASE UNCHANGED dictFile
  BY <1>1, <1>2, StoreTypes, NothingKeeps
<1>3. CASE \E r \in AppendExn(dict, dictFile, s) : dictFile' = r.file
  BY <1>1, <1>3, StoreTypes, AppendKeeps
<1> QED BY <1>2, <1>3 DEF DictAdd

LEMMA StepKeeps == ASSUME StoreInv, [Next]_vars PROVE PublishedKept
<1> USE DEF StoreInv
<1>0. /\ control.dict <= Len(dictFile.data)
      /\ control.suffix <= Len(suffixFile.data)
      /\ Kept(dictFile, dictFile, control.dict)
      /\ Kept(suffixFile, suffixFile, control.suffix)
  BY StoreTypes, NothingKeeps DEF FilesInv, FileInv
<1>1. ASSUME NEW h \in Hashes, AppendValue(h) PROVE PublishedKept
  <2>1. PICK id \in 0..Len(dictIndex) + 1 :
          /\ DictAdd(StepOf[h], id)
          /\ \E r \in AppendExn(suffix, suffixFile, [hash |-> h, id |-> id]) :
               suffix' = r.ao /\ suffixFile' = r.file
    BY <1>1 DEF AppendValue
  <2>2. WriterInv /\ StepOf[h] \in Strings
    BY <1>1, ConstantsAssumption DEF AppendValue
  <2>3. Kept(dictFile, dictFile', control.dict) /\ id \in Nat
    BY <2>1, <2>2, DictAddKeeps, DictAddInv
  <2>4. [hash |-> h, id |-> id] \in Entry /\ AoInv(suffix, suffixFile, control.suffix)
    BY <2>2, <2>3 DEF Entry, WriterInv
  <2> QED BY <2>1, <2>3, <2>4, StoreTypes, AppendKeeps DEF PublishedKept
<1>2. ASSUME NEW h \in Hashes, AppendFails(h) PROVE PublishedKept
  <2>1. /\ WriterInv /\ StepOf[h] \in Strings /\ UNCHANGED suffixFile
        /\ \/ UNCHANGED dictFile
           \/ \E id \in 0..Len(dictIndex) + 1 : DictAdd(StepOf[h], id)
    BY <1>2, ConstantsAssumption DEF AppendFails
  <2>2. Kept(dictFile, dictFile', control.dict)
    BY <1>0, <2>1, DictAddKeeps
  <2> QED BY <1>0, <2>1, <2>2 DEF PublishedKept
<1>3. CASE FlushDict
  <2>1. /\ dictFile' = FlushStage(dict, dictFile).file /\ UNCHANGED suffixFile
        /\ AoInv(dict, dictFile, control.dict)
    BY <1>3 DEF FlushDict, WriterInv
  <2> QED BY <1>0, <2>1, StoreTypes, StageKeeps DEF PublishedKept
<1>4. CASE FlushSuffix
  <2>1. /\ suffixFile' = FlushStage(suffix, suffixFile).file /\ UNCHANGED dictFile
        /\ AoInv(suffix, suffixFile, control.suffix)
    BY <1>4 DEF FlushSuffix, WriterInv
  <2> QED BY <1>0, <2>1, StoreTypes, StageKeeps DEF PublishedKept
<1>5. CASE FsyncFails
  <2>1. /\ AoInv(dict, dictFile, control.dict)
        /\ AoInv(suffix, suffixFile, control.suffix)
        /\ \/ dictFile' = FlushedFile(dict, dictFile) /\ UNCHANGED suffixFile
           \/ suffixFile' = FlushedFile(suffix, suffixFile) /\ UNCHANGED dictFile
    BY <1>5 DEF FsyncFails, WriterInv
  <2> QED BY <1>0, <2>1, StoreTypes, FlushedKeeps DEF PublishedKept
<1>6. CASE PowerFailure
  <2>1. /\ UseFsync
        /\ control.dict <= dictFile.safe /\ control.suffix <= suffixFile.safe
    BY <1>6, ConstantsAssumption DEF PowerFailure, FilesInv, FileInv
  <2>2. PICK n \in 0..Len(dictFile.data) :
          n >= dictFile.safe /\ dictFile' = Surviving(dictFile, n)
    BY <1>6 DEF PowerFailure
  <2>3. PICK k \in 0..Len(suffixFile.data) :
          k >= suffixFile.safe /\ suffixFile' = Surviving(suffixFile, k)
    BY <1>6 DEF PowerFailure
  <2>4. Kept(dictFile, dictFile', control.dict)
    BY <2>1, <2>2, StoreTypes, SurvivingKeeps
  <2>5. Kept(suffixFile, suffixFile', control.suffix)
    BY <2>1, <2>3, StoreTypes, SurvivingKeeps
  <2> QED BY <2>4, <2>5 DEF PublishedKept
<1>7. CASE \/ StartFlush \/ FlushControl \/ FsyncControl \/ FlushIndex
           \/ FlushFails \/ CloseRw \/ CrashRw \/ OpenRw
  BY <1>7, SameFilesKept
  DEF StartFlush, FlushControl, FsyncControl, FlushIndex, FlushFails, CloseRw,
      CrashRw, OpenRw, fileVars
<1>8. CASE ReaderNext \/ UNCHANGED vars
  BY <1>8, SameFilesKept
  DEF ReaderNext, RoOpenControl, RoOpenSuffix, RoOpenDict, RoOpenIndex,
      RoReloadIndex, RoReloadControl, RoReloadSuffix, RoReloadDict, RoClose,
      vars, fileVars
<1> QED BY <1>1, <1>2, <1>3, <1>4, <1>5, <1>6, <1>7, <1>8
        DEF Next, WriterNext

(* A published dict id never changes its meaning, whatever fails and         *)
(* whenever a process or the machine stops: the strings an unfinished flush  *)
(* left behind are overwritten, those the control file covers never.         *)
THEOREM DictKeepsIds == Spec => DictIdsStable
<1>1. StoreInv /\ [Next]_vars =>
        [\A i \in 1..Least(control.dict, control'.dict) :
           i <= Len(dictFile.data) =>
             i <= Len(dictFile'.data) /\ dictFile'.data[i] = dictFile.data[i]]_vars
  <2> SUFFICES ASSUME StoreInv, [Next]_vars,
                      NEW i \in 1..Least(control.dict, control'.dict)
               PROVE  i <= Len(dictFile'.data)
                      /\ dictFile'.data[i] = dictFile.data[i]
    OBVIOUS
  <2>1. StoreInv'
    BY NextStoreInv
  <2>2. /\ control.dict \in Nat /\ control'.dict \in Nat
        /\ Len(dictFile'.data) \in Nat
    BY <2>1, StoreTypes DEF StoreInv, TypeOK, Payload, File
  <2>3. i \in 1..control.dict
    BY <2>2 DEF Least
  <2>4. Kept(dictFile, dictFile', control.dict)
    BY StepKeeps DEF PublishedKept
  <2> QED BY <2>2, <2>3, <2>4 DEF Kept
<1>2. Spec => []StoreInv
  BY InitStoreInv, NextStoreInv, PTL DEF Spec
<1> QED BY <1>1, <1>2, PTL DEF Spec, DictIdsStable

(***************************************************************************)
(* The refinement of AppendOnlyLog, on a machine that keeps its power.      *)
(***************************************************************************)
\* The ends that a process has in memory against those of the control file.  A
\* writer knows the control file; the end a flush is about to acknowledge is
\* the one it published; a reader catches up with one end after the other.
EndsInv ==
  /\ pc # "down" => payload = control
  /\ pc \in {"controlFsync", "index"} => EndPoff(suffix) = control.suffix
  /\ roSuffixEnd <= roPayload.suffix /\ roPayload.suffix <= control.suffix
  /\ roDictEnd <= roPayload.dict /\ roPayload.dict <= control.dict
  /\ roPc \in {"openDict", "openIndex", "opened", "reloaded", "control", "dict"}
       => roSuffixEnd = roPayload.suffix
  /\ roPc \in {"openIndex", "opened", "reloaded", "control"}
       => roDictEnd = roPayload.dict

\* Without a power failure a file has no junk.
LogInv == EndsInv /\ suffixFile.data \in Seq(Entry)

LEMMA WholeOverwrite ==
  ASSUME NEW S, NEW s \in Seq(S), NEW off \in 0..Len(s), NEW buf \in Seq(S)
  PROVE  Overwrite(s, off, buf) \in Seq(S)
<1> DEFINE n == Greatest(Len(s), off + Len(buf))
<1>1. n \in Nat
  BY DEF Greatest
<1>2. \A i \in 1..n : Overwrite(s, off, buf)[i] \in S
  BY <1>1 DEF Overwrite, Greatest
<1>3. Overwrite(s, off, buf) \in [1..n -> S]
  BY <1>2 DEF Overwrite
<1> QED BY <1>1, <1>3

LEMMA WholeFlushed ==
  ASSUME NEW S, NEW ao \in Ao(S), NEW file, file.data \in Seq(S),
         ao.persisted <= Len(file.data)
  PROVE  FlushedFile(ao, file).data \in Seq(S)
<1>1. ao.persisted \in 0..Len(file.data) /\ ao.buf \in Seq(S)
  BY AoFields
<1> DEFINE d == file.data
           p == ao.persisted
           b == ao.buf
<1>2. FlushedFile(ao, file).data = Overwrite(d, p, b)
  BY DEF FlushedFile, WriteAt
<1>3. d \in Seq(S) /\ p \in 0..Len(d) /\ b \in Seq(S)
  BY <1>1
<1> HIDE DEF d, p, b
<1>4. Overwrite(d, p, b) \in Seq(S)
  BY ONLY <1>3, WholeOverwrite
<1> QED BY <1>2, <1>4

LEMMA StageData ==
  ASSUME NEW ao, NEW file
  PROVE  FlushStage(ao, file).file.data \in {file.data, FlushedFile(ao, file).data}
<1> DEFINE w == Written(ao, file)
<1>1. w.file = file \/ w.file = FlushedFile(ao, file)
  BY DEF Written
<1>2. FlushStage(ao, file).file.data = w.file.data
  BY DEF FlushStage, Fsynced
<1> QED BY <1>1, <1>2

\* What the writer does to the suffix file: nothing, or write its buffer, with
\* one more entry or without.
SuffixWritten ==
  \/ suffixFile'.data = suffixFile.data
  \/ suffixFile'.data = FlushedFile(suffix, suffixFile).data
  \/ \E e \in Entry :
       suffixFile'.data = FlushedFile(Buffered(suffix, e), suffixFile).data

LEMMA WholeSuffix ==
  ASSUME StoreInv, pc # "down", suffixFile.data \in Seq(Entry), SuffixWritten
  PROVE  suffixFile'.data \in Seq(Entry)
<1>1. suffix \in Ao(Entry) /\ suffix.persisted <= Len(suffixFile.data)
  BY StoreTypes DEF StoreInv, WriterInv, AoInv
<1>2. FlushedFile(suffix, suffixFile).data \in Seq(Entry)
  BY <1>1, WholeFlushed
<1>3. ASSUME NEW e \in Entry
      PROVE  FlushedFile(Buffered(suffix, e), suffixFile).data \in Seq(Entry)
  <2>1. /\ Buffered(suffix, e) \in Ao(Entry)
        /\ Buffered(suffix, e).persisted = suffix.persisted
    BY <1>1, BufferedType
  <2> QED BY <1>1, <2>1, WholeFlushed
<1> QED BY <1>2, <1>3 DEF SuffixWritten

LEMMA InitLogInv == Init => LogInv
<1> SUFFICES ASSUME Init PROVE LogInv
  OBVIOUS
<1> QED BY DEF Init, LogInv, EndsInv, NoPayload

\* The ends that a flush would publish are not behind.
LEMMA ControlForward ==
  ASSUME StoreInv, pc # "down"
  PROVE  /\ control.suffix <= NewPayload.suffix /\ control.dict <= NewPayload.dict
         /\ NewPayload.suffix \in Nat /\ NewPayload.dict \in Nat
<1>1. /\ suffix \in Ao(Entry) /\ control.suffix <= suffix.persisted
      /\ dict \in Ao(Strings) /\ control.dict <= dict.persisted
      /\ control.suffix \in Nat /\ control.dict \in Nat
  BY StoreTypes DEF StoreInv, WriterInv, AoInv
<1>2. /\ suffix.persisted \in Nat /\ Len(suffix.buf) \in Nat
      /\ dict.persisted \in Nat /\ Len(dict.buf) \in Nat
  BY <1>1, AoFields
<1> QED BY SMTT(30), <1>1, <1>2 DEF NewPayload, EndPoff

\* The ends of both files move forward, or the machine stops.
Forward ==
  control.suffix <= control'.suffix /\ control.dict <= control'.dict

LEMMA ReaderEnds ==
  ASSUME StoreInv, EndsInv, ReaderNext
  PROVE  EndsInv'
<1> USE DEF RoAtRest
<1>1. UNCHANGED <<control, payload, pc, suffix>>
  BY DEF ReaderNext, RoOpenControl, RoOpenSuffix, RoOpenDict, RoOpenIndex,
         RoReloadIndex, RoReloadControl, RoReloadSuffix, RoReloadDict, RoClose,
         fileVars, rwVars
<1>2. EndPoff(suffix)' = EndPoff(suffix)
  BY <1>1 DEF EndPoff
<1>3. /\ roSuffixEnd \in Nat /\ roDictEnd \in Nat
      /\ roPayload.suffix \in Nat /\ roPayload.dict \in Nat
      /\ control.suffix \in Nat /\ control.dict \in Nat
  BY StoreTypes DEF StoreInv, TypeOK
<1>4. CASE RoOpenControl \/ RoReloadControl
  BY <1>1, <1>2, <1>3, <1>4 DEF RoOpenControl, RoReloadControl, EndsInv
<1>5. CASE RoOpenSuffix \/ RoReloadSuffix
  BY <1>1, <1>2, <1>3, <1>5 DEF RoOpenSuffix, RoReloadSuffix, EndsInv
<1>6. CASE RoOpenDict \/ RoReloadDict
  BY <1>1, <1>2, <1>3, <1>6 DEF RoOpenDict, RoReloadDict, EndsInv
<1>7. CASE RoOpenIndex \/ RoReloadIndex
  BY <1>1, <1>2, <1>3, <1>7 DEF RoOpenIndex, RoReloadIndex, EndsInv
<1>8. CASE RoClose
  BY <1>1, <1>2, <1>3, <1>8 DEF RoClose, ReaderGone, NoPayload, EndsInv
<1> QED BY <1>4, <1>5, <1>6, <1>7, <1>8 DEF ReaderNext

LEMMA NextEndsInv ==
  ASSUME StoreInv, EndsInv, [Next]_vars
  PROVE  EndsInv' /\ (PowerFailure \/ Forward)
<1>0. /\ control.suffix \in Nat /\ control.dict \in Nat
      /\ roPayload.suffix \in Nat /\ roPayload.dict \in Nat
      /\ UNCHANGED control => Forward
  BY StoreTypes DEF StoreInv, Forward
<1>1. CASE \/ \E h \in Hashes : AppendValue(h) \/ AppendFails(h)
           \/ StartFlush \/ FlushDict \/ FlushSuffix \/ FlushFails \/ FsyncFails
  <2>1. /\ pc # "down" /\ pc' \in {"dict", "suffix", "control", "ready"}
        /\ UNCHANGED <<control, payload, roPc, roPayload, roSuffixEnd, roDictEnd>>
    BY <1>1 DEF AppendValue, AppendFails, StartFlush, FlushDict, FlushSuffix,
                FlushFails, FsyncFails, FlushStages, fileVars, roVars
  <2> QED BY <1>0, <2>1 DEF EndsInv
<1>2. CASE FlushControl
  <2>1. /\ pc = "control" /\ pc' \in {"controlFsync", "index"}
        /\ UNCHANGED <<suffix, roPc, roPayload, roSuffixEnd, roDictEnd>>
        /\ payload' = control' /\ control' = NewPayload
    BY <1>2 DEF FlushControl, EndsInv, roVars
  <2>2. EndPoff(suffix)' = EndPoff(suffix)
    BY <2>1 DEF EndPoff
  <2>3. Forward /\ control'.suffix \in Nat /\ control'.dict \in Nat
    BY <2>1, ControlForward DEF Forward
  <2>4. /\ roPayload.suffix <= control'.suffix
        /\ roPayload.dict <= control'.dict
    BY <1>0, <2>3 DEF EndsInv, Forward
  <2>5. control'.suffix = EndPoff(suffix)
    BY <2>1 DEF NewPayload
  <2> QED BY <2>1, <2>2, <2>3, <2>4, <2>5 DEF EndsInv
<1>3. CASE FsyncControl \/ FlushIndex
  <2>1. /\ pc # "down" /\ pc' \in {"index", "ready"}
        /\ pc' = "index" => pc = "controlFsync"
        /\ UNCHANGED <<suffix, control, payload>>
        /\ UNCHANGED <<roPc, roPayload, roSuffixEnd, roDictEnd>>
    BY <1>3 DEF FsyncControl, FlushIndex, roVars
  <2>2. EndPoff(suffix)' = EndPoff(suffix)
    BY <2>1 DEF EndPoff
  <2> QED BY <1>0, <2>1, <2>2 DEF EndsInv
<1>4. CASE CloseRw \/ CrashRw
  <2>1. /\ pc' = "down" /\ UNCHANGED control
        /\ UNCHANGED <<roPc, roPayload, roSuffixEnd, roDictEnd>>
    BY <1>4 DEF CloseRw, CrashRw, WriterGone, fileVars, roVars
  <2> QED BY <1>0, <2>1 DEF EndsInv
<1>5. CASE OpenRw
  BY <1>0, <1>5 DEF OpenRw, EndsInv, fileVars, roVars
<1>6. CASE ReaderNext
  <2>1. UNCHANGED control
    BY <1>6 DEF ReaderNext, RoOpenControl, RoOpenSuffix, RoOpenDict, RoOpenIndex,
                RoReloadIndex, RoReloadControl, RoReloadSuffix, RoReloadDict,
                RoClose, fileVars
  <2> QED BY <1>0, <1>6, <2>1, ReaderEnds
<1>7. CASE PowerFailure
  <2>1. /\ control' \in {control, controlSafe}
        /\ pc' = "down" /\ roPc' = "down" /\ roPayload' = NoPayload
        /\ roSuffixEnd' = 0 /\ roDictEnd' = 0
    BY <1>7 DEF PowerFailure, WriterGone, ReaderGone
  <2>2. control'.suffix \in Nat /\ control'.dict \in Nat
    BY <2>1, StoreTypes DEF StoreInv
  <2> QED BY <1>7, <2>1, <2>2 DEF EndsInv, NoPayload
<1>8. CASE UNCHANGED vars
  BY <1>0, <1>8 DEF EndsInv, EndPoff, vars, fileVars, rwVars, roVars
<1> QED BY <1>1, <1>2, <1>3, <1>4, <1>5, <1>6, <1>7, <1>8
        DEF Next, WriterNext

LEMMA NextLogInv ==
  ASSUME ~PowerFails, StoreInv, LogInv, [Next]_vars
  PROVE  LogInv' /\ Forward
<1>1. EndsInv' /\ Forward
  BY NextEndsInv DEF LogInv, PowerFailure
<1>2. ASSUME NEW h \in Hashes, AppendValue(h) PROVE suffixFile'.data \in Seq(Entry)
  <2>1. PICK id \in 0..Len(dictIndex) + 1 :
          /\ DictAdd(StepOf[h], id)
          /\ \E r \in AppendExn(suffix, suffixFile, [hash |-> h, id |-> id]) :
               suffix' = r.ao /\ suffixFile' = r.file
    BY <1>2 DEF AppendValue
  <2>2. WriterInv /\ StepOf[h] \in Strings /\ pc = "ready"
    BY <1>2, ConstantsAssumption DEF AppendValue, StoreInv
  <2>3. id \in Nat
    BY <2>1, <2>2, DictAddInv DEF StoreInv
  <2>4. [hash |-> h, id |-> id] \in Entry
    BY <2>3 DEF Entry
  <2>5. SuffixWritten
    BY <2>1, <2>4 DEF SuffixWritten, AppendExn
  <2> QED BY <2>2, <2>5, WholeSuffix DEF LogInv
<1>3. ASSUME FlushSuffix \/ FsyncFails PROVE suffixFile'.data \in Seq(Entry)
  <2>1. pc # "down"
    BY <1>3 DEF FlushSuffix, FsyncFails
  <2>2. SuffixWritten
    <3>1. CASE FlushSuffix
      BY <3>1, StageData DEF FlushSuffix, SuffixWritten
    <3>2. CASE FsyncFails
      BY <3>2 DEF FsyncFails, SuffixWritten
    <3> QED BY <1>3, <3>1, <3>2
  <2> QED BY <2>1, <2>2, WholeSuffix DEF LogInv
<1>4. ASSUME \/ \E h \in Hashes : AppendFails(h)
             \/ StartFlush \/ FlushDict \/ FlushControl \/ FsyncControl
             \/ FlushIndex \/ FlushFails \/ CloseRw \/ CrashRw \/ OpenRw
             \/ ReaderNext \/ UNCHANGED vars
      PROVE  suffixFile'.data \in Seq(Entry)
  <2>1. UNCHANGED suffixFile
    BY <1>4
    DEF AppendFails, StartFlush, FlushDict, FlushControl, FsyncControl,
        FlushIndex, FlushFails, CloseRw, CrashRw, OpenRw, ReaderNext,
        RoOpenControl, RoOpenSuffix, RoOpenDict, RoOpenIndex, RoReloadIndex,
        RoReloadControl, RoReloadSuffix, RoReloadDict, RoClose, vars, fileVars
  <2> QED BY <2>1 DEF LogInv
<1>5. suffixFile'.data \in Seq(Entry)
  BY <1>2, <1>3, <1>4 DEF Next, WriterNext, PowerFailure
<1> QED BY <1>1, <1>5 DEF LogInv

\* The published log after a step that keeps what was published.
LEMMA PublishedGrows ==
  ASSUME ~PowerFails, StoreInv, LogInv, [Next]_vars,
         UNCHANGED <<acked, roSuffixEnd>>
  PROVE  Log!Publish
<1>1. StoreInv' /\ LogInv' /\ control.suffix <= control'.suffix
  BY NextStoreInv, NextLogInv DEF Forward
<1>2. /\ control.suffix \in 0..Len(suffixFile.data)
      /\ suffixFile.data \in Seq(Entry)
  BY StoreTypes DEF StoreInv, FilesInv, FileInv, LogInv
<1>3. /\ control'.suffix \in 0..Len(suffixFile'.data)
      /\ suffixFile'.data \in Seq(Entry)
  <2>1. control' \in Payload /\ suffixFile'.data \in Seq(Entry)
    BY <1>1 DEF StoreInv, TypeOK, LogInv
  <2>2. control'.suffix <= Len(suffixFile'.data)
    BY <1>1 DEF StoreInv, FilesInv, FileInv
  <2> QED BY <2>1, <2>2 DEF Payload
<1>4. ASSUME NEW data \in Seq(Entry), NEW end \in 0..Len(data)
      PROVE  /\ SubSeq(data, 1, Least(end, Len(data))) \in Seq(Entry)
             /\ Len(SubSeq(data, 1, Least(end, Len(data)))) = end
             /\ \A i \in 1..end :
                  SubSeq(data, 1, Least(end, Len(data)))[i] = data[i]
  <2>1. Least(end, Len(data)) = end /\ end \in Nat /\ end <= Len(data)
    BY DEF Least
  <2>2. SubSeq(data, 1, end) = [i \in 1..end |-> data[i]]
    BY <2>1
  <2>3. [i \in 1..end |-> data[i]] \in Seq(Entry)
    BY <2>1
  <2> QED BY <2>1, <2>2, <2>3
<1>5. Kept(suffixFile, suffixFile', control.suffix)
  BY StepKeeps DEF PublishedKept
<1> DEFINE p == SubSeq(suffixFile.data, 1,
                       Least(control.suffix, Len(suffixFile.data)))
           q == SubSeq(suffixFile'.data, 1,
                       Least(control'.suffix, Len(suffixFile'.data)))
<1>6. /\ Len(p) = control.suffix
      /\ \A i \in 1..control.suffix : p[i] = suffixFile.data[i]
  BY <1>2, <1>4
<1>7. /\ q \in Seq(Entry) /\ Len(q) = control'.suffix
      /\ \A i \in 1..control'.suffix : q[i] = suffixFile'.data[i]
  BY <1>3, <1>4
<1> HIDE DEF p, q
<1>8. Log!AgreeUpTo(Len(p), q, p)
  BY <1>1, <1>2, <1>3, <1>5, <1>6, <1>7 DEF Kept, Log!AgreeUpTo
<1>9. q \in Seq(Entry) /\ Len(q) >= Len(p)
  BY <1>1, <1>2, <1>3, <1>6, <1>7
<1> QED BY <1>8, <1>9 DEF Log!Publish, p, q

\* The length of the published log.
LEMMA PublishedLength ==
  ASSUME StoreInv, LogInv
  PROVE  Len(SubSeq(suffixFile.data, 1,
                    Least(control.suffix, Len(suffixFile.data))))
           = control.suffix
<1>1. /\ control.suffix \in 0..Len(suffixFile.data)
      /\ suffixFile.data \in Seq(Entry)
  BY StoreTypes DEF StoreInv, FilesInv, FileInv, LogInv
<1>2. Least(control.suffix, Len(suffixFile.data)) = control.suffix
  BY <1>1 DEF Least
<1> QED BY <1>1, <1>2

LEMMA NextLog ==
  ASSUME ~PowerFails, StoreInv, LogInv, [Next]_vars
  PROVE  [Log!Next]_Log!vars
<1> DEFINE published == SubSeq(suffixFile.data, 1,
                               Least(control.suffix, Len(suffixFile.data)))
<1>1. CASE UNCHANGED <<acked, roSuffixEnd>>
  BY <1>1, PublishedGrows DEF Log!Next
<1>2. CASE FlushIndex /\ ~auto
  <2>1. /\ acked' = EndPoff(suffix) /\ pc = "index"
        /\ UNCHANGED <<suffixFile, control, roSuffixEnd>>
    BY <1>2 DEF FlushIndex, roVars
  <2>2. acked' = Len(published)
    BY <2>1, PublishedLength DEF LogInv, EndsInv
  <2>3. published' = published
    BY <2>1
  <2> QED BY <2>1, <2>2, <2>3 DEF Log!Next, Log!Acknowledge
<1>3. CASE RoOpenSuffix \/ RoReloadSuffix
  <2>1. /\ roSuffixEnd' = roPayload.suffix
        /\ UNCHANGED <<suffixFile, control, acked>>
    BY <1>3 DEF RoOpenSuffix, RoReloadSuffix, fileVars, ackVars
  <2>2. /\ roSuffixEnd \in Nat /\ roPayload.suffix \in Nat
        /\ control.suffix \in Nat
    BY StoreTypes DEF StoreInv, TypeOK
  <2>3. roSuffixEnd' \in roSuffixEnd..Len(published)
    <3>1. Len(published) = control.suffix
      BY PublishedLength
    <3> HIDE DEF published
    <3> QED BY <2>1, <2>2, <3>1 DEF LogInv, EndsInv
  <2>4. published' = published
    BY <2>1
  <2> QED BY <2>1, <2>3, <2>4 DEF Log!Next, Log!Advance
<1>4. CASE RoClose
  <2>1. roSuffixEnd' = 0 /\ UNCHANGED <<suffixFile, control, acked>>
    BY <1>4 DEF RoClose, ReaderGone, fileVars, ackVars
  <2>2. published' = published
    BY <2>1
  <2> QED BY <2>1, <2>2 DEF Log!Next, Log!Leave
<1>5. \/ UNCHANGED <<acked, roSuffixEnd>>
      \/ FlushIndex /\ ~auto
      \/ RoOpenSuffix \/ RoReloadSuffix \/ RoClose
  <2>1. CASE WriterNext
    BY <2>1 DEF WriterNext, AppendValue, AppendFails, StartFlush, FlushDict,
                FlushSuffix, FlushControl, FsyncControl, FlushIndex, FlushFails,
                FsyncFails, CloseRw, CrashRw, OpenRw, roVars, ackVars
  <2>2. CASE ReaderNext
    BY <2>2 DEF ReaderNext, RoOpenControl, RoOpenDict, RoOpenIndex,
                RoReloadIndex, RoReloadControl, RoReloadDict, ackVars
  <2>3. CASE UNCHANGED vars
    BY <2>3 DEF vars, roVars, ackVars
  <2> QED BY <2>1, <2>2, <2>3 DEF Next, PowerFailure
<1> QED BY <1>1, <1>2, <1>3, <1>4, <1>5

LEMMA InitLog == Init => Log!Init
<1> SUFFICES ASSUME Init PROVE Log!Init
  OBVIOUS
<1>1. suffixFile.data = << >> /\ control.suffix = 0 /\ acked = 0 /\ roSuffixEnd = 0
  BY DEF Init, NoPayload
<1>2. Least(0, Len(<< >>)) = 0
  BY DEF Least
<1>3. SubSeq(<< >>, 1, 0) = << >>
  OBVIOUS
<1> QED BY <1>1, <1>2, <1>3 DEF Log!Init

(* While the machine keeps its power, and whatever else fails, the dict,     *)
(* suffix, index and control files together are the append-only log that     *)
(* the abstract specification describes, read and written through buffers.   *)
THEOREM FilesAreLog == ASSUME ~PowerFails PROVE Spec => LogSpec
<1>1. Init => StoreInv /\ LogInv
  BY InitStoreInv, InitLogInv
<1>2. (StoreInv /\ LogInv) /\ [Next]_vars => (StoreInv /\ LogInv)'
  BY NextStoreInv, NextLogInv
<1>3. Spec => [](StoreInv /\ LogInv)
  BY <1>1, <1>2, PTL DEF Spec
<1>4. (StoreInv /\ LogInv) /\ [Next]_vars => [Log!Next]_Log!vars
  BY NextLog
<1>5. Spec => Log!Spec
  BY <1>3, <1>4, InitLog, PTL DEF Spec, Log!Spec
<1> QED BY <1>5, DictKeepsIds DEF LogSpec
=============================================================================
