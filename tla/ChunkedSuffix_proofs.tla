------------------------ MODULE ChunkedSuffix_proofs ------------------------
(***************************************************************************)
(* What ChunkedSuffix promises, for every number of entries, chunks,        *)
(* collections and deaths, and every reachability between commits.          *)
(*                                                                         *)
(* The argument: there is a function b that says at which offset each chunk *)
(* begins.  A chunk file holds the log from there on, a chunk ends where    *)
(* the next one begins, and every list of chunks a process holds is a view  *)
(* of consecutive files, of which only the last may still grow.  Splits     *)
(* extend b; collections only move the first chunk.                         *)
(***************************************************************************)
EXTENDS ChunkedSuffix, FiniteSetTheorems, SequenceTheorems, WellFoundedInduction, TLAPS

\* The deaths the theorems admit: none at all, or some that leave no bytes
\* after the end the control file gives.
NoTail == "control" \notin DiesAt /\ (AutoFlush => "batch" \notin DiesAt)

-----------------------------------------------------------------------------
(* The invariant. *)

\* The last chunk of a payload, and the last chunk file with a beginning.
Top(c) == c.start + c.num - 1
LastFile == IF pc = "split" THEN Top(control) + 1 ELSE Top(control)

\* The files F up to m hold the log L, chunk i from offset b[i] on.
Placed(F, L, b, m) ==
  /\ m \in 0..MaxChunks
  /\ \A i \in 0..m : \A k \in 1..Len(F[i]) :
       b[i] + k <= Len(L) /\ F[i][k] = L[b[i] + k]
  /\ \A i \in 0..m - 1 : b[i + 1] = b[i] + Len(F[i]) /\ Len(F[i]) # 0

\* cs are the n chunks from s on, the last one with e bytes.
View(F, b, cs, s, n, e) ==
  /\ cs \in Seq(Chunk) /\ Len(cs) = n /\ n \in Nat \ {0} /\ s \in Nat
  /\ \A i \in 1..n : cs[i].idx = s + i - 1 /\ cs[i].off = b[s + i - 1] - b[s]
  /\ \A i \in 1..n - 1 : cs[i].end = Len(F[s + i - 1])
  /\ cs[n].end = e

\* Prefix g has the entries of the log that the one at offset t reaches.
Copied(P, L, g, t) ==
  /\ g \in 1..MaxGcs /\ t \in Offsets /\ DOMAIN P[g] = Needs[t]
  /\ \A o \in Needs[t] : o < Len(L) /\ P[g][o] = L[o + 1]

\* The suffix of payload p starts at or after its target, and what came before
\* is in its prefix.
Rooted(P, L, b, p) ==
  /\ p.startOff = b[p.start] + p.dead
  /\ p.startOff \in {p.target, p.target + 1}
  /\ p.gen = 0 => p.target = -1
  /\ p.gen # 0 => Copied(P, L, p.gen, p.target)

\* p is a payload the control file had when n entries were published, and c,
\* with q published, is a later one.
Sound(F, P, L, b, c, q, p, n) ==
  /\ Top(p) <= Top(c)
  /\ n \in 0..q /\ n = b[Top(p)] + p.poff /\ p.poff <= Len(F[Top(p)])
  /\ Rooted(P, L, b, p) /\ p.target < n
  /\ p.gen <= c.gen /\ p.start <= c.start
  /\ p.gen = c.gen => p.start = c.start

\* L and L2 begin with the same q entries; the log L ends with the entries w.
Same(L, L2, q) == \A k \in 1..q : L2[k] = L[k]
EndsWith(L, w) == \A k \in 1..Len(w) : w[k] = L[Len(L) - Len(w) + k]

\* Main process: it has the payload of the control file and all the chunks.
Main(b) ==
  /\ pc # "down" =>
       /\ payload = control
       /\ View(chunkFile, b, chunks, control.start,
               LastFile - control.start + 1, Len(chunkFile[LastFile]))
       /\ b[LastFile] + Len(chunkFile[LastFile]) + Len(buf) = Len(log)
  /\ EndsWith(log, buf)
  /\ pc = "split" => Len(chunkFile[LastFile]) = 0
  /\ pc \in {"ready", "split", "down"} \/ (pc = "batch" /\ ~AutoFlush) =>
       control.poff = Len(chunkFile[Top(control)])
  /\ pc = "down" => /\ published = Len(log) /\ gcPc = "none"
                    /\ unlinking = {} /\ unlinkingPrefix = {}

\* The collection: the store as the worker opened it is sound, and no other
\* collection ended since.
Gc(b) ==
  /\ gcPc # "none" =>
       /\ control.gen < MaxGcs /\ gcTarget \in 0..published - 1
       /\ control.target < gcTarget /\ gcStart \in {gcTarget, gcTarget + 1}
       /\ gcStart >= control.startOff
  /\ gcPc \in {"opened", "done"} =>
       \E n \in Nat :
         /\ Sound(chunkFile, prefixFile, log, b, control, published, gcPayload, n)
         /\ gcTarget < n /\ gcPayload.gen = control.gen
         /\ gcPayload.startOff = control.startOff
         /\ View(chunkFile, b, gcChunks, gcPayload.start, gcPayload.num, gcPayload.poff)
  /\ gcPc = "done" => Copied(prefixFile, log, control.gen + 1, gcTarget)

\* The chunks the reader has open are those of its payload, with some end.
Opened(b) ==
  \E e \in Nat : View(chunkFile, b, roChunks, roPayload.start, roPayload.num, e)

Reader(b) ==
  /\ roPc \in {"down", "refused"} => roPrefix = 0
  /\ roPc \notin {"down", "refused"} =>
       Sound(chunkFile, prefixFile, log, b, control, published, roPayload, roLen)
  /\ roPc = "openSuffix" => "suffix" \in roStale
  /\ roPc \in {"openPrefix", "prefix"} => Opened(b)
  /\ roPc = "suffix" => ("suffix" \in roStale \/ Opened(b))
  /\ roPc = "ready" =>
       /\ View(chunkFile, b, roChunks, roPayload.start, roPayload.num, roPayload.poff)
       /\ roPrefix = roPayload.gen
  /\ roPc \in {"openSuffix", "openPrefix", "suffix", "prefix"} =>
       ("prefix" \in roStale \/ roPrefix = roPayload.gen)
  /\ "prefix" \in roStale => roPayload.gen # 0
  /\ roPc = "failed" =>
       /\ roPayload.gen < control.gen
       /\ Opened(b) \/ roPayload.start < control.start

\* The directory has what the control file names, and unlinks only what it
\* does not.
Names ==
  /\ control.start..LastFile \subseteq chunkNames
  /\ control.gen # 0 => control.gen \in prefixNames
  /\ \A i \in unlinking : i < control.start
  /\ \A g \in unlinkingPrefix : g < control.gen
  /\ gcPc = "done" => control.gen + 1 \in prefixNames

\* It has little else.
Residue ==
  pc # "down" =>
    /\ chunkNames \subseteq (control.start..control.start + control.num) \cup unlinking
    /\ prefixNames \subseteq
         {control.gen} \cup unlinkingPrefix \cup
           (IF gcPc = "done" THEN {control.gen + 1} ELSE {})

Types == TypeOK /\ DOMAIN prefixFile = 1..MaxGcs /\ Len(log) <= MaxEntries

Core(b) ==
  /\ Placed(chunkFile, log, b, LastFile)
  /\ Sound(chunkFile, prefixFile, log, b, control, published, control, published)
  /\ Main(b) /\ Gc(b) /\ Reader(b)

Begins == [0..MaxChunks -> Nat]

IInv == Types /\ Names /\ Residue /\ \E b \in Begins : Core(b)
-----------------------------------------------------------------------------
(* Naturals, and the sums that place the chunks. *)

LEMMA Bounds ==
  /\ MaxEntries \in Nat /\ MaxAppends \in Nat /\ MaxChunks \in Nat
  /\ MaxGcs \in Nat /\ MaxCrashes \in Nat
BY ConstantsAssumption

LEMMA Least ==
  ASSUME NEW T, T \subseteq Nat, T # {}
  PROVE  \E x \in T : \A y \in T : x <= y
<1>1. IsWellFoundedOn(OpToRel(<, Nat), Nat)
  BY NatLessThanWellFounded
<1>2. PICK x \in T : \A y \in T : ~ (<<y, x>> \in OpToRel(<, Nat))
  BY <1>1, WFMin
<1>3. \A y \in T : ~ (y < x)
  BY <1>2 DEF OpToRel
<1> QED BY <1>3

LEMMA Greatest ==
  ASSUME NEW n \in Nat, NEW T, T \subseteq 1..n, T # {}
  PROVE  \E x \in T : \A y \in T : y <= x
<1> DEFINE R == {r \in 0..n : n - r \in T}
<1>1. R \subseteq Nat /\ R # {}
  <2>1. PICK x \in T : TRUE
    OBVIOUS
  <2>2. n - x \in 0..n /\ n - (n - x) = x
    OBVIOUS
  <2>3. n - x \in R
    BY <2>1, <2>2, Zenon
  <2>4. R \subseteq Nat
    OBVIOUS
  <2> HIDE DEF R
  <2> QED BY <2>3, <2>4
<1>2. PICK r \in R : \A y \in R : r <= y
  <2> HIDE DEF R
  <2> QED BY <1>1, Least
<1>3. ASSUME NEW y \in T PROVE y <= n - r
  <2>1. n - y \in 0..n /\ n - (n - y) = y
    OBVIOUS
  <2>2. n - y \in R
    BY <2>1
  <2> QED BY <2>2, <1>2
<1> QED BY <1>2, <1>3

\* f gives the sum of the lengths of the chunks before each chunk.
SumsTo(f, start, num, poff) ==
  /\ f \in [1..num -> Nat]
  /\ \A i \in 1..num :
       f[i] = IF i = 1 THEN 0
              ELSE f[i - 1] + ChunkEnd(start + (i - 1) - 1, (i - 1) = num, poff)

\* Inventory puts each chunk there.
LEMMA InventoryIs ==
  ASSUME NEW start \in Nat, NEW num \in Nat, NEW poff \in Nat,
         NEW f, SumsTo(f, start, num, poff)
  PROVE  Inventory(start, num, poff) =
           [i \in 1..num |-> [idx |-> start + i - 1, off |-> f[i],
                              end |-> ChunkEnd(start + i - 1, i = num, poff)]]
<1> DEFINE End(i) == ChunkEnd(start + i - 1, i = num, poff)
           Body(g) == [i \in 1..num |-> IF i = 1 THEN 0 ELSE g[i - 1] + End(i - 1)]
           off == CHOOSE g : g = Body(g)
<1>0. /\ f \in [1..num -> Nat]
      /\ \A i \in 1..num : f[i] = IF i = 1 THEN 0 ELSE f[i - 1] + End(i - 1)
  BY DEF SumsTo
<1>1. f = Body(f)
  BY <1>0
<1>2. \A g : g = Body(g) => g = f
  <2> SUFFICES ASSUME NEW g, g = Body(g) PROVE g = f
    OBVIOUS
  <2> DEFINE T == {i \in 1..num : g[i] # f[i]}
  <2>0. \A i \in 1..num : g[i] = IF i = 1 THEN 0 ELSE g[i - 1] + End(i - 1)
    OBVIOUS
  <2>1. DOMAIN g = 1..num /\ g = [i \in 1..num |-> g[i]]
    OBVIOUS
  <2>2. SUFFICES ASSUME T # {} PROVE FALSE
    BY <1>0, <2>1
  <2>3. PICK i \in T : \A j \in T : i <= j
    <3>1. T \subseteq Nat
      OBVIOUS
    <3> HIDE DEF T
    <3> QED BY <3>1, <2>2, Least
  <2>4. CASE i = 1
    BY <1>0, <2>0, <2>3, <2>4
  <2>5. CASE i # 1
    <3>1. i - 1 \in 1..num /\ g[i - 1] = f[i - 1]
      BY <2>3, <2>5
    <3> HIDE DEF End, Body
    <3>2. g[i] = g[i - 1] + End(i - 1)
      BY <2>3, <2>0, <2>5
    <3>3. f[i] = f[i - 1] + End(i - 1)
      BY <1>0, <2>3, <2>5
    <3> QED BY <3>1, <3>2, <3>3, <2>3
  <2> QED BY <2>4, <2>5
<1>3. off = f
  <2> HIDE DEF Body
  <2> QED BY <1>1, <1>2
<1>4. Inventory(start, num, poff) =
        [i \in 1..num |-> [idx |-> start + i - 1, off |-> off[i], end |-> End(i)]]
  BY DEF Inventory
<1> QED BY <1>3, <1>4

\* EndSoff is the sum of the ends.
LEMMA EndSoffIs ==
  ASSUME NEW cs \in Seq(Chunk), NEW f \in [0..Len(cs) -> Nat],
         \A i \in 0..Len(cs) : f[i] = IF i = 0 THEN 0 ELSE f[i - 1] + cs[i].end
  PROVE  EndSoff(cs) = f[Len(cs)]
<1> DEFINE Body(g) == [i \in 0..Len(cs) |-> IF i = 0 THEN 0 ELSE g[i - 1] + cs[i].end]
           sum == CHOOSE g : g = Body(g)
<1>1. f = Body(f)
  OBVIOUS
<1>2. \A g : g = Body(g) => g = f
  <2> SUFFICES ASSUME NEW g, g = Body(g) PROVE g = f
    OBVIOUS
  <2> DEFINE T == {i \in 0..Len(cs) : g[i] # f[i]}
  <2>0. \A i \in 0..Len(cs) : g[i] = IF i = 0 THEN 0 ELSE g[i - 1] + cs[i].end
    OBVIOUS
  <2>1. DOMAIN g = 0..Len(cs) /\ g = [i \in 0..Len(cs) |-> g[i]]
    OBVIOUS
  <2>2. SUFFICES ASSUME T # {} PROVE FALSE
    BY SMTT(30), <2>1
  <2>3. PICK i \in T : \A j \in T : i <= j
    <3>1. T \subseteq Nat
      OBVIOUS
    <3> HIDE DEF T
    <3> QED BY <3>1, <2>2, Least
  <2>4. CASE i = 0
    BY <2>0, <2>3, <2>4
  <2>5. CASE i # 0
    <3>1. i - 1 \in 0..Len(cs) /\ g[i - 1] = f[i - 1]
      BY <2>3, <2>5
    <3> HIDE DEF Body
    <3>2. g[i] = g[i - 1] + cs[i].end
      BY <2>3, <2>0, <2>5
    <3>3. f[i] = f[i - 1] + cs[i].end
      BY <2>3, <2>5
    <3> QED BY <3>1, <3>2, <3>3, <2>3
  <2> QED BY <2>4, <2>5
<1>3. sum = f
  <2> HIDE DEF Body
  <2> QED BY <1>1, <1>2
<1>4. EndSoff(cs) = sum[Len(cs)]
  BY DEF EndSoff
<1> QED BY <1>3, <1>4
-----------------------------------------------------------------------------
(* Files and views. *)

LEMMA Growing ==
  ASSUME NEW F \in [0..MaxChunks -> Seq(Nat)], NEW L, NEW b \in Begins, NEW m,
         Placed(F, L, b, m)
  PROVE  \A i, j \in 0..m : i <= j =>
           /\ b[i] \in Nat /\ b[j] \in Nat /\ b[i] <= b[j]
           /\ i < j => b[i] + Len(F[i]) <= b[j]
<1> USE Bounds
<1>1. m \in 0..MaxChunks /\ \A i \in 0..m : b[i] \in Nat /\ Len(F[i]) \in Nat
  BY DEF Placed, Begins
<1>2. \A i \in 0..m - 1 : b[i + 1] = b[i] + Len(F[i])
  BY DEF Placed
<1>3. ASSUME NEW i \in 0..m, NEW j \in 0..m, i <= j PROVE b[i] <= b[j]
  <2> DEFINE T == {k \in i..m : b[k] < b[i]}
  <2>0. j \in i..m /\ b[j] \in Nat /\ b[i] \in Nat
    BY <1>1, <1>3
  <2>1. SUFFICES ASSUME T # {} PROVE FALSE
    <3>1. j \notin T => b[i] <= b[j]
      BY <2>0
    <3> HIDE DEF T
    <3> QED BY <3>1
  <2>2. PICK k \in T : \A l \in T : k <= l
    <3>1. T \subseteq Nat
      OBVIOUS
    <3> HIDE DEF T
    <3> QED BY <3>1, <2>1, Least
  <2>3. k # i /\ k \in 0..m /\ k - 1 \in 0..m - 1 /\ k - 1 \in i..m
    BY <1>1, <2>2
  <2>4. ~ (b[k - 1] < b[i])
    BY <2>2, <2>3
  <2>5. b[k] = b[k - 1] + Len(F[k - 1])
    <3>1. (k - 1) + 1 = k
      BY <2>3
    <3> QED BY <1>2, <2>3, <3>1
  <2> QED BY SMTT(30), <1>1, <2>2, <2>3, <2>4, <2>5
<1>4. ASSUME NEW i \in 0..m, NEW j \in 0..m, i < j PROVE b[i] + Len(F[i]) <= b[j]
  <2>1. i \in 0..m - 1 /\ i + 1 \in 0..m /\ i + 1 <= j
    BY <1>1, <1>4
  <2> QED BY <1>2, <1>3, <2>1
<1> QED BY <1>1, <1>3, <1>4

\* What Inventory builds is a view of the files.
LEMMA InventoryIsView ==
  ASSUME TypeOK, NEW L, NEW b \in Begins, NEW m, Placed(chunkFile, L, b, m),
         NEW s \in Nat, NEW n \in Nat \ {0}, NEW e \in Nat, s + n - 1 <= m
  PROVE  View(chunkFile, b, Inventory(s, n, e), s, n, e)
<1> USE Bounds
<1> DEFINE F == chunkFile
<1>0. F \in [0..MaxChunks -> Seq(Nat)] /\ m \in 0..MaxChunks
  BY DEF TypeOK, Placed
<1>1. \A i \in 1..n : s + i - 1 \in 0..m /\ b[s + i - 1] \in Nat
  BY <1>0 DEF Begins
<1>2. \A i \in 1..n : b[s] <= b[s + i - 1]
  <2> TAKE i \in 1..n
  <2>1. s \in 0..m /\ s + i - 1 \in 0..m /\ s <= s + i - 1
    BY <1>0, <1>1
  <2> HIDE DEF F
  <2> QED BY <1>0, <2>1, Growing DEF F
<1> DEFINE f == [i \in 1..n |-> b[s + i - 1] - b[s]]
<1>2a. b[s] \in Nat
  <2>1. 1 \in 1..n /\ s + 1 - 1 = s
    OBVIOUS
  <2> QED BY <1>1, <2>1
<1>3. f \in [1..n -> Nat]
  <2>1. ASSUME NEW i \in 1..n PROVE b[s + i - 1] - b[s] \in Nat
    <3>1. b[s + i - 1] \in Nat /\ b[s] <= b[s + i - 1]
      BY <1>1, <1>2
    <3> QED BY <3>1, <1>2a
  <2> QED BY <2>1
<1>4. \A i \in 1..n :
        f[i] = IF i = 1 THEN 0
               ELSE f[i - 1] + ChunkEnd(s + (i - 1) - 1, (i - 1) = n, e)
  <2> TAKE i \in 1..n
  <2>1. CASE i = 1
    <3>1. b[s] \in Nat /\ s + 1 - 1 = s
      BY <1>2a
    <3> QED BY <2>1, <3>1
  <2>2. CASE i # 1
    <3>1. i - 1 \in 1..n /\ i - 1 # n /\ s + (i - 1) - 1 \in 0..m - 1
          /\ (s + (i - 1) - 1) + 1 = s + i - 1
      BY <1>0, <2>2
    <3>2. b[s + i - 1] = b[s + (i - 1) - 1] + Len(F[s + (i - 1) - 1])
      BY <3>1 DEF Placed
    <3>3. ChunkEnd(s + (i - 1) - 1, (i - 1) = n, e) = Len(F[s + (i - 1) - 1])
      BY <3>1 DEF ChunkEnd
    <3>4. Len(F[s + (i - 1) - 1]) \in Nat
      BY <1>0, <3>1
    <3>5. f[i] = b[s + i - 1] - b[s] /\ f[i - 1] = b[s + (i - 1) - 1] - b[s]
      BY <3>1
    <3>6. b[s] \in Nat /\ b[s + (i - 1) - 1] \in Nat
      BY <1>1, <1>2a, <3>1
    <3> HIDE DEF f, F
    <3> QED BY <2>2, <3>2, <3>3, <3>4, <3>5, <3>6
  <2> QED BY <2>1, <2>2
<1> DEFINE cs == [i \in 1..n |-> [idx |-> s + i - 1, off |-> f[i],
                                  end |-> ChunkEnd(s + i - 1, i = n, e)]]
<1>5. Inventory(s, n, e) = cs
  <2>1. n \in Nat
    OBVIOUS
  <2> HIDE DEF f
  <2>2. SumsTo(f, s, n, e)
    BY <1>3, <1>4 DEF SumsTo
  <2> QED BY <2>1, <2>2, InventoryIs
<1>6. \A i \in 1..n : ChunkEnd(s + i - 1, i = n, e) = IF i = n THEN e ELSE Len(F[s + i - 1])
  BY DEF ChunkEnd
<1>7. \A i \in 1..n : ChunkEnd(s + i - 1, i = n, e) \in Nat
  <2> TAKE i \in 1..n
  <2>1. s + i - 1 \in 0..MaxChunks
    BY <1>0, <1>1
  <2>2. Len(F[s + i - 1]) \in Nat
    BY <1>0, <2>1
  <2> HIDE DEF F
  <2> QED BY <1>6, <2>2
<1>8. cs \in [1..n -> Chunk]
  <2>1. ASSUME NEW i \in 1..n
        PROVE  [idx |-> s + i - 1, off |-> f[i],
                end |-> ChunkEnd(s + i - 1, i = n, e)] \in Chunk
    <3>1. s + i - 1 \in Nat /\ f[i] \in Nat /\ ChunkEnd(s + i - 1, i = n, e) \in Nat
      <4> HIDE DEF f
      <4> QED BY <1>1, <1>3, <1>7
    <3> HIDE DEF f
    <3> QED BY <3>1 DEF Chunk
  <2> HIDE DEF f
  <2> QED BY <2>1
<1>9. cs \in Seq(Chunk) /\ Len(cs) = n
  <2> HIDE DEF cs
  <2>1. cs \in Seq(Chunk)
    BY <1>8, SeqDef
  <2>2. DOMAIN cs = 1..n
    BY <1>8
  <2> QED BY <2>1, <2>2, LenProperties
<1>10. \A i \in 1..n : /\ cs[i].idx = s + i - 1
                       /\ cs[i].off = b[s + i - 1] - b[s]
                       /\ cs[i].end = IF i = n THEN e ELSE Len(F[s + i - 1])
  BY <1>6
<1> HIDE DEF cs
<1> QED BY <1>5, <1>9, <1>10 DEF View

\* A view ends where its last chunk does.
LEMMA EndOfView ==
  ASSUME NEW F \in [0..MaxChunks -> Seq(Nat)], NEW L, NEW b \in Begins, NEW m,
         Placed(F, L, b, m), NEW cs, NEW s, NEW n, NEW e \in Nat,
         View(F, b, cs, s, n, e), NEW t, t = s + n - 1, t <= m
  PROVE  EndSoff(cs) = b[t] - b[s] + e
<1> USE Bounds
<1>0. /\ m \in 0..MaxChunks /\ cs \in Seq(Chunk) /\ Len(cs) = n
      /\ n \in Nat \ {0} /\ s \in Nat
  BY DEF Placed, View
<1> DEFINE f == [i \in 0..n |-> IF i = n THEN b[s + n - 1] - b[s] + e ELSE b[s + i] - b[s]]
<1>1. \A i \in 0..n - 1 : s + i \in 0..m /\ b[s + i] \in Nat /\ b[s] <= b[s + i]
  <2> TAKE i \in 0..n - 1
  <2>1. s \in 0..m /\ s + i \in 0..m /\ s <= s + i
    BY <1>0
  <2> QED BY <2>1, Growing
<1>2. b[s] \in Nat /\ b[s + n - 1] \in Nat /\ b[s] <= b[s + n - 1]
  <2>1. s \in 0..m /\ s + n - 1 \in 0..m /\ s <= s + n - 1
    BY <1>0
  <2> QED BY <2>1, Growing
<1>3. f \in [0..Len(cs) -> Nat]
  <2>1. ASSUME NEW i \in 0..n
        PROVE  (IF i = n THEN b[s + n - 1] - b[s] + e ELSE b[s + i] - b[s]) \in Nat
    <3>1. CASE i = n
      BY <1>2, <3>1
    <3>2. CASE i # n
      <4>1. i \in 0..n - 1
        BY <1>0, <3>2
      <4> QED BY <1>1, <1>2, <3>2, <4>1
    <3> QED BY <3>1, <3>2
  <2> QED BY <1>0, <2>1
<1>4. \A i \in 0..Len(cs) : f[i] = IF i = 0 THEN 0 ELSE f[i - 1] + cs[i].end
  <2> TAKE i \in 0..Len(cs)
  <2>1. CASE i = 0
    BY <1>0, <1>2, <2>1
  <2>2. CASE i # 0 /\ i # n
    <3>1. i \in 1..n - 1 /\ i - 1 \in 0..n - 1 /\ i - 1 # n /\ s + i \in Nat
          /\ s + (i - 1) = s + i - 1 /\ s + i - 1 \in 0..m - 1 /\ (s + i - 1) + 1 = s + i
      BY <1>0, <2>2
    <3>2. cs[i].end = Len(F[s + i - 1])
      BY <3>1 DEF View
    <3>3. b[s + i] = b[s + i - 1] + Len(F[s + i - 1])
      BY <3>1 DEF Placed
    <3>4. Len(F[s + i - 1]) \in Nat
      BY <1>0, <3>1
    <3>5. f[i] = b[s + i] - b[s] /\ f[i - 1] = b[s + i - 1] - b[s]
      BY <1>0, <2>2, <3>1
    <3>6. b[s + i - 1] \in Nat
      BY <1>1, <3>1
    <3> HIDE DEF f
    <3> QED BY SMTT(30), <1>2, <2>2, <3>2, <3>3, <3>4, <3>5, <3>6
  <2>3. CASE i = n
    <3>1. n - 1 \in 0..n /\ n - 1 # n /\ s + (n - 1) = s + n - 1
      BY <1>0
    <3>2. f[n] = b[s + n - 1] - b[s] + e /\ f[n - 1] = b[s + n - 1] - b[s]
      BY <1>0, <3>1
    <3>3. cs[n].end = e
      BY DEF View
    <3> HIDE DEF f
    <3> QED BY <1>0, <2>3, <3>2, <3>3
  <2> QED BY <2>1, <2>2, <2>3
<1>5. EndSoff(cs) = f[Len(cs)]
  <2> HIDE DEF f
  <2> QED BY <1>0, <1>3, <1>4, EndSoffIs
<1> QED BY <1>0, <1>5

\* Reading a view at a position gives the entry the log has there.
LEMMA ReadThrough ==
  ASSUME TypeOK, NEW L, NEW b \in Begins, NEW m, Placed(chunkFile, L, b, m),
         NEW cs, NEW s, NEW n, NEW e \in Nat, View(chunkFile, b, cs, s, n, e),
         NEW t, t = s + n - 1, t <= m, e <= Len(chunkFile[t]),
         NEW o \in Nat, b[s] <= o, o < b[t] + e
  PROVE  ReadSuffix(cs, o - b[s]) = L[o + 1]
<1> USE Bounds
<1> DEFINE F == chunkFile
<1>0. /\ F \in [0..MaxChunks -> Seq(Nat)] /\ m \in 0..MaxChunks
      /\ cs \in Seq(Chunk) /\ Len(cs) = n /\ n \in Nat \ {0} /\ s \in Nat
  BY DEF Placed, View, TypeOK
<1>1. \A i \in 1..n : /\ s + i - 1 \in 0..m /\ b[s + i - 1] \in Nat
                      /\ Len(F[s + i - 1]) \in Nat /\ cs[i].end \in Nat
                      /\ cs[i].idx = s + i - 1 /\ cs[i].off = b[s + i - 1] - b[s]
                      /\ cs[i].end <= Len(F[s + i - 1])
  <2> TAKE i \in 1..n
  <2>1. s + i - 1 \in 0..m /\ s + i - 1 \in 0..MaxChunks
    BY <1>0
  <2>2. b[s + i - 1] \in Nat /\ Len(F[s + i - 1]) \in Nat
    BY SMTT(30), <1>0, <2>1 DEF Begins
  <2>3. cs[i].idx = s + i - 1 /\ cs[i].off = b[s + i - 1] - b[s]
    BY DEF View
  <2>4. cs[i].end \in Nat
    <3>1. cs[i] \in Chunk
      BY <1>0
    <3> QED BY <3>1 DEF Chunk
  <2>5. cs[i].end <= Len(F[s + i - 1])
    <3>1. CASE i = n
      BY <3>1 DEF View
    <3>2. CASE i # n
      <4>1. i \in 1..n - 1
        BY <1>0, <3>2
      <4>2. cs[i].end = Len(F[s + i - 1])
        BY <4>1 DEF View
      <4> QED BY <2>2, <4>2
    <3> QED BY <3>1, <3>2
  <2> QED BY <2>1, <2>2, <2>3, <2>4, <2>5
<1>2. b[s] \in Nat
  BY SMTT(30), <1>0, <1>1 DEF Begins
<1> DEFINE soff == o - b[s]
           holds == {i \in 1..Len(cs) : soff >= cs[i].off /\ soff < cs[i].off + cs[i].end}
           T == {i \in 1..n : o < b[s + i - 1] + cs[i].end}
<1>3. holds # {}
  <2>1. n \in T
    BY <1>0 DEF View
  <2>2. PICK i \in T : \A j \in T : i <= j
    <3>1. T \subseteq Nat
      BY <1>0
    <3> HIDE DEF T
    <3> QED BY <2>1, <3>1, Least
  <2>3. b[s + i - 1] <= o
    <3>1. CASE i = 1
      BY <1>0, <3>1
    <3>2. CASE i # 1
      <4>1. i - 1 \in 1..n /\ i - 1 \in 1..n - 1 /\ i - 1 < i /\ s + (i - 1) - 1 = s + i - 1 - 1
            /\ s + (i - 1) - 1 \in 0..m - 1 /\ (s + (i - 1) - 1) + 1 = s + i - 1
        BY <1>0, <3>2
      <4>2. i - 1 \notin T
        BY <2>2, <4>1
      <4>3. cs[i - 1].end = Len(F[s + (i - 1) - 1])
        BY <4>1 DEF View
      <4>4. b[s + i - 1] = b[s + (i - 1) - 1] + Len(F[s + (i - 1) - 1])
        BY <4>1 DEF Placed
      <4>5. ~ (o < b[s + (i - 1) - 1] + cs[i - 1].end)
        BY <4>1, <4>2
      <4>6. b[s + (i - 1) - 1] \in Nat /\ cs[i - 1].end \in Nat
        BY <1>1, <4>1
      <4> QED BY <4>3, <4>4, <4>5, <4>6
    <3> QED BY <3>1, <3>2
  <2>4. i \in holds
    <3>1. i \in 1..n /\ b[s + i - 1] \in Nat /\ cs[i].end \in Nat
          /\ cs[i].off = b[s + i - 1] - b[s] /\ o < b[s + i - 1] + cs[i].end
      BY <1>1, <2>2
    <3>2. soff >= cs[i].off /\ soff < cs[i].off + cs[i].end
      BY <1>2, <2>3, <3>1
    <3> HIDE DEF soff
    <3> QED BY <1>0, <3>1, <3>2
  <2> QED BY <2>4
<1>4. PICK i \in holds : \A j \in holds : i <= j
  <2>1. holds \subseteq Nat
    BY <1>0
  <2> HIDE DEF holds
  <2> QED BY <1>3, <2>1, Least
<1>5. (CHOOSE k \in holds : \A j \in holds : k <= j) = i
  <2>1. holds \subseteq Nat
    BY <1>0
  <2> HIDE DEF holds
  <2>2. \A k \in holds : (\A j \in holds : k <= j) => k = i
    <3> SUFFICES ASSUME NEW k \in holds, \A j \in holds : k <= j PROVE k = i
      OBVIOUS
    <3>1. k <= i /\ i <= k /\ k \in Nat /\ i \in Nat
      BY <1>4, <2>1
    <3> QED BY <3>1
  <2> QED BY <1>4, <2>2, Zenon
<1>6. ReadSuffix(cs, soff) =
        IF soff - cs[i].off < Len(F[cs[i].idx])
        THEN F[cs[i].idx][soff - cs[i].off + 1] ELSE Missing
  <2> HIDE DEF soff
  <2>1. ReadSuffix(cs, soff) =
          LET c == cs[CHOOSE k \in holds : \A j \in holds : k <= j]
          IN IF soff - c.off < Len(F[c.idx]) THEN F[c.idx][soff - c.off + 1] ELSE Missing
    BY <1>3 DEF ReadSuffix
  <2> HIDE DEF holds, F
  <2> QED BY <1>5, <2>1, Zenon
<1>7. i \in 1..n /\ soff >= cs[i].off /\ soff < cs[i].off + cs[i].end
  BY <1>0
<1>8. soff - cs[i].off = o - b[s + i - 1]
  BY SMTT(30), <1>1, <1>2, <1>7
<1>9. o - b[s + i - 1] + 1 \in 1..Len(F[s + i - 1]) /\ soff - cs[i].off < Len(F[s + i - 1])
  <2>1. /\ b[s + i - 1] \in Nat /\ Len(F[s + i - 1]) \in Nat /\ cs[i].end \in Nat
        /\ cs[i].off = b[s + i - 1] - b[s] /\ cs[i].end <= Len(F[s + i - 1])
    BY <1>1, <1>7
  <2>2. soff >= cs[i].off /\ soff < cs[i].off + cs[i].end
    BY <1>7
  <2>3. b[s + i - 1] <= o /\ o < b[s + i - 1] + cs[i].end
    <3> DEFINE p == b[s + i - 1]
               q == b[s]
               z == cs[i].end
    <3>1. o - q >= p - q /\ o - q < (p - q) + z /\ p \in Nat /\ q \in Nat /\ z \in Nat
      BY <1>2, <2>1, <2>2
    <3> HIDE DEF p, q, z
    <3>2. p <= o /\ o < p + z
      BY <3>1
    <3> QED BY <3>2 DEF p, z
  <2> DEFINE p == b[s + i - 1]
             z == cs[i].end
             f == Len(F[s + i - 1])
  <2>4. p <= o /\ o < p + z /\ p \in Nat /\ z \in Nat /\ f \in Nat /\ z <= f
    BY <2>1, <2>3
  <2> HIDE DEF p, z, f
  <2>5. o - p + 1 \in 1..f /\ o - p < f
    BY <2>4
  <2> HIDE DEF soff
  <2> QED BY <1>8, <2>5 DEF p, f
<1>10. F[s + i - 1][o - b[s + i - 1] + 1] = L[b[s + i - 1] + (o - b[s + i - 1] + 1)]
  BY <1>1, <1>7, <1>9 DEF Placed
<1>11. b[s + i - 1] + (o - b[s + i - 1] + 1) = o + 1
  BY SMTT(30), <1>1, <1>7
<1> QED
  <2> HIDE DEF soff, holds
  <2> QED BY <1>1, <1>6, <1>7, <1>8, <1>9, <1>10, <1>11 DEF soff

\* A view of the files s to t, the last of which has the e bytes.
Span(F, b, m, cs, s, t, e) ==
  /\ s \in Nat /\ t \in s..m /\ e \in Nat /\ e <= Len(F[t])
  /\ View(F, b, cs, s, t - s + 1, e)

LEMMA SpanIs ==
  ASSUME NEW F \in [0..MaxChunks -> Seq(Nat)], NEW L, NEW b \in Begins, NEW m,
         Placed(F, L, b, m), NEW cs, NEW s, NEW t, NEW e, Span(F, b, m, cs, s, t, e)
  PROVE  /\ m \in 0..MaxChunks /\ s \in Nat /\ t \in Nat /\ t <= m /\ e \in Nat
         /\ b[s] \in Nat /\ b[t] \in Nat /\ e <= Len(F[t])
         /\ t = s + (t - s + 1) - 1
         /\ View(F, b, cs, s, t - s + 1, e)
<1>1. m \in 0..MaxChunks
  BY DEF Placed
<1>2. s \in Nat /\ t \in s..m /\ e \in Nat /\ e <= Len(F[t]) /\ View(F, b, cs, s, t - s + 1, e)
  BY DEF Span
<1>3. t \in Nat /\ t <= m /\ t = s + (t - s + 1) - 1 /\ s \in 0..MaxChunks /\ t \in 0..MaxChunks
  BY <1>1, <1>2, Bounds
<1>4. b[s] \in Nat /\ b[t] \in Nat
  BY <1>3 DEF Begins
<1> QED BY <1>1, <1>2, <1>3, <1>4

LEMMA SpanEnds ==
  ASSUME NEW F \in [0..MaxChunks -> Seq(Nat)], NEW L, NEW b \in Begins, NEW m,
         Placed(F, L, b, m), NEW cs, NEW s, NEW t, NEW e, Span(F, b, m, cs, s, t, e)
  PROVE  EndSoff(cs) = b[t] - b[s] + e
<1> DEFINE n == t - s + 1
<1>1. /\ m \in 0..MaxChunks /\ s \in Nat /\ t \in Nat /\ t <= m /\ e \in Nat
      /\ b[s] \in Nat /\ b[t] \in Nat /\ e <= Len(F[t])
      /\ t = s + n - 1
      /\ View(F, b, cs, s, n, e)
  BY SpanIs
<1> HIDE DEF n
<1> QED BY SMTT(30), <1>1, EndOfView

LEMMA SpanReads ==
  ASSUME TypeOK, NEW L, NEW b \in Begins, NEW m, Placed(chunkFile, L, b, m),
         NEW cs, NEW s, NEW t, NEW e, Span(chunkFile, b, m, cs, s, t, e),
         NEW o \in Nat, b[s] <= o, o < b[t] + e
  PROVE  ReadSuffix(cs, o - b[s]) = L[o + 1]
<1> DEFINE n == t - s + 1
<1>0. chunkFile \in [0..MaxChunks -> Seq(Nat)]
  BY DEF TypeOK
<1>1. /\ m \in 0..MaxChunks /\ s \in Nat /\ t \in Nat /\ t <= m /\ e \in Nat
      /\ b[s] \in Nat /\ b[t] \in Nat /\ e <= Len(chunkFile[t])
      /\ t = s + n - 1
      /\ View(chunkFile, b, cs, s, n, e)
  BY <1>0, SpanIs
<1> HIDE DEF n
<1> QED BY <1>1, ReadThrough

\* o is below the end of a view whose last chunk, t, has e entries, and it is
\* live, or there is something to read.
Asked(b, p, cs, t, e, o) ==
  /\ o \in Nat /\ o < b[t] + e
  /\ o \in Live(p, b[t] + e) \/ Read(p, cs, p.gen, o) # Missing

\* A process with a rooted payload reads, below the end of its view, the entry
\* of the log, at every live offset and wherever it finds something.
LEMMA ReadsRight ==
  ASSUME TypeOK, NEW L, NEW b \in Begins, NEW m, Placed(chunkFile, L, b, m),
         NEW p \in Payload, Rooted(prefixFile, L, b, p),
         NEW cs, NEW t, NEW e, Span(chunkFile, b, m, cs, p.start, t, e),
         NEW o, Asked(b, p, cs, t, e, o)
  PROVE  Read(p, cs, p.gen, o) = L[o + 1]
<1> DEFINE s == p.start
           d == p.dead
           so == p.startOff
           tg == p.target
<1>0. chunkFile \in [0..MaxChunks -> Seq(Nat)]
  BY DEF TypeOK
<1>1. /\ m \in 0..MaxChunks /\ s \in Nat /\ t \in Nat /\ t <= m /\ e \in Nat
      /\ b[s] \in Nat /\ b[t] \in Nat /\ e <= Len(chunkFile[t])
      /\ t = s + (t - s + 1) - 1
      /\ View(chunkFile, b, cs, s, t - s + 1, e)
  BY <1>0, SpanIs
<1>2. d \in Nat /\ p.gen \in Nat /\ so \in Nat /\ tg \in Int
  BY DEF Payload
<1>3. so = b[s] + d /\ so \in {tg, tg + 1}
  BY DEF Rooted
<1>4. o \in Nat /\ o < b[t] + e
  BY DEF Asked
<1>5. CASE o >= so
  <2> HIDE DEF s, d, so, tg
  <2>1. o - so + d = o - b[s] /\ b[s] <= o
    BY SMTT(30), <1>1, <1>2, <1>3, <1>4, <1>5
  <2>2. SoffOfOffset(p, o) = o - b[s]
    BY <2>1 DEF SoffOfOffset, so, d
  <2>3. Read(p, cs, p.gen, o) = ReadSuffix(cs, o - b[s])
    BY <1>5, <2>2 DEF Read, so
  <2>4. ReadSuffix(cs, o - b[s]) = L[o + 1]
    BY <1>4, <2>1, SpanReads DEF s
  <2> QED BY <2>1, <2>3, <2>4
<1>6. CASE ~ (o >= so)
  <2>1. Read(p, cs, p.gen, o) =
          IF p.gen # 0 /\ o \in DOMAIN prefixFile[p.gen] THEN prefixFile[p.gen][o] ELSE Missing
    BY <1>6 DEF Read
  <2>2. tg # -1 /\ ~ (o > tg)
    <3> HIDE DEF s, d, so, tg
    <3> QED BY <1>2, <1>3, <1>4, <1>6
  <2>3. p.gen # 0 /\ Copied(prefixFile, L, p.gen, p.target)
    BY <2>2 DEF Rooted
  <2>4. o \in Needs[p.target]
    <3>1. CASE o \in Live(p, b[t] + e)
      BY <2>2, <3>1 DEF Live
    <3>2. CASE Read(p, cs, p.gen, o) # Missing
      BY <2>1, <2>3, <3>2 DEF Copied
    <3> QED BY <3>1, <3>2 DEF Asked
  <2> QED BY <2>1, <2>3, <2>4 DEF Copied
<1> QED BY <1>5, <1>6

\* So what such a process answers is right.
LEMMA AnswersRight ==
  ASSUME TypeOK, NEW b \in Begins, NEW m, Placed(chunkFile, log, b, m),
         NEW p \in Payload, Rooted(prefixFile, log, b, p),
         NEW cs, NEW t, NEW e, Span(chunkFile, b, m, cs, p.start, t, e),
         NEW w, Len(w) \in Nat, NEW end, end = b[t] + e
  PROVE  Answers(p, cs, p.gen, w, end)
<1> DEFINE s == p.start
           d == p.dead
           so == p.startOff
           l == Len(w)
<1>1. EndOffset(p, cs, w) = end + Len(w)
  <2>a. chunkFile \in [0..MaxChunks -> Seq(Nat)]
    BY DEF TypeOK
  <2>b. /\ m \in 0..MaxChunks /\ s \in Nat /\ t \in Nat /\ t <= m /\ e \in Nat
        /\ b[s] \in Nat /\ b[t] \in Nat /\ e <= Len(chunkFile[t])
        /\ t = s + (t - s + 1) - 1
        /\ View(chunkFile, b, cs, s, t - s + 1, e)
    BY <2>a, SpanIs
  <2>c. EndSoff(cs) = b[t] - b[s] + e
    BY <2>a, SpanEnds
  <2>1. b[s] \in Nat /\ b[t] \in Nat /\ e \in Nat /\ EndSoff(cs) = b[t] - b[s] + e
    BY <2>b, <2>c
  <2>2. d \in Nat /\ so \in Nat /\ l \in Nat
    BY DEF Payload
  <2>3. so = b[s] + d
    BY DEF Rooted
  <2>4. EndOffset(p, cs, w) = so + (EndSoff(cs) + l) - d
    BY DEF EndOffset, OffsetOfSoff
  <2> HIDE DEF s, d, so, l
  <2>5. EndOffset(p, cs, w) = end + l
    BY SMTT(30), <2>1, <2>2, <2>3, <2>4
  <2> QED BY <2>5 DEF l
<1>2. ASSUME NEW o \in Live(p, end) PROVE Read(p, cs, p.gen, o) = log[o + 1]
  <2>1. b[t] \in Nat /\ e \in Nat
    BY SpanIs DEF TypeOK
  <2>2. o \in 0..end - 1
    BY DEF Live
  <2>3. Asked(b, p, cs, t, e, o)
    BY <2>1, <2>2 DEF Asked
  <2> HIDE DEF s, d, so, l
  <2> QED BY <2>3, ReadsRight
<1> QED BY <1>1, <1>2 DEF Answers
-----------------------------------------------------------------------------
(* What the invariant gives. *)

LEMMA PayloadShape ==
  ASSUME NEW p \in Payload
  PROVE  /\ p.start \in Nat /\ p.num \in Nat \ {0} /\ p.poff \in Nat /\ p.gen \in Nat
         /\ p.target \in Int /\ p.startOff \in Nat /\ p.dead \in Nat
         /\ Top(p) \in Nat /\ p.start <= Top(p) /\ Top(p) = p.start + p.num - 1
<1>1. /\ p.start \in Nat /\ p.num \in Nat \ {0} /\ p.poff \in Nat /\ p.gen \in Nat
      /\ p.target \in Int /\ p.startOff \in Nat /\ p.dead \in Nat
  BY DEF Payload
<1> QED BY <1>1 DEF Top

\* The files up to t have lengths.
Sized(F, t) == \A i \in 0..t : Len(F[i]) \in Nat

LEMMA Shapes ==
  ASSUME Types, NEW b \in Begins, Core(b)
  PROVE  /\ chunkFile \in [0..MaxChunks -> Seq(Nat)] /\ control \in Payload
         /\ LastFile \in 0..MaxChunks /\ Top(control) \in 0..LastFile
         /\ LastFile = IF pc = "split" THEN Top(control) + 1 ELSE Top(control)
         /\ Sized(chunkFile, LastFile) /\ Sized(chunkFile, Top(control))
         /\ b[LastFile] \in Nat /\ Len(chunkFile[LastFile]) \in Nat
         /\ control.start \in Nat /\ control.num \in Nat \ {0}
         /\ control.start \in 0..Top(control)
         /\ log \in Seq(Nat) /\ Len(log) \in Nat /\ published \in 0..Len(log)
         /\ buf \in Seq(Nat) /\ Len(buf) \in Nat
<1> USE Bounds
<1>1. /\ chunkFile \in [0..MaxChunks -> Seq(Nat)] /\ control \in Payload
      /\ log \in Seq(Nat) /\ published \in 0..Len(log) /\ buf \in Seq(Nat)
  BY DEF Types, TypeOK
<1>2. control.start \in Nat /\ control.num \in Nat \ {0}
  BY <1>1 DEF Payload
<1>3. LastFile \in 0..MaxChunks
  BY DEF Core, Placed
<1>4. Top(control) \in 0..LastFile /\ control.start \in 0..Top(control)
  BY <1>2 DEF LastFile, Top
<1>5. b[LastFile] \in Nat /\ Len(chunkFile[LastFile]) \in Nat
  BY <1>1, <1>3 DEF Begins
<1>6. ASSUME NEW t \in 0..MaxChunks PROVE Sized(chunkFile, t)
  <2> SUFFICES ASSUME NEW i \in 0..t PROVE Len(chunkFile[i]) \in Nat
    BY DEF Sized
  <2>1. i \in 0..MaxChunks
    OBVIOUS
  <2> QED BY <1>1, <2>1
<1>7. Sized(chunkFile, LastFile) /\ Sized(chunkFile, Top(control))
  <2>1. Top(control) \in 0..MaxChunks
    BY <1>3, <1>4
  <2> QED BY <1>3, <1>6, <2>1
<1> QED BY SMTT(30), <1>1, <1>2, <1>3, <1>4, <1>5, <1>7 DEF LastFile

LEMMA InvWriterReads ==
  ASSUME Types, NEW b \in Begins, Core(b) PROVE WriterReads
<1> USE Bounds
<1>0. SUFFICES ASSUME pc # "down"
               PROVE  Answers(payload, chunks, payload.gen, buf, Len(log) - Len(buf))
  BY DEF WriterReads
<1> DEFINE n == LastFile - control.start + 1
           e == Len(chunkFile[LastFile])
<1>1. /\ payload = control
      /\ View(chunkFile, b, chunks, payload.start, n, e)
      /\ b[LastFile] + e + Len(buf) = Len(log)
  BY <1>0 DEF Core, Main
<1>s. /\ LastFile \in Nat /\ LastFile \in 0..LastFile /\ control.start \in 0..LastFile
      /\ Len(log) \in Nat /\ Len(buf) \in Nat
  BY Shapes
<1>2. e \in Nat /\ b[LastFile] \in Nat
  BY Shapes
<1>3. Len(log) - Len(buf) = b[LastFile] + e
  <2> DEFINE x == Len(log)
             y == Len(buf)
  <2>1. x \in Nat /\ y \in Nat /\ b[LastFile] + e + y = x
    BY <1>1, <1>s
  <2> HIDE DEF x, y, e
  <2>2. x - y = b[LastFile] + e
    BY <1>2, <2>1
  <2> QED BY <2>2 DEF x, y
<1>4. Placed(chunkFile, log, b, LastFile) /\ Rooted(prefixFile, log, b, payload)
      /\ TypeOK /\ payload \in Payload /\ Len(buf) \in Nat
  BY <1>1, <1>s DEF Core, Sound, Types, TypeOK
<1>5. Span(chunkFile, b, LastFile, chunks, payload.start, LastFile, e)
  <2>1. payload.start \in Nat /\ LastFile \in payload.start..LastFile
    BY <1>1, <1>s
  <2>2. e <= Len(chunkFile[LastFile])
    BY <1>2
  <2> HIDE DEF e
  <2> QED BY <1>1, <1>2, <2>1, <2>2 DEF Span
<1> HIDE DEF n, e
<1> QED BY <1>1, <1>3, <1>4, <1>5, AnswersRight

LEMMA SoundSpan ==
  ASSUME Types, NEW b \in Begins, Core(b), NEW p \in Payload, NEW n, NEW cs,
         Sound(chunkFile, prefixFile, log, b, control, published, p, n),
         View(chunkFile, b, cs, p.start, p.num, p.poff)
  PROVE  Span(chunkFile, b, LastFile, cs, p.start, Top(p), p.poff)
<1>1. /\ p.start \in Nat /\ p.num \in Nat /\ p.poff \in Nat
      /\ Top(p) \in Nat /\ p.start <= Top(p) /\ Top(p) = p.start + p.num - 1
  BY PayloadShape
<1>2. Top(p) - p.start + 1 = p.num
  BY <1>1
<1>3. Top(p) \in p.start..LastFile
  <2>1. Top(p) <= Top(control)
    BY DEF Sound
  <2>2. Top(control) \in Nat /\ LastFile \in Nat /\ Top(control) <= LastFile
    BY Shapes
  <2> QED BY <1>1, <2>1, <2>2
<1>4. p.poff <= Len(chunkFile[Top(p)])
  BY DEF Sound
<1> QED BY <1>1, <1>2, <1>3, <1>4 DEF Span

\* A payload that was once in the control file, with a view of its chunks.
LEMMA SoundReads ==
  ASSUME Types, NEW b \in Begins, Core(b), NEW p \in Payload, NEW n, NEW cs,
         Sound(chunkFile, prefixFile, log, b, control, published, p, n),
         View(chunkFile, b, cs, p.start, p.num, p.poff)
  PROVE  Answers(p, cs, p.gen, << >>, n)
<1> USE Bounds
<1>1. /\ n = b[Top(p)] + p.poff /\ Rooted(prefixFile, log, b, p)
      /\ Placed(chunkFile, log, b, LastFile) /\ TypeOK /\ Len(<< >>) \in Nat
  BY DEF Sound, Core, Types
<1>2. Span(chunkFile, b, LastFile, cs, p.start, Top(p), p.poff)
  BY SoundSpan
<1> QED BY <1>1, <1>2, AnswersRight

LEMMA InvReaderReads ==
  ASSUME Types, NEW b \in Begins, Core(b) PROVE ReaderReads
<1>0. SUFFICES ASSUME roPc = "ready"
               PROVE  Answers(roPayload, roChunks, roPrefix, << >>, roLen)
  BY DEF ReaderReads
<1>1. /\ Sound(chunkFile, prefixFile, log, b, control, published, roPayload, roLen)
      /\ View(chunkFile, b, roChunks, roPayload.start, roPayload.num, roPayload.poff)
      /\ roPrefix = roPayload.gen
  BY <1>0 DEF Core, Reader
<1>2. roPayload \in Payload
  BY DEF Types, TypeOK
<1> QED BY <1>1, <1>2, SoundReads

LEMMA ControlView ==
  ASSUME Types, NEW b \in Begins, Core(b)
  PROVE  View(chunkFile, b, Inventory(control.start, control.num, control.poff),
              control.start, control.num, control.poff)
<1> USE Bounds
<1>1. control.start + control.num - 1 <= LastFile
  BY Shapes DEF Top
<1>2. TypeOK /\ Placed(chunkFile, log, b, LastFile)
  BY DEF Types, Core
<1>3. control.start \in Nat /\ control.num \in Nat \ {0} /\ control.poff \in Nat
  BY <1>2 DEF TypeOK, Payload
<1> QED BY <1>1, <1>2, <1>3, InventoryIsView

LEMMA InvPublishedReads ==
  ASSUME Types, Names, NEW b \in Begins, Core(b) PROVE PublishedReads
<1> USE Bounds
<1>1. Sound(chunkFile, prefixFile, log, b, control, published, control, published)
  BY DEF Core
<1>2. control \in Payload
  BY DEF Types, TypeOK
<1>3. Answers(control, PublishedInventory, control.gen, << >>, published)
  BY <1>1, <1>2, ControlView, SoundReads DEF PublishedInventory
<1>4. CanOpen(control.start, control.num, control.poff)
  <2>1. control.start..control.start + control.num - 1 \subseteq chunkNames
    <3>1. control.start..LastFile \subseteq chunkNames
      BY DEF Names
    <3>2. control.start + control.num - 1 <= LastFile /\ LastFile \in Nat
          /\ control.start \in Nat /\ control.num \in Nat
      BY Shapes DEF Top
    <3> QED BY <3>1, <3>2
  <2>2. control.poff <= Len(chunkFile[control.start + control.num - 1])
    BY <1>1 DEF Sound, Top
  <2> QED BY <2>1, <2>2 DEF CanOpen
<1>5. control.gen \in prefixNames \cup {0}
  BY DEF Names
<1> QED BY <1>3, <1>4, <1>5 DEF PublishedReads

LEMMA InvResidue ==
  ASSUME Types, Residue, NEW b \in Begins, Core(b) PROVE ResidueBounded
<1>1. SUFFICES ASSUME pc = "ready", gcPc = "none", unlinking = {}, unlinkingPrefix = {}
               PROVE  /\ chunkNames \subseteq payload.start..payload.start + payload.num
                      /\ prefixNames \subseteq {payload.gen}
  BY DEF ResidueBounded
<1>2. payload = control
  BY <1>1 DEF Core, Main
<1> QED BY <1>1, <1>2 DEF Residue
-----------------------------------------------------------------------------
(* What later steps leave of an older view. *)

\* From one state (F, P, L, b, c, q) to the next.
Later(F, P, L, b, c, q, F2, P2, L2, b2, c2, q2) ==
  /\ \A i \in 0..Top(c) : b2[i] = b[i] /\ Len(F[i]) <= Len(F2[i])
  /\ \A i \in 0..Top(c) - 1 : F2[i] = F[i]
  /\ \A g \in 1..c.gen : P2[g] = P[g]
  /\ q <= q2 /\ q <= Len(L2) /\ Same(L, L2, q)
  /\ Top(c) <= Top(c2) /\ c.start <= c2.start /\ c.gen <= c2.gen
  /\ c.gen = c2.gen => c.start = c2.start

LEMMA ViewStays ==
  ASSUME NEW F, NEW F2, NEW b, NEW b2, NEW t \in Nat,
         \A i \in 0..t : b2[i] = b[i], \A i \in 0..t - 1 : F2[i] = F[i],
         NEW cs, NEW s, NEW n, NEW e, View(F, b, cs, s, n, e), s + n - 1 <= t
  PROVE  View(F2, b2, cs, s, n, e)
<1>1. n \in Nat \ {0} /\ s \in Nat
  BY DEF View
<1>2. \A i \in 1..n : s + i - 1 \in 0..t /\ s \in 0..t
  BY <1>1
<1>3. \A i \in 1..n - 1 : s + i - 1 \in 0..t - 1
  BY <1>1
<1>4. \A i \in 1..n : cs[i].idx = s + i - 1 /\ cs[i].off = b2[s + i - 1] - b2[s]
  BY <1>2 DEF View
<1>5. \A i \in 1..n - 1 : cs[i].end = Len(F2[s + i - 1])
  BY <1>3 DEF View
<1> QED BY <1>4, <1>5 DEF View

LEMMA CopiedStays ==
  ASSUME NEW P, NEW P2, NEW L, NEW L2, NEW q \in Nat, NEW g, NEW t,
         Copied(P, L, g, t), P2[g] = P[g], t < q, q <= Len(L2), Len(L2) \in Nat,
         Same(L, L2, q)
  PROVE  Copied(P2, L2, g, t)
<1> USE Bounds
<1>1. t \in Offsets /\ t \in Nat
  BY DEF Copied, Offsets
<1>2. \A o \in Needs[t] : o \in 0..t
  BY <1>1, ConstantsAssumption
<1>3. \A o \in Needs[t] : o + 1 \in 1..q /\ o < Len(L2)
  BY <1>1, <1>2
<1> QED BY <1>3 DEF Copied, Same

LEMMA SoundStays ==
  ASSUME NEW F, NEW F2, NEW P, NEW P2, NEW L, NEW L2, NEW b, NEW b2,
         NEW c \in Payload, NEW c2 \in Payload, NEW q \in Nat, NEW q2 \in Nat,
         Later(F, P, L, b, c, q, F2, P2, L2, b2, c2, q2),
         Sized(F, Top(c)), Sized(F2, Top(c)), Len(L2) \in Nat,
         NEW p \in Payload, NEW n, Sound(F, P, L, b, c, q, p, n)
  PROVE  Sound(F2, P2, L2, b2, c2, q2, p, n)
<1> USE Bounds
<1>1. /\ p.start \in Nat /\ p.num \in Nat \ {0} /\ p.gen \in Nat /\ c.gen \in Nat
      /\ p.poff \in Nat /\ p.target \in Int
      /\ c.start \in Nat /\ c.num \in Nat \ {0} /\ c2.gen \in Nat /\ c2.start \in Nat
      /\ c2.num \in Nat \ {0}
  BY DEF Payload
<1>2. Top(p) \in 0..Top(c) /\ p.start \in 0..Top(c)
  <2>1. Top(p) <= Top(c)
    BY DEF Sound
  <2>2. Top(p) \in Nat /\ p.start <= Top(p) /\ Top(c) \in Nat
    BY PayloadShape
  <2> QED BY <1>1, <2>1, <2>2
<1>3. /\ b2[Top(p)] = b[Top(p)] /\ b2[p.start] = b[p.start]
      /\ Len(F[Top(p)]) <= Len(F2[Top(p)])
      /\ Len(F[Top(p)]) \in Nat /\ Len(F2[Top(p)]) \in Nat
  BY <1>2 DEF Later, Sized
<1>4. Top(p) <= Top(c2)
  <2>1. Top(p) <= Top(c) /\ Top(c) <= Top(c2)
    BY DEF Sound, Later
  <2>2. Top(p) \in Nat /\ Top(c) \in Nat /\ Top(c2) \in Nat
    BY PayloadShape
  <2> QED BY <2>1, <2>2
<1>5. n \in 0..q2 /\ n = b2[Top(p)] + p.poff /\ p.poff <= Len(F2[Top(p)])
  <2>1. n \in 0..q /\ n = b[Top(p)] + p.poff /\ p.poff <= Len(F[Top(p)])
    BY DEF Sound
  <2>2. q <= q2
    BY DEF Later
  <2>3. p.poff <= Len(F2[Top(p)])
    BY SMTT(30), <1>1, <1>3, <2>1
  <2> QED BY <1>3, <2>1, <2>2, <2>3
<1>6. Rooted(P2, L2, b2, p)
  <2>1. SUFFICES ASSUME p.gen # 0 PROVE Copied(P2, L2, p.gen, p.target)
    BY <1>3 DEF Rooted, Sound
  <2>2. Copied(P, L, p.gen, p.target) /\ p.target < n /\ n <= q /\ n \in Nat
    BY <2>1 DEF Sound, Rooted
  <2>3. p.gen \in 1..c.gen
    BY <1>1, <2>1 DEF Sound
  <2>4. P2[p.gen] = P[p.gen] /\ q <= Len(L2) /\ Same(L, L2, q)
    BY <2>3 DEF Later
  <2>5. p.target < q
    <3>1. p.target \in Int
      BY PayloadShape
    <3> QED BY <2>2, <3>1
  <2>6. Len(L2) \in Nat /\ q \in Nat
    OBVIOUS
  <2> QED BY <2>2, <2>4, <2>5, <2>6, CopiedStays
<1>7. p.target < n
  BY DEF Sound
<1>8. /\ p.gen <= c2.gen /\ p.start <= c2.start
      /\ p.gen = c2.gen => p.start = c2.start
  <2>1. /\ p.gen <= c.gen /\ p.start <= c.start
        /\ p.gen = c.gen => p.start = c.start
    BY DEF Sound
  <2>2. /\ c.gen <= c2.gen /\ c.start <= c2.start
        /\ c.gen = c2.gen => c.start = c2.start
    BY DEF Later
  <2> QED BY SMTT(30), <1>1, <2>1, <2>2
<1> QED BY <1>4, <1>5, <1>6, <1>7, <1>8 DEF Sound

\* What a step that no view notices is: Later, between well-typed states.
LEMMA LaterTypes ==
  ASSUME Types, Types', NEW b \in Begins, Core(b)
  PROVE  /\ control \in Payload /\ control' \in Payload
         /\ published \in Nat /\ published' \in Nat
         /\ Sized(chunkFile, Top(control)) /\ Sized(chunkFile', Top(control))
         /\ Len(log') \in Nat /\ Top(control) \in Nat
<1> USE Bounds
<1>1. /\ control \in Payload /\ control' \in Payload /\ log' \in Seq(Nat)
      /\ chunkFile \in [0..MaxChunks -> Seq(Nat)] /\ chunkFile' \in [0..MaxChunks -> Seq(Nat)]
      /\ published' \in 0..Len(log') /\ published \in 0..Len(log) /\ log \in Seq(Nat)
  BY DEF Types, TypeOK
<1>2. Top(control) \in 0..MaxChunks /\ Sized(chunkFile, Top(control))
  BY Shapes
<1>3. Sized(chunkFile', Top(control))
  <2> SUFFICES ASSUME NEW i \in 0..Top(control) PROVE Len(chunkFile'[i]) \in Nat
    BY DEF Sized
  <2>1. i \in 0..MaxChunks
    BY <1>2
  <2> QED BY <1>1, <2>1
<1> QED BY <1>1, <1>2, <1>3

LEMMA GcStays ==
  ASSUME Types, Types', NEW b \in Begins, Core(b), NEW b2,
         Later(chunkFile, prefixFile, log, b, control, published,
               chunkFile', prefixFile', log', b2, control', published'),
         UNCHANGED <<gcVars, prefixFile>>,
         control'.gen = control.gen, control'.target = control.target,
         control'.startOff = control.startOff
  PROVE  Gc(b2)'
<1> USE Bounds
<1>0. /\ gcPc' = gcPc /\ gcTarget' = gcTarget /\ gcStart' = gcStart
      /\ gcPayload' = gcPayload /\ gcChunks' = gcChunks
  BY DEF gcVars
<1>g. Gc(b)
  BY DEF Core
<1>1. /\ published <= published' /\ published \in Nat /\ published' \in Nat
      /\ published <= Len(log') /\ Same(log, log', published)
      /\ Len(log') \in Nat
  BY LaterTypes DEF Later
<1>2. ASSUME gcPc' # "none"
      PROVE  /\ control'.gen < MaxGcs /\ gcTarget' \in 0..published' - 1
             /\ control'.target < gcTarget' /\ gcStart' \in {gcTarget', gcTarget' + 1}
             /\ gcStart' >= control'.startOff
  BY <1>0, <1>g, <1>1, <1>2 DEF Gc
<1>3. ASSUME gcPc' \in {"opened", "done"}
      PROVE  \E n \in Nat :
         /\ Sound(chunkFile', prefixFile', log', b2, control', published', gcPayload', n)
         /\ gcTarget' < n /\ gcPayload'.gen = control'.gen
         /\ gcPayload'.startOff = control'.startOff
         /\ View(chunkFile', b2, gcChunks', gcPayload'.start, gcPayload'.num, gcPayload'.poff)
  <2>1. PICK n \in Nat :
         /\ Sound(chunkFile, prefixFile, log, b, control, published, gcPayload, n)
         /\ gcTarget < n /\ gcPayload.gen = control.gen
         /\ gcPayload.startOff = control.startOff
         /\ View(chunkFile, b, gcChunks, gcPayload.start, gcPayload.num, gcPayload.poff)
    BY <1>0, <1>g, <1>3 DEF Gc
  <2>2. gcPayload \in Payload
    BY DEF Types, TypeOK
  <2>3. Sound(chunkFile', prefixFile', log', b2, control', published', gcPayload, n)
    BY <2>1, <2>2, LaterTypes, SoundStays
  <2>4. View(chunkFile', b2, gcChunks, gcPayload.start, gcPayload.num, gcPayload.poff)
    <3>1. /\ \A i \in 0..Top(control) : b2[i] = b[i]
          /\ \A i \in 0..Top(control) - 1 : chunkFile'[i] = chunkFile[i]
      BY DEF Later
    <3>2. gcPayload.start + gcPayload.num - 1 <= Top(control) /\ Top(control) \in Nat
      BY <2>1, LaterTypes DEF Sound, Top
    <3> QED BY <2>1, <3>1, <3>2, ViewStays
  <2> QED BY <1>0, <2>1, <2>3, <2>4
<1>4. ASSUME gcPc' = "done"
      PROVE  Copied(prefixFile', log', control'.gen + 1, gcTarget')
  <2> DEFINE g == control.gen + 1
  <2>1. Copied(prefixFile, log, g, gcTarget) /\ gcTarget \in 0..published - 1
    BY <1>0, <1>g, <1>4 DEF Gc
  <2>2. gcTarget < published
    BY <1>1, <2>1
  <2> HIDE DEF g
  <2>3. prefixFile'[g] = prefixFile[g]
    OBVIOUS
  <2>4. Copied(prefixFile', log', g, gcTarget)
    BY <1>1, <2>1, <2>2, <2>3, CopiedStays
  <2> QED BY <1>0, <2>4 DEF g
<1> QED BY <1>2, <1>3, <1>4 DEF Gc

LEMMA ReaderStays ==
  ASSUME Types, Types', NEW b \in Begins, Core(b), NEW b2,
         Later(chunkFile, prefixFile, log, b, control, published,
               chunkFile', prefixFile', log', b2, control', published'),
         UNCHANGED roVars
  PROVE  Reader(b2)'
<1> USE Bounds
<1>0. /\ roPc' = roPc /\ roPayload' = roPayload /\ roChunks' = roChunks
      /\ roPrefix' = roPrefix /\ roStale' = roStale /\ roLen' = roLen
  BY DEF roVars
<1>r. Reader(b)
  BY DEF Core
<1>p. roPayload \in Payload
  BY DEF Types, TypeOK
<1>1. ASSUME roPc \notin {"down", "refused"}
      PROVE  /\ Sound(chunkFile, prefixFile, log, b, control, published, roPayload, roLen)
             /\ Sound(chunkFile', prefixFile', log', b2, control', published', roPayload, roLen)
  <2>1. Sound(chunkFile, prefixFile, log, b, control, published, roPayload, roLen)
    BY <1>1, <1>r DEF Reader
  <2> QED BY <1>p, <2>1, LaterTypes, SoundStays
<1>2. ASSUME roPc \notin {"down", "refused"}, NEW e,
             View(chunkFile, b, roChunks, roPayload.start, roPayload.num, e)
      PROVE  View(chunkFile', b2, roChunks, roPayload.start, roPayload.num, e)
  <2>1. /\ \A i \in 0..Top(control) : b2[i] = b[i]
        /\ \A i \in 0..Top(control) - 1 : chunkFile'[i] = chunkFile[i]
    BY DEF Later
  <2>2. roPayload.start + roPayload.num - 1 <= Top(control) /\ Top(control) \in Nat
    BY <1>1, <1>2, LaterTypes DEF Sound, Top
  <2> QED BY <1>2, <2>1, <2>2, ViewStays
<1>3. ASSUME roPc \notin {"down", "refused"}, Opened(b) PROVE Opened(b2)'
  <2>1. PICK e \in Nat : View(chunkFile, b, roChunks, roPayload.start, roPayload.num, e)
    BY <1>3 DEF Opened
  <2> QED BY <1>0, <1>2, <1>3, <2>1 DEF Opened
<1>4. /\ roPc \in {"down", "refused"} => roPrefix = 0
      /\ roPc = "openSuffix" => "suffix" \in roStale
      /\ roPc \in {"openPrefix", "prefix"} => Opened(b2)'
      /\ roPc = "suffix" => ("suffix" \in roStale \/ Opened(b2)')
      /\ roPc \in {"openSuffix", "openPrefix", "suffix", "prefix"} =>
           ("prefix" \in roStale \/ roPrefix = roPayload.gen)
      /\ "prefix" \in roStale => roPayload.gen # 0
  BY <1>r, <1>3 DEF Reader
<1>5. roPc = "ready" =>
        /\ View(chunkFile', b2, roChunks, roPayload.start, roPayload.num, roPayload.poff)
        /\ roPrefix = roPayload.gen
  BY <1>r, <1>2 DEF Reader
<1>6. roPc = "failed" =>
        /\ roPayload.gen < control'.gen
        /\ Opened(b2)' \/ roPayload.start < control'.start
  <2>1. control.gen <= control'.gen /\ control.start <= control'.start
    BY DEF Later
  <2>2. /\ control.gen \in Nat /\ control'.gen \in Nat /\ control.start \in Nat
        /\ control'.start \in Nat /\ roPayload.gen \in Nat /\ roPayload.start \in Nat
    BY <1>p, LaterTypes DEF Payload
  <2>3. roPc = "failed" => /\ roPayload.gen < control.gen
                           /\ Opened(b) \/ roPayload.start < control.start
    BY <1>r DEF Reader
  <2> QED BY <1>3, <2>1, <2>2, <2>3
<1> QED BY <1>0, <1>1, <1>4, <1>5, <1>6 DEF Reader
-----------------------------------------------------------------------------
(* The steps of the reader. *)

\* They leave everything else alone.
LEMMA ReaderFrame ==
  ASSUME Names, Residue, NEW b \in Begins, Core(b),
         UNCHANGED <<fileVars, rwVars, gcVars, logVars, crashes>>, Reader(b)'
  PROVE  Names' /\ Residue' /\ Core(b)'
<1> USE DEF fileVars, rwVars, gcVars, logVars
<1>1. LastFile' = LastFile
  BY DEF LastFile
<1>2. Placed(chunkFile, log, b, LastFile)'
  BY <1>1 DEF Core
<1>3. Sound(chunkFile, prefixFile, log, b, control, published, control, published)'
  BY DEF Core
<1>4. Main(b)'
  BY <1>1 DEF Core, Main
<1>5. Gc(b)'
  BY DEF Core, Gc
<1>6. Names'
  BY <1>1 DEF Names
<1>7. Residue'
  BY DEF Residue
<1> QED BY <1>2, <1>3, <1>4, <1>5, <1>6, <1>7 DEF Core

RoTyped ==
  /\ roPc \in {"down", "refused", "openSuffix", "openPrefix", "suffix",
                "prefix", "ready", "failed"}
  /\ roPayload \in Payload /\ roChunks \in Seq(Chunk) /\ roPrefix \in 0..MaxGcs
  /\ roStale \subseteq {"suffix", "prefix"} /\ roLen \in Nat

LEMMA RoTypes ==
  ASSUME Types, UNCHANGED <<fileVars, rwVars, gcVars, logVars, crashes>>, RoTyped'
  PROVE  Types'
<1> USE DEF fileVars, rwVars, gcVars, logVars
<1> QED BY DEF Types, TypeOK, RoTyped

LEMMA NewStoreTyped == NewStore \in Payload /\ << >> \in Seq(Chunk)
<1>1. << >> \in Seq(Chunk)
  OBVIOUS
<1> QED BY <1>1 DEF NewStore, Payload

LEMMA RoOpenControlStep ==
  ASSUME Types, NEW b \in Begins, Core(b), RoOpenControl
  PROVE  RoTyped' /\ Reader(b)'
<1> USE Bounds
<1>1. control \in Payload /\ published \in Nat
  <2>1. control \in Payload /\ published \in 0..Len(log) /\ log \in Seq(Nat)
    BY DEF Types, TypeOK
  <2> QED BY <2>1
<1>2. RoTyped'
  <2>1. roStale' \subseteq {"suffix", "prefix"}
    BY DEF RoOpenControl
  <2> QED BY <1>1, <2>1 DEF Types, TypeOK, RoTyped, RoOpenControl
<1>3. /\ roPc' = "openSuffix" /\ roPayload' = control /\ roLen' = published
      /\ roStale' = {"suffix"} \cup (IF control.gen = 0 THEN {} ELSE {"prefix"})
      /\ roPrefix' = roPrefix /\ roPrefix = 0
  BY DEF RoOpenControl, Core, Reader
<1>4. Sound(chunkFile, prefixFile, log, b, control, published, roPayload, roLen)'
  <2>1. UNCHANGED <<chunkFile, prefixFile, log, control, published>>
    BY DEF RoOpenControl, fileVars, logVars
  <2> QED BY <1>3, <2>1 DEF Core
<1>5. ("prefix" \in roStale' \/ roPrefix' = roPayload'.gen)
      /\ ("prefix" \in roStale' => roPayload'.gen # 0)
  BY <1>3
<1> QED BY <1>2, <1>3, <1>4, <1>5 DEF Reader

LEMMA RoReloadControlStep ==
  ASSUME Types, NEW b \in Begins, Core(b), RoReloadControl
  PROVE  RoTyped' /\ Reader(b)'
<1> USE Bounds
<1>1. control \in Payload /\ published \in Nat /\ roPayload \in Payload
  <2>1. control \in Payload /\ published \in 0..Len(log) /\ log \in Seq(Nat) /\ roPayload \in Payload
    BY DEF Types, TypeOK
  <2> QED BY <2>1
<1>t. control.gen \in Nat /\ roPayload.gen \in Nat /\ control.start \in Nat /\ roPayload.start \in Nat
  BY <1>1 DEF Payload
<1>2. RoTyped'
  <2>1. roStale' \subseteq {"suffix", "prefix"}
    BY DEF RoReloadControl, Stale
  <2> QED BY <1>1, <2>1 DEF Types, TypeOK, RoTyped, RoReloadControl
<1>3. /\ roPc' = "suffix" /\ roPayload' = control /\ roLen' = published
      /\ roStale' = Stale(roPayload, control)
      /\ roPrefix' = roPrefix /\ roChunks' = roChunks /\ roPc \in {"ready", "failed"}
  BY DEF RoReloadControl
<1>4. Sound(chunkFile, prefixFile, log, b, control, published, roPayload, roLen)'
  <2>1. UNCHANGED <<chunkFile, prefixFile, log, control, published>>
    BY DEF RoReloadControl, fileVars, logVars
  <2> QED BY <1>3, <2>1 DEF Core
<1>r. Reader(b) /\ roPayload.gen <= control.gen
  <2>1. Reader(b)
    BY DEF Core
  <2>2. Sound(chunkFile, prefixFile, log, b, control, published, roPayload, roLen)
    BY <1>3, <2>1 DEF Reader
  <2> QED BY <2>1, <2>2 DEF Sound
<1>5. "prefix" \in roStale' \/ roPrefix' = roPayload'.gen
  <2>1. roPayload.gen # control.gen => "prefix" \in roStale'
    BY <1>3 DEF Stale
  <2>2. roPayload.gen = control.gen => roPc = "ready"
    BY <1>3, <1>r, <1>t DEF Reader
  <2>3. roPc = "ready" => roPrefix = roPayload.gen
    BY <1>r DEF Reader
  <2> QED BY <1>3, <2>1, <2>2, <2>3
<1>6. "prefix" \in roStale' => roPayload'.gen # 0
  <2>1. "prefix" \in roStale' => roPayload.gen # control.gen
    BY <1>3 DEF Stale
  <2> QED BY <1>3, <1>r, <1>t, <2>1
<1>7. "suffix" \in roStale' \/ Opened(b)'
  <2>1. SUFFICES ASSUME "suffix" \notin roStale' PROVE Opened(b)'
    OBVIOUS
  <2>2. roPayload.num = control.num /\ roPayload.start = control.start
    BY <1>3, <2>1 DEF Stale
  <2>3. Opened(b)
    <3>1. CASE roPc = "ready"
      <4>1. View(chunkFile, b, roChunks, roPayload.start, roPayload.num, roPayload.poff)
        BY <1>r, <3>1 DEF Reader
      <4>2. roPayload.poff \in Nat
        BY <1>1 DEF Payload
      <4> QED BY <4>1, <4>2 DEF Opened
    <3>2. CASE roPc = "failed"
      <4>1. Opened(b) \/ roPayload.start < control.start
        BY <1>r, <3>2 DEF Reader
      <4> QED BY <4>1, <2>2, <1>t
    <3> QED BY <1>3, <3>1, <3>2
  <2>4. PICK e \in Nat : View(chunkFile, b, roChunks, roPayload.start, roPayload.num, e)
    BY <2>3 DEF Opened
  <2>5. View(chunkFile', b, roChunks', roPayload'.start, roPayload'.num, e)
    <3>1. chunkFile' = chunkFile
      BY DEF RoReloadControl, fileVars
    <3> QED BY <1>3, <2>2, <2>4, <3>1
  <2> QED BY <2>5 DEF Opened
<1> QED BY <1>2, <1>3, <1>4, <1>5, <1>6, <1>7 DEF Reader

\* A reader whose payload is the current collection's finds its files.
LEMMA FilesFound ==
  ASSUME Types, Names, NEW b \in Begins, Core(b), NEW p \in Payload, NEW n,
         Sound(chunkFile, prefixFile, log, b, control, published, p, n),
         p.start = control.start
  PROVE  CanOpen(p.start, p.num, p.poff)
<1>1. p.start + p.num - 1 <= LastFile /\ LastFile \in Nat /\ p.start \in Nat /\ p.num \in Nat
  <2>1. Top(p) <= Top(control)
    BY DEF Sound
  <2>2. Top(control) \in Nat /\ Top(control) <= LastFile /\ LastFile \in Nat
    BY Shapes
  <2>3. p.start \in Nat /\ p.num \in Nat /\ Top(p) \in Nat /\ Top(p) = p.start + p.num - 1
    BY PayloadShape
  <2>4. Top(p) <= LastFile
    BY <2>1, <2>2, <2>3
  <2> QED BY <2>2, <2>3, <2>4
<1>2. control.start..LastFile \subseteq chunkNames
  BY DEF Names
<1>3. p.start..p.start + p.num - 1 \subseteq chunkNames
  BY <1>1, <1>2
<1>4. p.poff <= Len(chunkFile[p.start + p.num - 1])
  BY DEF Sound, Top
<1> QED BY <1>3, <1>4 DEF CanOpen

LEMMA RoSuffixStep ==
  ASSUME Types, Names, NEW b \in Begins, Core(b), RoSuffix
  PROVE  RoTyped' /\ Reader(b)'
<1> USE Bounds
<1>1. /\ roPayload \in Payload /\ roChunks \in Seq(Chunk) /\ roPrefix \in 0..MaxGcs
      /\ roStale \subseteq {"suffix", "prefix"} /\ roLen \in Nat /\ control \in Payload
  BY DEF Types, TypeOK
<1>t. /\ control.gen \in Nat /\ roPayload.gen \in Nat /\ control.start \in Nat
      /\ roPayload.start \in Nat /\ roPayload.num \in Nat \ {0} /\ roPayload.poff \in Nat
  BY <1>1 DEF Payload
<1>u. /\ chunkFile' = chunkFile /\ prefixFile' = prefixFile /\ control' = control
      /\ log' = log /\ published' = published
  BY DEF RoSuffix, fileVars, logVars
<1>r. /\ Reader(b) /\ roPc \in {"openSuffix", "suffix"}
      /\ Sound(chunkFile, prefixFile, log, b, control, published, roPayload, roLen)
  BY DEF Core, Reader, RoSuffix
<1>2. CASE "suffix" \in roStale /\ ~CanOpen(roPayload.start, roPayload.num, roPayload.poff)
  <2>1. RoFails
    BY <1>2 DEF RoSuffix
  <2>2. CASE roPc = "openSuffix"
    <3>1. roPc' = "refused" /\ roPayload' = NewStore /\ roChunks' = << >> /\ roPrefix' = 0
          /\ roLen' = 0 /\ roStale' = {}
      BY <2>1, <2>2 DEF RoFails, RoGone
    <3>2. RoTyped'
      BY <3>1, NewStoreTyped DEF RoTyped
    <3> QED BY <3>1, <3>2 DEF Reader
  <2>3. CASE roPc = "suffix"
    <3>1. roPc' = "failed" /\ UNCHANGED <<roPayload, roChunks, roPrefix, roStale, roLen>>
      BY <2>1, <2>3 DEF RoFails
    <3>2. RoTyped'
      BY <1>1, <3>1 DEF RoTyped
    <3>3. roPayload.start # control.start
      BY <1>1, <1>2, <1>r, FilesFound
    <3>4. roPayload.gen < control.gen /\ roPayload.start < control.start
      BY <3>3, <1>r, <1>t DEF Sound
    <3>5. "prefix" \in roStale => roPayload.gen # 0
      BY <1>r DEF Reader
    <3>6. Sound(chunkFile', prefixFile', log', b, control', published', roPayload', roLen')
      BY <1>r, <1>u, <3>1
    <3> QED BY <1>u, <3>1, <3>2, <3>4, <3>5, <3>6 DEF Reader
  <2> QED BY <1>r, <2>2, <2>3
<1>3. CASE ~ ("suffix" \in roStale /\ ~CanOpen(roPayload.start, roPayload.num, roPayload.poff))
  <2>1. /\ roPc' = IF roPc = "openSuffix" THEN "openPrefix" ELSE "prefix"
        /\ roChunks' =
             IF "suffix" \in roStale
             THEN Inventory(roPayload.start, roPayload.num, roPayload.poff)
             ELSE roChunks
        /\ UNCHANGED <<roPayload, roPrefix, roStale, roLen>>
    BY <1>3 DEF RoSuffix
  <2>2. \E e \in Nat : View(chunkFile, b, roChunks', roPayload.start, roPayload.num, e)
    <3>1. CASE "suffix" \in roStale
      <4>1. roPayload.start + roPayload.num - 1 <= LastFile
        BY SMTT(30), <1>r, <1>t, Shapes DEF Sound, Top
      <4>2. TypeOK /\ Placed(chunkFile, log, b, LastFile)
        BY DEF Types, Core
      <4>3. View(chunkFile, b, Inventory(roPayload.start, roPayload.num, roPayload.poff),
                 roPayload.start, roPayload.num, roPayload.poff)
        BY <1>t, <4>1, <4>2, InventoryIsView
      <4> QED BY <1>t, <2>1, <3>1, <4>3
    <3>2. CASE "suffix" \notin roStale
      <4>1. Opened(b)
        BY <1>r, <3>2 DEF Reader
      <4> QED BY <2>1, <3>2, <4>1 DEF Opened
    <3> QED BY <3>1, <3>2
  <2>3. Opened(b)'
    BY <1>u, <2>1, <2>2 DEF Opened
  <2>4. roChunks' \in Seq(Chunk)
    BY <2>2 DEF View
  <2>5. RoTyped'
    BY <1>1, <2>1, <2>4 DEF RoTyped
  <2>6. /\ "prefix" \in roStale \/ roPrefix = roPayload.gen
        /\ "prefix" \in roStale => roPayload.gen # 0
    BY <1>r DEF Reader
  <2>7. Sound(chunkFile', prefixFile', log', b, control', published', roPayload', roLen')
    BY <1>r, <1>u, <2>1
  <2>8. roPc' \in {"openPrefix", "prefix"}
    BY <2>1
  <2> QED BY <2>1, <2>3, <2>5, <2>6, <2>7, <2>8 DEF Reader
<1> QED BY <1>2, <1>3

LEMMA RoPrefixStep ==
  ASSUME Types, Names, NEW b \in Begins, Core(b), RoPrefix
  PROVE  RoTyped' /\ Reader(b)'
<1> USE Bounds
<1>1. /\ roPayload \in Payload /\ roChunks \in Seq(Chunk) /\ roPrefix \in 0..MaxGcs
      /\ roStale \subseteq {"suffix", "prefix"} /\ roLen \in Nat /\ control \in Payload
  BY DEF Types, TypeOK
<1>t. /\ control.gen \in Nat /\ roPayload.gen \in Nat /\ control.start \in Nat
      /\ roPayload.start \in Nat /\ roPayload.num \in Nat \ {0} /\ roPayload.poff \in Nat
  BY <1>1 DEF Payload
<1>u. /\ chunkFile' = chunkFile /\ prefixFile' = prefixFile /\ control' = control
      /\ log' = log /\ published' = published
  BY DEF RoPrefix, fileVars, logVars
<1>r. /\ Reader(b) /\ roPc \in {"openPrefix", "prefix"} /\ Opened(b)
      /\ Sound(chunkFile, prefixFile, log, b, control, published, roPayload, roLen)
      /\ "prefix" \in roStale \/ roPrefix = roPayload.gen
      /\ "prefix" \in roStale => roPayload.gen # 0
  BY DEF Core, Reader, RoPrefix
<1>2. CASE "prefix" \in roStale /\ roPayload.gen \notin prefixNames
  <2>1. RoFails
    BY <1>2 DEF RoPrefix
  <2>2. CASE roPc = "openPrefix"
    <3>1. roPc' = "refused" /\ roPayload' = NewStore /\ roChunks' = << >> /\ roPrefix' = 0
          /\ roLen' = 0 /\ roStale' = {}
      BY <2>1, <2>2 DEF RoFails, RoGone
    <3>2. RoTyped'
      BY <3>1, NewStoreTyped DEF RoTyped
    <3> QED BY <3>1, <3>2 DEF Reader
  <2>3. CASE roPc = "prefix"
    <3>1. roPc' = "failed" /\ UNCHANGED <<roPayload, roChunks, roPrefix, roStale, roLen>>
      BY <2>1, <2>3 DEF RoFails
    <3>2. RoTyped'
      BY <1>1, <3>1 DEF RoTyped
    <3>3. roPayload.gen # control.gen
      BY <1>2, <1>r DEF Names
    <3>4. roPayload.gen < control.gen
      BY <3>3, <1>r, <1>t DEF Sound
    <3>5. Opened(b)'
      BY <1>r, <1>u, <3>1 DEF Opened
    <3>6. Sound(chunkFile', prefixFile', log', b, control', published', roPayload', roLen')
      BY <1>r, <1>u, <3>1
    <3> QED BY <1>r, <1>u, <3>1, <3>2, <3>4, <3>5, <3>6 DEF Reader
  <2> QED BY <1>r, <2>2, <2>3
<1>3. CASE ~ ("prefix" \in roStale /\ roPayload.gen \notin prefixNames)
  <2>1. /\ roPc' = "ready"
        /\ roChunks' = [roChunks EXCEPT ![Len(roChunks)].end = roPayload.poff]
        /\ roPrefix' = IF "prefix" \in roStale THEN roPayload.gen ELSE roPrefix
        /\ roStale' = {}
        /\ UNCHANGED <<roPayload, roLen>>
    BY <1>3 DEF RoPrefix
  <2>2. PICK e \in Nat : View(chunkFile, b, roChunks, roPayload.start, roPayload.num, e)
    BY <1>r DEF Opened
  <2> DEFINE n == roPayload.num
             last == [roChunks[n] EXCEPT !.end = roPayload.poff]
  <2>3. Len(roChunks) = n /\ n \in Nat \ {0} /\ n \in 1..Len(roChunks)
    BY <1>t, <2>2 DEF View
  <2>4. last \in Chunk /\ last.idx = roChunks[n].idx /\ last.off = roChunks[n].off
        /\ last.end = roPayload.poff
    <3>1. roChunks[n] \in Chunk
      BY <1>1, <2>3
    <3> QED BY <3>1, <1>t DEF Chunk
  <2>5. roChunks' = [roChunks EXCEPT ![n] = last]
    BY <2>1, <2>3
  <2> HIDE DEF last
  <2>6. roChunks' \in Seq(Chunk) /\ Len(roChunks') = n
        /\ roChunks'[n] = last /\ \A i \in 1..n - 1 : roChunks'[i] = roChunks[i]
    <3> HIDE DEF n
    <3> QED BY <1>1, <2>3, <2>4, <2>5
  <2>7. View(chunkFile, b, roChunks', roPayload.start, n, roPayload.poff)
    <3>1. \A i \in 1..n : roChunks'[i].idx = roPayload.start + i - 1
                          /\ roChunks'[i].off = b[roPayload.start + i - 1] - b[roPayload.start]
      <4> TAKE i \in 1..n
      <4>1. i = n \/ i \in 1..n - 1
        BY <2>3
      <4>2. roChunks'[i].idx = roChunks[i].idx /\ roChunks'[i].off = roChunks[i].off
        BY <4>1, <2>4, <2>6
      <4> QED BY <2>2, <4>2 DEF View
    <3>2. \A i \in 1..n - 1 : roChunks'[i].end = Len(chunkFile[roPayload.start + i - 1])
      BY <2>2, <2>6 DEF View
    <3> QED BY <1>t, <2>3, <2>4, <2>6, <3>1, <3>2 DEF View
  <2>8. roPrefix' = roPayload.gen /\ roPrefix' \in 0..MaxGcs
    <3>1. roPrefix' = roPayload.gen
      BY <1>r, <2>1
    <3>2. CASE "prefix" \in roStale
      <4>1. roPayload.gen \in prefixNames /\ prefixNames \subseteq 1..MaxGcs
        BY <1>3, <3>2 DEF Types, TypeOK
      <4>2. roPayload.gen \in 1..MaxGcs
        BY <4>1, Zenon
      <4>3. 1..MaxGcs \subseteq 0..MaxGcs
        OBVIOUS
      <4> QED BY <3>1, <4>2, <4>3, Zenon
    <3>3. CASE "prefix" \notin roStale
      BY <1>1, <1>r, <2>1, <3>3
    <3> QED BY <3>1, <3>2, <3>3
  <2>9. RoTyped'
    BY <1>1, <2>1, <2>6, <2>8 DEF RoTyped
  <2>10. Sound(chunkFile', prefixFile', log', b, control', published', roPayload', roLen')
    BY <1>r, <1>u, <2>1
  <2> QED BY <1>u, <2>1, <2>7, <2>8, <2>9, <2>10 DEF Reader
<1> QED BY <1>2, <1>3

LEMMA RoCloseStep ==
  ASSUME NEW b, RoClose
  PROVE  RoTyped' /\ Reader(b)'
<1> USE Bounds
<1>1. roPc' = "down" /\ roPayload' = NewStore /\ roChunks' = << >> /\ roPrefix' = 0
      /\ roLen' = 0 /\ roStale' = {}
  BY DEF RoClose, RoGone
<1>2. RoTyped'
  BY <1>1, NewStoreTyped DEF RoTyped
<1> QED BY <1>1, <1>2 DEF Reader

LEMMA ReaderSteps ==
  ASSUME Types, Names, Residue, NEW b \in Begins, Core(b),
         RoOpenControl \/ RoReloadControl \/ RoSuffix \/ RoPrefix \/ RoClose
  PROVE  Types' /\ Names' /\ Residue' /\ Core(b)'
<1>1. UNCHANGED <<fileVars, rwVars, gcVars, logVars, crashes>>
  BY DEF RoOpenControl, RoReloadControl, RoSuffix, RoPrefix, RoClose
<1>2. RoTyped' /\ Reader(b)'
  BY RoOpenControlStep, RoReloadControlStep, RoSuffixStep, RoPrefixStep, RoCloseStep
<1>3. Types'
  BY <1>1, <1>2, RoTypes
<1> QED BY <1>1, <1>2, <1>3, ReaderFrame
-----------------------------------------------------------------------------
(* The steps of a collection before the swap, and the unlinks. *)

\* They leave the contents of the store alone.
LEMMA QuietFrame ==
  ASSUME NEW b \in Begins, Core(b), pc # "down",
         UNCHANGED <<chunkFile, prefixFile, control, log, published, pc, payload,
                     chunks, buf, roVars>>
  PROVE  /\ LastFile' = LastFile
         /\ Placed(chunkFile, log, b, LastFile)'
         /\ Sound(chunkFile, prefixFile, log, b, control, published, control, published)'
         /\ Main(b)' /\ Reader(b)'
<1> USE DEF roVars
<1>1. LastFile' = LastFile
  BY DEF LastFile
<1>2. Placed(chunkFile, log, b, LastFile)'
  BY <1>1 DEF Core
<1>3. Sound(chunkFile, prefixFile, log, b, control, published, control, published)'
  BY DEF Core
<1>4. Main(b)'
  BY <1>1 DEF Core, Main
<1>5. Reader(b)'
  BY DEF Core, Reader, Opened
<1> QED BY <1>1, <1>2, <1>3, <1>4, <1>5

\* At the end of a batch everything written is published.
LEMMA ReadyIsPublished ==
  ASSUME Types, NEW b \in Begins, Core(b), pc = "ready"
  PROVE  /\ published = Len(log) /\ payload = control /\ LastFile = Top(control)
         /\ control.poff = Len(chunkFile[LastFile]) /\ buf = << >>
<1>1. /\ payload = control /\ LastFile = Top(control)
      /\ control.poff = Len(chunkFile[LastFile]) /\ buf = << >>
  BY DEF Core, Main, LastFile, Types, TypeOK
<1>2. b[LastFile] + Len(chunkFile[LastFile]) + Len(buf) = Len(log)
  BY DEF Core, Main
<1>3. published = b[Top(control)] + control.poff
  BY DEF Core, Sound
<1>4. Len(buf) = 0 /\ b[LastFile] \in Nat /\ control.poff \in Nat
  BY <1>1, Shapes
<1> QED BY <1>1, <1>2, <1>3, <1>4

LEMMA StartGcStep ==
  ASSUME Types, Names, Residue, NEW b \in Begins, Core(b),
         NEW c \in 0..Len(log) - 1, StartGc(c)
  PROVE  Types' /\ Names' /\ Residue' /\ Core(b)'
<1> USE Bounds
<1>1. /\ pc = "ready" /\ gcPc = "none" /\ payload.gen < MaxGcs /\ c > payload.target
      /\ gcPc' = "forked" /\ gcTarget' = c
      /\ gcStart' = IF payload.gen > 0 /\ payload.startOff >= c
                    THEN payload.startOff ELSE c + 1
      /\ UNCHANGED <<fileVars, rwVars, gcPayload, gcChunks, roVars, logVars, crashes>>
  BY DEF StartGc
<1>2. UNCHANGED <<chunkFile, chunkNames, prefixFile, prefixNames, control, pc, payload,
                  chunks, buf, unlinking, unlinkingPrefix, log, published, appends>>
  BY <1>1 DEF fileVars, rwVars, logVars
<1>3. published = Len(log) /\ payload = control
  BY <1>1, ReadyIsPublished
<1>4. /\ c \in Nat /\ control.gen \in Nat /\ control.startOff \in Nat
      /\ control.target \in Int /\ Len(log) \in Nat
  <2>1. control \in Payload /\ Len(log) \in Nat
    BY Shapes
  <2> DEFINE x == Len(log)
  <2>2. x \in Nat /\ c \in 0..x - 1
    BY <2>1
  <2> HIDE DEF x
  <2>3. c \in Nat
    BY <2>2
  <2> QED BY <2>1, <2>3, PayloadShape
<1>5. gcStart' \in Nat
  BY <1>1, <1>3, <1>4
<1>6. Types'
  <2>1. gcTarget' \in Int /\ gcPc' \in {"none", "forked", "opened", "done"}
    BY <1>1, <1>4
  <2> QED BY <1>1, <1>2, <1>5, <2>1 DEF Types, TypeOK, roVars
<1>7. LastFile' = LastFile /\ Placed(chunkFile, log, b, LastFile)'
      /\ Sound(chunkFile, prefixFile, log, b, control, published, control, published)'
      /\ Main(b)' /\ Reader(b)'
  BY <1>1, <1>2, QuietFrame
<1>8. Gc(b)'
  <2>1. control.startOff \in {control.target, control.target + 1}
    BY DEF Core, Sound, Rooted
  <2>2. /\ control.gen < MaxGcs /\ c \in 0..published - 1 /\ control.target < c
        /\ gcStart' \in {c, c + 1} /\ gcStart' >= control.startOff
    BY <1>1, <1>3, <1>4, <2>1
  <2> QED BY <1>1, <1>2, <2>2 DEF Gc
<1>9. Names' /\ Residue'
  BY <1>1, <1>2, <1>7 DEF Names, Residue
<1> QED BY <1>6, <1>7, <1>8, <1>9 DEF Core

LEMMA WorkerOpensStep ==
  ASSUME Types, Names, Residue, NEW b \in Begins, Core(b), WorkerOpens
  PROVE  Types' /\ Names' /\ Residue' /\ Core(b)'
<1> USE Bounds
<1>1. /\ gcPc = "forked" /\ gcPc' = "opened" /\ gcPayload' = control
      /\ gcChunks' = Inventory(control.start, control.num, control.poff)
      /\ UNCHANGED <<fileVars, rwVars, gcTarget, gcStart, roVars, logVars, crashes>>
  BY DEF WorkerOpens
<1>2. UNCHANGED <<chunkFile, chunkNames, prefixFile, prefixNames, control, pc, payload,
                  chunks, buf, unlinking, unlinkingPrefix, log, published, appends>>
  BY <1>1 DEF fileVars, rwVars, logVars
<1>3. pc # "down" /\ Gc(b)
  BY <1>1 DEF Core, Main
<1>4. View(chunkFile, b, gcChunks', control.start, control.num, control.poff)
  BY <1>1, ControlView
<1>5. gcChunks' \in Seq(Chunk)
  BY <1>4 DEF View
<1>6. Types'
  BY <1>1, <1>2, <1>5 DEF Types, TypeOK, roVars
<1>7. LastFile' = LastFile /\ Placed(chunkFile, log, b, LastFile)'
      /\ Sound(chunkFile, prefixFile, log, b, control, published, control, published)'
      /\ Main(b)' /\ Reader(b)'
  BY <1>1, <1>2, <1>3, QuietFrame
<1>8. Gc(b)'
  <2>1. /\ control.gen < MaxGcs /\ gcTarget \in 0..published - 1
        /\ control.target < gcTarget /\ gcStart \in {gcTarget, gcTarget + 1}
        /\ gcStart >= control.startOff
    BY <1>1, <1>3 DEF Gc
  <2>2. published \in Nat /\ gcTarget < published
    BY <2>1, Shapes
  <2>3. Sound(chunkFile, prefixFile, log, b, control, published, control, published)
    BY DEF Core
  <2>4. \E n \in Nat :
         /\ Sound(chunkFile, prefixFile, log, b, control, published, gcPayload', n)
         /\ gcTarget < n /\ gcPayload'.gen = control.gen
         /\ gcPayload'.startOff = control.startOff
         /\ View(chunkFile, b, gcChunks', gcPayload'.start, gcPayload'.num, gcPayload'.poff)
    BY <1>1, <1>4, <2>2, <2>3
  <2> QED BY <1>1, <1>2, <2>1, <2>4 DEF Gc
<1>9. Names' /\ Residue'
  BY <1>1, <1>2, <1>7 DEF Names, Residue
<1> QED BY <1>6, <1>7, <1>8, <1>9 DEF Core

LEMMA UnlinkChunkStep ==
  ASSUME Types, Names, Residue, NEW b \in Begins, Core(b),
         NEW i \in unlinking, UnlinkChunk(i)
  PROVE  Types' /\ Names' /\ Residue' /\ Core(b)'
<1> USE Bounds
<1>1. /\ unlinking' = unlinking \ {i} /\ chunkNames' = chunkNames \ {i}
      /\ UNCHANGED <<chunkFile, prefixFile, prefixNames, control, pc, payload, chunks,
                     buf, unlinkingPrefix, gcVars, roVars, logVars, crashes>>
  BY DEF UnlinkChunk
<1>2. UNCHANGED <<log, published, appends, gcPc, gcTarget, gcStart, gcPayload, gcChunks>>
  BY <1>1 DEF logVars, gcVars
<1>3. pc # "down" /\ i < control.start
  BY DEF Core, Main, Names
<1>4. Types'
  BY <1>1, <1>2 DEF Types, TypeOK, roVars
<1>5. LastFile' = LastFile /\ Placed(chunkFile, log, b, LastFile)'
      /\ Sound(chunkFile, prefixFile, log, b, control, published, control, published)'
      /\ Main(b)' /\ Reader(b)'
  BY <1>1, <1>2, <1>3, QuietFrame
<1>6. Gc(b)'
  BY <1>1, <1>2 DEF Core, Gc
<1>7. Names'
  <2>1. i \notin control.start..LastFile
    <3>1. i \in Nat /\ control.start \in Nat
      <4>1. i \in 0..MaxChunks
        BY DEF Types, TypeOK
      <4> QED BY <4>1, Shapes
    <3> QED BY <1>3, <3>1
  <2> QED BY <1>1, <1>2, <1>5, <2>1 DEF Names
<1>8. Residue'
  BY <1>1, <1>2 DEF Residue
<1> QED BY <1>4, <1>5, <1>6, <1>7, <1>8 DEF Core

LEMMA UnlinkPrefixStep ==
  ASSUME Types, Names, Residue, NEW b \in Begins, Core(b),
         NEW g \in unlinkingPrefix, UnlinkPrefix(g)
  PROVE  Types' /\ Names' /\ Residue' /\ Core(b)'
<1> USE Bounds
<1>1. /\ unlinkingPrefix' = unlinkingPrefix \ {g} /\ prefixNames' = prefixNames \ {g}
      /\ UNCHANGED <<chunkFile, chunkNames, prefixFile, control, pc, payload, chunks,
                     buf, unlinking, gcVars, roVars, logVars, crashes>>
  BY DEF UnlinkPrefix
<1>2. UNCHANGED <<log, published, appends, gcPc, gcTarget, gcStart, gcPayload, gcChunks>>
  BY <1>1 DEF logVars, gcVars
<1>3. pc # "down" /\ g < control.gen /\ g \in Nat /\ control.gen \in Nat
  <2>1. g \in 1..MaxGcs /\ control \in Payload
    BY DEF Types, TypeOK
  <2> QED BY <2>1 DEF Core, Main, Names, Payload
<1>4. Types'
  BY <1>1, <1>2 DEF Types, TypeOK, roVars
<1>5. LastFile' = LastFile /\ Placed(chunkFile, log, b, LastFile)'
      /\ Sound(chunkFile, prefixFile, log, b, control, published, control, published)'
      /\ Main(b)' /\ Reader(b)'
  BY <1>1, <1>2, <1>3, QuietFrame
<1>6. Gc(b)'
  BY <1>1, <1>2 DEF Core, Gc
<1>7. Names'
  <2>1. g # control.gen /\ g # control.gen + 1
    BY <1>3
  <2> QED BY <1>1, <1>2, <1>5, <2>1 DEF Names
<1>8. Residue'
  BY <1>1, <1>2 DEF Residue
<1> QED BY <1>4, <1>5, <1>6, <1>7, <1>8 DEF Core

LEMMA CleanupKeeps ==
  ASSUME Types, Names, NEW b \in Begins, Core(b), pc # "split", Cleanup
  PROVE  /\ control.start..LastFile \subseteq chunkNames'
         /\ control.gen # 0 => control.gen \in prefixNames'
         /\ chunkNames' \subseteq control.start..control.start + control.num
         /\ prefixNames' \subseteq {control.gen}
         /\ chunkNames' \subseteq chunkNames /\ prefixNames' \subseteq prefixNames
<1> USE Bounds
<1>1. /\ control.start \in Nat /\ control.num \in Nat /\ chunkNames \subseteq 0..MaxChunks
      /\ LastFile = control.start + control.num - 1
  BY Shapes DEF Types, TypeOK, Top
<1>2. ASSUME NEW i \in control.start..LastFile PROVE i \in chunkNames'
  <2>1. i \in chunkNames /\ i \in Nat /\ ~ (i < control.start) /\ ~ (i > control.start + control.num)
    BY <1>1 DEF Names
  <2> QED BY <2>1 DEF Cleanup, Residual
<1>3. ASSUME NEW i \in chunkNames' PROVE i \in control.start..control.start + control.num
  <2>1. i \in chunkNames /\ i \in Nat /\ ~ (i < control.start) /\ ~ (i > control.start + control.num)
    BY <1>1 DEF Cleanup, Residual
  <2> QED BY <1>1, <2>1
<1>4. control.gen # 0 => control.gen \in prefixNames'
  BY DEF Names, Cleanup
<1>5. prefixNames' \subseteq {control.gen} /\ chunkNames' \subseteq chunkNames
      /\ prefixNames' \subseteq prefixNames
  BY DEF Cleanup
<1> QED BY <1>2, <1>3, <1>4, <1>5

LEMMA NoGcTyped ==
  ASSUME NoGc
  PROVE  /\ gcPc' = "none" /\ gcTarget' \in Int /\ gcStart' \in Nat
         /\ gcPayload' \in Payload /\ gcChunks' \in Seq(Chunk)
<1>1. -1 \in Int /\ 0 \in Nat
  OBVIOUS
<1> QED BY <1>1, NewStoreTyped DEF NoGc

LEMMA GcFailsStep ==
  ASSUME Types, Names, Residue, NEW b \in Begins, Core(b), GcFails
  PROVE  Types' /\ Names' /\ Residue' /\ Core(b)'
<1> USE Bounds
<1>1. /\ pc = "ready" /\ NoGc /\ Cleanup
      /\ UNCHANGED <<chunkFile, prefixFile, control, rwVars, roVars, logVars, crashes>>
  BY DEF GcFails
<1>2. UNCHANGED <<log, published, appends, pc, payload, chunks, buf, unlinking, unlinkingPrefix>>
  BY <1>1 DEF logVars, rwVars
<1>3. /\ control.start..LastFile \subseteq chunkNames'
      /\ control.gen # 0 => control.gen \in prefixNames'
      /\ chunkNames' \subseteq control.start..control.start + control.num
      /\ prefixNames' \subseteq {control.gen}
      /\ chunkNames' \subseteq chunkNames /\ prefixNames' \subseteq prefixNames
  BY <1>1, CleanupKeeps
<1>4. /\ gcPc' = "none" /\ gcTarget' \in Int /\ gcStart' \in Nat
      /\ gcPayload' \in Payload /\ gcChunks' \in Seq(Chunk)
  BY <1>1, NoGcTyped
<1>5. Types'
  BY <1>1, <1>2, <1>3, <1>4 DEF Types, TypeOK, roVars
<1>6. LastFile' = LastFile /\ Placed(chunkFile, log, b, LastFile)'
      /\ Sound(chunkFile, prefixFile, log, b, control, published, control, published)'
      /\ Main(b)' /\ Reader(b)'
  BY <1>1, <1>2, QuietFrame
<1>7. Gc(b)'
  BY <1>4 DEF Gc
<1>8. Names'
  BY <1>1, <1>2, <1>3, <1>4, <1>6 DEF Names
<1>9. Residue'
  BY <1>1, <1>3 DEF Residue
<1> QED BY <1>5, <1>6, <1>7, <1>8, <1>9 DEF Core

\* What the worker finds is what the log has.
LEMMA WorkerReads ==
  ASSUME Types, NEW b \in Begins, Core(b), gcPc = "opened", CanCopy
  PROVE  /\ gcTarget \in Offsets /\ gcTarget < published
         /\ \A o \in Needs[gcTarget] :
              /\ o \in Offsets /\ o < Len(log) /\ o + 1 \in 1..Len(log)
              /\ WorkerRead(o) = log[o + 1]
<1> USE Bounds
<1>1. Gc(b) /\ Placed(chunkFile, log, b, LastFile) /\ TypeOK /\ gcPayload \in Payload
  BY DEF Core, Types, TypeOK
<1>2. gcTarget \in 0..published - 1 /\ published \in 0..Len(log) /\ Len(log) \in Nat
      /\ Len(log) <= MaxEntries
  BY <1>1, Shapes DEF Gc, Types
<1>3. gcTarget \in Offsets /\ gcTarget < published /\ gcTarget \in Nat
  BY <1>2 DEF Offsets
<1>4. PICK n \in Nat :
         /\ Sound(chunkFile, prefixFile, log, b, control, published, gcPayload, n)
         /\ gcTarget < n
         /\ View(chunkFile, b, gcChunks, gcPayload.start, gcPayload.num, gcPayload.poff)
  BY <1>1 DEF Gc
<1>5. ASSUME NEW o \in Needs[gcTarget]
      PROVE  /\ o \in Offsets /\ o < Len(log) /\ o + 1 \in 1..Len(log)
             /\ WorkerRead(o) = log[o + 1]
  <2>1. o \in 0..gcTarget /\ o \in Offsets
    BY <1>3, ConstantsAssumption
  <2>2. Read(gcPayload, gcChunks, gcPayload.gen, o) # Missing
    BY DEF CanCopy, WorkerRead
  <2>3. n = b[Top(gcPayload)] + gcPayload.poff /\ Rooted(prefixFile, log, b, gcPayload)
    BY <1>4 DEF Sound
  <2>4. Span(chunkFile, b, LastFile, gcChunks, gcPayload.start, Top(gcPayload), gcPayload.poff)
    BY <1>1, <1>4, SoundSpan
  <2>5. Asked(b, gcPayload, gcChunks, Top(gcPayload), gcPayload.poff, o)
    <3>1. o \in Nat /\ o < n
      BY <1>3, <1>4, <2>1
    <3> QED BY <2>2, <2>3, <3>1 DEF Asked
  <2>6. Read(gcPayload, gcChunks, gcPayload.gen, o) = log[o + 1]
    BY <1>1, <2>3, <2>4, <2>5, ReadsRight
  <2> QED BY <1>2, <1>3, <2>1, <2>6 DEF WorkerRead
<1> QED BY <1>3, <1>5

LEMMA WorkerWritesStep ==
  ASSUME Types, Names, Residue, NEW b \in Begins, Core(b), WorkerWrites
  PROVE  Types' /\ Names' /\ Residue' /\ Core(b)'
<1> USE Bounds
<1> DEFINE g == control.gen + 1
           new == [o \in Needs[gcTarget] |-> WorkerRead(o)]
<1>0. gcPc = "opened" /\ CanCopy
  BY DEF WorkerWrites
<1>c. Gc(b) /\ pc # "down"
  BY <1>0 DEF Core, Main
<1>g. gcPayload.gen = control.gen /\ control.gen < MaxGcs /\ control.gen \in Nat
      /\ g \in 1..MaxGcs
  <2>1. gcPayload.gen = control.gen /\ control.gen < MaxGcs
    BY <1>0, <1>c DEF Gc
  <2>2. control.gen \in Nat
    BY Shapes DEF Payload
  <2> QED BY <2>1, <2>2
<1>1. /\ gcPc' = "done"
      /\ prefixFile' = [prefixFile EXCEPT ![g] = new]
      /\ prefixNames' = prefixNames \cup {g}
      /\ UNCHANGED <<chunkFile, chunkNames, control, rwVars, gcTarget, gcStart,
                     gcPayload, gcChunks, roVars, logVars, crashes>>
  BY <1>g DEF WorkerWrites
<1>2. UNCHANGED <<chunkFile, chunkNames, control, pc, payload, chunks, buf, unlinking,
                  unlinkingPrefix, log, published, appends>>
  BY <1>1 DEF logVars, rwVars
<1>3. DOMAIN prefixFile = 1..MaxGcs
  BY DEF Types
<1>4. /\ DOMAIN prefixFile' = 1..MaxGcs /\ prefixFile'[g] = new
      /\ \A h \in 1..MaxGcs : h # g => prefixFile'[h] = prefixFile[h]
  <2> HIDE DEF new
  <2> QED BY <1>1, <1>3, <1>g
<1>5. /\ gcTarget \in Offsets /\ gcTarget < published
      /\ \A o \in Needs[gcTarget] :
              /\ o \in Offsets /\ o < Len(log) /\ o + 1 \in 1..Len(log)
              /\ WorkerRead(o) = log[o + 1]
  BY <1>0, WorkerReads
<1>6. \A h \in 1..MaxGcs : \A o \in DOMAIN prefixFile'[h] :
        o \in Offsets /\ prefixFile'[h][o] \in Nat
  <2> TAKE h \in 1..MaxGcs
  <2> TAKE o \in DOMAIN prefixFile'[h]
  <2>1. CASE h = g
    <3>1. prefixFile'[h] = new
      BY <1>4, <2>1
    <3>2. o \in Needs[gcTarget] /\ prefixFile'[h][o] = WorkerRead(o)
      BY <3>1
    <3>3. log \in Seq(Nat)
      BY Shapes
    <3>4. log[o + 1] \in Nat
      BY <1>5, <3>2, <3>3
    <3> QED BY <1>5, <3>2, <3>4
  <2>2. CASE h # g
    <3>1. prefixFile'[h] = prefixFile[h]
      BY <1>4, <2>2
    <3> QED BY <3>1 DEF Types, TypeOK
  <2> QED BY <2>1, <2>2
<1>7. prefixNames' \subseteq 1..MaxGcs
  <2>1. prefixNames \subseteq 1..MaxGcs
    BY DEF Types, TypeOK
  <2> HIDE DEF g
  <2> QED BY <1>1, <1>g, <2>1
<1> HIDE DEF new
<1>8. Types'
  BY <1>1, <1>2, <1>4, <1>6, <1>7 DEF Types, TypeOK, roVars
<1>9. Copied(prefixFile', log, g, gcTarget)
  BY <1>g, <1>4, <1>5 DEF Copied, new
<1>10. Later(chunkFile, prefixFile, log, b, control, published,
             chunkFile', prefixFile', log', b, control', published')
  <2>1. \A h \in 1..control.gen : prefixFile'[h] = prefixFile[h]
    BY <1>g, <1>4
  <2>2. /\ published \in 0..Len(log) /\ Top(control) \in Nat /\ Len(log) \in Nat
        /\ control.start \in Nat /\ Sized(chunkFile, Top(control))
    BY Shapes
  <2>3. published <= published /\ published <= Len(log)
    BY <2>2
  <2>4. /\ \A i \in 0..Top(control) : b[i] = b[i] /\ Len(chunkFile[i]) <= Len(chunkFile[i])
        /\ \A i \in 0..Top(control) - 1 : chunkFile[i] = chunkFile[i]
        /\ Same(log, log, published)
    BY <2>2 DEF Sized, Same
  <2>5. /\ Top(control) <= Top(control) /\ control.start <= control.start
        /\ control.gen <= control.gen
    BY <1>g, <2>2
  <2> QED BY <1>2, <2>1, <2>3, <2>4, <2>5 DEF Later
<1>11. LastFile' = LastFile
  BY <1>2 DEF LastFile
<1>12. Placed(chunkFile, log, b, LastFile)'
  BY <1>2, <1>11 DEF Core
<1>13. Sound(chunkFile, prefixFile, log, b, control, published, control, published)'
  <2>1. Sound(chunkFile, prefixFile, log, b, control, published, control, published)
    BY DEF Core
  <2>2. Sound(chunkFile', prefixFile', log', b, control', published', control, published)
    BY <1>8, <1>10, <2>1, LaterTypes, SoundStays
  <2> QED BY <1>2, <2>2
<1>14. Main(b)'
  BY <1>2, <1>11, <1>c DEF Core, Main
<1>15. Reader(b)'
  BY <1>1, <1>8, <1>10, ReaderStays
<1>16. Gc(b)'
  <2>1. /\ control.gen < MaxGcs /\ gcTarget \in 0..published - 1
        /\ control.target < gcTarget /\ gcStart \in {gcTarget, gcTarget + 1}
        /\ gcStart >= control.startOff
    BY <1>0, <1>c DEF Gc
  <2>2. PICK n \in Nat :
         /\ Sound(chunkFile, prefixFile, log, b, control, published, gcPayload, n)
         /\ gcTarget < n /\ gcPayload.gen = control.gen
         /\ gcPayload.startOff = control.startOff
         /\ View(chunkFile, b, gcChunks, gcPayload.start, gcPayload.num, gcPayload.poff)
    BY <1>0, <1>c DEF Gc
  <2>3. gcPayload \in Payload
    BY DEF Types, TypeOK
  <2>4. Sound(chunkFile', prefixFile', log', b, control', published', gcPayload, n)
    BY <1>8, <1>10, <2>2, <2>3, LaterTypes, SoundStays
  <2> QED BY <1>1, <1>2, <1>9, <2>1, <2>2, <2>4 DEF Gc
<1>17. Names'
  BY <1>1, <1>2, <1>11 DEF Names
<1>18. Residue'
  BY <1>1, <1>2, <1>0 DEF Residue
<1> QED BY <1>8, <1>12, <1>13, <1>14, <1>15, <1>16, <1>17, <1>18 DEF Core
-----------------------------------------------------------------------------
(* Batches. *)

LEMMA StartBatchStep ==
  ASSUME Types, Names, Residue, NEW b \in Begins, Core(b), StartBatch
  PROVE  Types' /\ Names' /\ Residue' /\ Core(b)'
<1> USE Bounds
<1>1. /\ pc = "ready" /\ pc' = "batch"
      /\ UNCHANGED <<fileVars, payload, chunks, buf, unlinking, unlinkingPrefix,
                     gcVars, roVars, logVars, crashes>>
  BY DEF StartBatch
<1>2. UNCHANGED <<chunkFile, chunkNames, prefixFile, prefixNames, control, log, published,
                  appends, gcPc, gcTarget, gcStart, gcPayload, gcChunks>>
  BY <1>1 DEF fileVars, logVars, gcVars
<1>3. LastFile' = LastFile
  BY <1>1, <1>2 DEF LastFile
<1>4. Types'
  BY <1>1, <1>2 DEF Types, TypeOK, roVars, Stages
<1>5. Placed(chunkFile, log, b, LastFile)'
      /\ Sound(chunkFile, prefixFile, log, b, control, published, control, published)'
  BY <1>2, <1>3 DEF Core
<1>6. Main(b)'
  BY <1>1, <1>2, <1>3 DEF Core, Main
<1>7. Gc(b)'
  BY <1>2 DEF Core, Gc
<1>8. Reader(b)'
  BY <1>1, <1>2 DEF Core, Reader, Opened, roVars
<1>9. Names' /\ Residue'
  BY <1>1, <1>2, <1>3 DEF Names, Residue
<1> QED BY <1>4, <1>5, <1>6, <1>7, <1>8, <1>9 DEF Core

LEMMA WrittenAtEnd ==
  ASSUME NEW file \in Seq(Nat), NEW es \in Seq(Nat)
  PROVE  LET W == Written(file, Len(file), es)
         IN /\ W \in Seq(Nat) /\ Len(W) = Len(file) + Len(es)
            /\ \A i \in 1..Len(file) : W[i] = file[i]
            /\ \A i \in 1..Len(es) : W[Len(file) + i] = es[i]
<1> DEFINE W == Written(file, Len(file), es)
           n == Len(file) + Len(es)
<1>1. Len(file) \in Nat /\ Len(es) \in Nat /\ n \in Nat
  OBVIOUS
<1>2. (IF Len(file) + Len(es) > Len(file) THEN Len(file) + Len(es) ELSE Len(file)) = n
  BY <1>1
<1>3. W = [i \in 1..n |-> IF i > Len(file) /\ i <= Len(file) + Len(es)
                          THEN es[i - Len(file)] ELSE file[i]]
  BY <1>2 DEF Written
<1>4. W \in [1..n -> Nat]
  <2>1. ASSUME NEW i \in 1..n
        PROVE  (IF i > Len(file) /\ i <= Len(file) + Len(es)
                THEN es[i - Len(file)] ELSE file[i]) \in Nat
    <3>1. CASE i > Len(file)
      <4>1. i - Len(file) \in 1..Len(es)
        BY <1>1, <3>1
      <4> QED BY <1>1, <3>1, <4>1
    <3>2. CASE ~ (i > Len(file))
      <4>1. i \in 1..Len(file)
        BY <1>1, <3>2
      <4> QED BY <3>2, <4>1
    <3> QED BY <3>1, <3>2
  <2> HIDE DEF W, n
  <2> QED BY <1>3, <2>1
<1>5. W \in Seq(Nat) /\ Len(W) = n
  <2> HIDE DEF W, n
  <2>1. W \in Seq(Nat)
    BY <1>1, <1>4, SeqDef
  <2>2. DOMAIN W = 1..n
    BY <1>4
  <2> QED BY <1>1, <2>1, <2>2, LenProperties
<1>6. ASSUME NEW i \in 1..Len(file) PROVE W[i] = file[i]
  <2>1. i \in 1..n /\ ~ (i > Len(file))
    BY <1>1
  <2> HIDE DEF W, n
  <2> QED BY <1>3, <2>1
<1>7. ASSUME NEW i \in 1..Len(es) PROVE W[Len(file) + i] = es[i]
  <2>1. /\ Len(file) + i \in 1..n /\ Len(file) + i > Len(file)
        /\ Len(file) + i <= Len(file) + Len(es) /\ Len(file) + i - Len(file) = i
    BY <1>1
  <2> HIDE DEF W, n
  <2> QED BY <1>3, <2>1
<1> QED BY <1>5, <1>6, <1>7

\* A log that only gets longer stays where it is placed.
LEMMA FileShape ==
  ASSUME NEW F \in [0..MaxChunks -> Seq(Nat)], NEW b \in Begins, NEW i \in 0..MaxChunks
  PROVE  F[i] \in Seq(Nat) /\ Len(F[i]) \in Nat /\ b[i] \in Nat
<1>1. F[i] \in Seq(Nat) /\ b[i] \in Nat
  BY DEF Begins
<1> QED BY <1>1

LEMMA PlacedLonger ==
  ASSUME NEW F \in [0..MaxChunks -> Seq(Nat)], NEW L, NEW L2, NEW b \in Begins, NEW m,
         Placed(F, L, b, m), NEW x \in Nat, x = Len(L), NEW y \in Nat, y = Len(L2),
         x <= y, Same(L, L2, x)
  PROVE  Placed(F, L2, b, m)
<1>1. ASSUME NEW i \in 0..m, NEW k \in 1..Len(F[i])
      PROVE  b[i] + k <= y /\ F[i][k] = L2[b[i] + k]
  <2>1. b[i] + k <= x /\ F[i][k] = L[b[i] + k] /\ m \in 0..MaxChunks
    BY DEF Placed
  <2>2. i \in 0..MaxChunks
    BY <2>1, Bounds
  <2>3. Len(F[i]) \in Nat /\ b[i] \in Nat
    BY <2>2, FileShape
  <2> DEFINE z == Len(F[i])
             p == b[i]
             j == p + k
  <2>4. z \in Nat /\ p \in Nat /\ k \in 1..z /\ p + k <= x
    BY <2>1, <2>3
  <2> HIDE DEF z, p
  <2>5. j \in 1..x /\ j <= y
    BY <2>4
  <2> HIDE DEF j
  <2>6. L2[j] = L[j]
    BY <2>5 DEF Same
  <2> QED BY <2>1, <2>5, <2>6 DEF j, p
<1>2. /\ m \in 0..MaxChunks
      /\ \A i \in 0..m - 1 : b[i + 1] = b[i] + Len(F[i]) /\ Len(F[i]) # 0
  BY DEF Placed
<1> QED BY <1>1, <1>2 DEF Placed

\* The files before t are the same; after its first f entries, a file goes on
\* with the n entries of the log L from offset p on.
Alike(F, F2, t) == \A i \in 0..t - 1 : F2[i] = F[i]
GoesOn(file, f, n, L, p) == \A k \in 1..n : file[f + k] = L[p + f + k]

Grown(F, F2, L, b, t, n) ==
  /\ Alike(F, F2, t) /\ Same(F[t], F2[t], Len(F[t]))
  /\ Len(F2[t]) = Len(F[t]) + n /\ b[t] + Len(F[t]) + n <= Len(L)
  /\ GoesOn(F2[t], Len(F[t]), n, L, b[t])

\* The last file t may get longer, by n entries, up to the end of the log.
LEMMA PlacedGrows ==
  ASSUME NEW F \in [0..MaxChunks -> Seq(Nat)], NEW F2, NEW L, NEW b \in Begins,
         NEW t, Placed(F, L, b, t), NEW n \in Nat, Len(L) \in Nat, Grown(F, F2, L, b, t, n)
  PROVE  Placed(F2, L, b, t)
<1> DEFINE f == Len(F[t])
<1>0. t \in 0..MaxChunks /\ t \in 0..t /\ t \in Nat
  BY Bounds DEF Placed
<1>1. b[t] \in Nat /\ f \in Nat
  BY <1>0, FileShape
<1>g. /\ Alike(F, F2, t) /\ Same(F[t], F2[t], f)
      /\ Len(F2[t]) = f + n /\ b[t] + f + n <= Len(L)
      /\ GoesOn(F2[t], f, n, L, b[t])
  BY DEF Grown
<1>f. \A k \in 1..f : b[t] + k <= Len(L) /\ F[t][k] = L[b[t] + k]
  BY <1>0 DEF Placed
<1> HIDE DEF f
<1>2. ASSUME NEW i \in 0..t, NEW k \in 1..Len(F2[i])
      PROVE  b[i] + k <= Len(L) /\ F2[i][k] = L[b[i] + k]
  <2>1. CASE i # t
    <3>1. i \in 0..t - 1
      BY <1>0, <2>1
    <3>2. F2[i] = F[i]
      BY <1>g, <3>1 DEF Alike
    <3> QED BY <3>2 DEF Placed
  <2>2. CASE i = t
    <3>0. k \in 1..f + n
      BY <1>g, <2>2
    <3>1. CASE k <= f
      <4>1. k \in 1..f
        BY <1>1, <3>0, <3>1
      <4>2. F2[t][k] = F[t][k]
        BY <1>g, <4>1 DEF Same
      <4>3. b[t] + k <= Len(L) /\ F[t][k] = L[b[t] + k]
        BY <1>f, <4>1
      <4> QED BY <2>2, <4>2, <4>3
    <3>2. CASE ~ (k <= f)
      <4> DEFINE j == k - f
                 p == b[t]
                 x == Len(L)
      <4>1. j \in 1..n /\ k = f + j
        BY <1>1, <3>0, <3>2
      <4>2. F2[t][f + j] = L[b[t] + f + j]
        BY <1>g, <4>1 DEF GoesOn
      <4>3. p \in Nat /\ f \in Nat /\ x \in Nat /\ p + f + n <= x
        BY <1>1, <1>g
      <4> HIDE DEF j, p, x
      <4>4. p + f + j = p + k /\ p + k <= x
        BY <4>1, <4>3
      <4> QED BY <2>2, <4>1, <4>2, <4>4 DEF p, x
    <3> QED BY <3>1, <3>2
  <2> QED BY <2>1, <2>2
<1>3. ASSUME NEW i \in 0..t - 1 PROVE b[i + 1] = b[i] + Len(F2[i]) /\ Len(F2[i]) # 0
  <2>1. F2[i] = F[i]
    BY <1>g DEF Alike
  <2> QED BY <2>1 DEF Placed
<1> QED BY <1>0, <1>2, <1>3 DEF Placed

\* Then the end of the last chunk of a view moves.
LEMMA ViewGrows ==
  ASSUME NEW F, NEW F2, NEW b, NEW cs, NEW s, NEW n, NEW e, View(F, b, cs, s, n, e),
         NEW t, t = s + n - 1, Alike(F, F2, t),
         NEW e2 \in Nat, NEW cs2, cs2 = [cs EXCEPT ![n] = [cs[n] EXCEPT !.end = e2]]
  PROVE  View(F2, b, cs2, s, n, e2)
<1> DEFINE c == [cs[n] EXCEPT !.end = e2]
<1>1. cs \in Seq(Chunk) /\ Len(cs) = n /\ n \in Nat \ {0} /\ s \in Nat /\ n \in 1..Len(cs)
  BY DEF View
<1>2. cs[n] \in Chunk
  BY <1>1
<1>3. c \in Chunk /\ c.idx = cs[n].idx /\ c.off = cs[n].off /\ c.end = e2
  BY <1>2 DEF Chunk
<1>4. /\ cs2 \in Seq(Chunk) /\ Len(cs2) = n /\ cs2[n] = c
      /\ \A i \in 1..n - 1 : cs2[i] = cs[i]
  <2>1. cs2 = [cs EXCEPT ![n] = c]
    OBVIOUS
  <2> HIDE DEF c
  <2> QED BY <1>1, <1>3, <2>1
<1> HIDE DEF c
<1>5. ASSUME NEW i \in 1..n
      PROVE  cs2[i].idx = s + i - 1 /\ cs2[i].off = b[s + i - 1] - b[s]
  <2>1. i = n \/ i \in 1..n - 1
    BY <1>1
  <2>2. cs2[i].idx = cs[i].idx /\ cs2[i].off = cs[i].off
    BY <1>3, <1>4, <2>1
  <2> QED BY <2>2 DEF View
<1>6. ASSUME NEW i \in 1..n - 1 PROVE cs2[i].end = Len(F2[s + i - 1])
  <2>1. s + i - 1 \in 0..t - 1
    BY <1>1
  <2>2. F2[s + i - 1] = F[s + i - 1]
    BY <2>1 DEF Alike
  <2>3. cs[i].end = Len(F[s + i - 1])
    BY DEF View
  <2> QED BY <1>4, <2>2, <2>3
<1> QED BY <1>1, <1>3, <1>4, <1>5, <1>6 DEF View

\* A flush appends w to the last file, where the log goes on.
LEMMA FlushGrows ==
  ASSUME Types, NEW b \in Begins, Core(b), pc = "batch",
         NEW w \in Seq(Nat), NEW L2, Len(L2) \in Nat, Len(log) <= Len(L2),
         Same(log, L2, Len(log)), EndsWith(L2, w),
         b[LastFile] + Len(chunkFile[LastFile]) + Len(w) = Len(L2)
  PROVE  /\ FlushedFiles(w) \in [0..MaxChunks -> Seq(Nat)]
         /\ Len(FlushedFiles(w)[LastFile]) = Len(chunkFile[LastFile]) + Len(w)
         /\ \A i \in 0..MaxChunks : i # LastFile => FlushedFiles(w)[i] = chunkFile[i]
         /\ Placed(FlushedFiles(w), L2, b, LastFile)
         /\ View(FlushedFiles(w), b, FlushedChunks(w), control.start,
                 LastFile - control.start + 1, Len(FlushedFiles(w)[LastFile]))
<1> DEFINE t == LastFile
           s == control.start
           n == t - s + 1
           F2 == FlushedFiles(w)
           f == Len(chunkFile[t])
           l == Len(w)
           y == Len(L2)
           p == b[t]
           W == Written(chunkFile[t], f, w)
<1>1. /\ t \in 0..MaxChunks /\ s \in 0..t /\ t \in Nat /\ s \in Nat
      /\ chunkFile \in [0..MaxChunks -> Seq(Nat)] /\ Len(log) \in Nat
  <2>1. LastFile \in 0..MaxChunks /\ Top(control) \in 0..LastFile
        /\ control.start \in 0..Top(control)
        /\ chunkFile \in [0..MaxChunks -> Seq(Nat)] /\ Len(log) \in Nat
    BY Shapes
  <2> HIDE DEF t, s
  <2> QED BY <2>1, Bounds DEF t, s
<1>2. chunkFile[t] \in Seq(Nat) /\ f \in Nat /\ p \in Nat /\ l \in Nat /\ y \in Nat
  <2> HIDE DEF t
  <2>1. chunkFile[t] \in Seq(Nat) /\ f \in Nat /\ p \in Nat
    BY <1>1, FileShape
  <2> QED BY <2>1
<1>3. p + f + l = y
  OBVIOUS
<1>4. View(chunkFile, b, chunks, s, n, f)
  BY DEF Core, Main
<1>5. Placed(chunkFile, log, b, t)
  BY DEF Core
<1>6. /\ W \in Seq(Nat) /\ Len(W) = f + l
      /\ Same(chunkFile[t], W, f) /\ \A k \in 1..l : W[f + k] = w[k]
  <2> HIDE DEF t
  <2> QED BY <1>2, WrittenAtEnd DEF Same
<1> HIDE DEF t, s, y, p
<1>7. n \in Nat \ {0} /\ t = s + n - 1
  BY <1>1
<1> HIDE DEF n
<1>8. /\ Last(chunks) = chunks[n] /\ chunks[n].idx = t /\ chunks[n].end = f
      /\ Len(chunks) = n
  <2>1. n \in 1..n
    BY <1>7
  <2>2. chunks[n].idx = s + n - 1 /\ chunks[n].end = f /\ Len(chunks) = n
    BY <1>4, <2>1 DEF View
  <2> QED BY <1>7, <2>2 DEF Last
<1>9. F2 = [chunkFile EXCEPT ![t] = W]
  BY <1>8 DEF FlushedFiles
<1>10. FlushedChunks(w) = [chunks EXCEPT ![n] = [chunks[n] EXCEPT !.end = f + l]]
  <2> HIDE DEF f, l
  <2> QED BY <1>8 DEF FlushedChunks, l
<1> HIDE DEF F2, W, f, l
<1>11. /\ F2 \in [0..MaxChunks -> Seq(Nat)] /\ F2[t] = W
       /\ \A i \in 0..MaxChunks : i # t => F2[i] = chunkFile[i]
  BY <1>1, <1>6, <1>9
<1>12. Alike(chunkFile, F2, t)
  <2> SUFFICES ASSUME NEW i \in 0..t - 1 PROVE F2[i] = chunkFile[i]
    BY DEF Alike
  <2>1. i \in 0..MaxChunks /\ i # t
    BY <1>1, Bounds
  <2> QED BY <1>11, <2>1
<1>13. Placed(chunkFile, L2, b, t)
  <2>1. Same(log, L2, Len(log)) /\ Len(log) <= Len(L2) /\ Len(L2) \in Nat
    OBVIOUS
  <2> QED BY <1>1, <1>5, <2>1, PlacedLonger
<1>14. \A k \in 1..l : W[f + k] = L2[p + f + k]
  <2> TAKE k \in 1..l
  <2>1. w[k] = L2[y - l + k]
    BY DEF EndsWith, y, l
  <2>2. y - l + k = p + f + k
    BY <1>2, <1>3
  <2> QED BY <1>6, <2>1, <2>2
<1>15. Placed(F2, L2, b, t)
  <2>1. /\ f = Len(chunkFile[t]) /\ Len(F2[t]) = f + l /\ Len(L2) \in Nat
        /\ Same(chunkFile[t], F2[t], f)
    BY <1>6, <1>11 DEF f
  <2>2. b[t] + f + l <= Len(L2)
    BY <1>2, <1>3 DEF p, y
  <2>3. GoesOn(F2[t], f, l, L2, b[t])
    BY <1>11, <1>14 DEF p, GoesOn
  <2>4. Grown(chunkFile, F2, L2, b, t, l)
    BY <1>12, <2>1, <2>2, <2>3 DEF Grown
  <2>5. l \in Nat /\ chunkFile \in [0..MaxChunks -> Seq(Nat)]
    BY <1>1, <1>2
  <2> QED BY <1>13, <2>1, <2>4, <2>5, PlacedGrows
<1>16. View(F2, b, FlushedChunks(w), s, n, f + l)
  <2>1. f + l \in Nat
    BY <1>2
  <2> QED BY <1>4, <1>7, <1>10, <1>12, <2>1, ViewGrows
<1>17. Len(F2[t]) = f + l
  BY <1>6, <1>11
<1> QED BY <1>11, <1>15, <1>16, <1>17 DEF F2, t, n, s, f, l

\* No view notices that the last file and the log get longer.
LEMMA GrowthIsLater ==
  ASSUME Types, NEW b \in Begins, Core(b), LastFile = Top(control),
         \A i \in 0..MaxChunks : i # LastFile => chunkFile'[i] = chunkFile[i],
         Len(chunkFile[LastFile]) <= Len(chunkFile'[LastFile]),
         UNCHANGED <<control, prefixFile, published>>,
         published <= Len(log'), Same(log, log', published)
  PROVE  Later(chunkFile, prefixFile, log, b, control, published,
               chunkFile', prefixFile', log', b, control', published')
<1>1. /\ LastFile \in 0..MaxChunks /\ Sized(chunkFile, LastFile) /\ control \in Payload
      /\ published \in 0..Len(log) /\ Len(log) \in Nat
  BY Shapes
<1>2. ASSUME NEW i \in 0..LastFile PROVE Len(chunkFile[i]) <= Len(chunkFile'[i])
  <2>1. i \in 0..MaxChunks /\ Len(chunkFile[i]) \in Nat
    BY <1>1, Bounds DEF Sized
  <2>2. CASE i = LastFile
    BY <2>2
  <2>3. CASE i # LastFile
    <3>1. chunkFile'[i] = chunkFile[i]
      BY <2>1, <2>3
    <3> QED BY <2>1, <3>1
  <2> QED BY <2>2, <2>3
<1>3. ASSUME NEW i \in 0..LastFile - 1 PROVE chunkFile'[i] = chunkFile[i]
  <2>1. i \in 0..MaxChunks /\ i # LastFile
    BY <1>1, Bounds
  <2> QED BY <2>1
<1>4. published \in Nat
  <2> DEFINE x == Len(log)
  <2>1. x \in Nat /\ published \in 0..x
    BY <1>1
  <2> HIDE DEF x
  <2> QED BY <2>1
<1>5. Top(control) \in Nat /\ control.start \in Nat /\ control.gen \in Nat
  BY <1>1, PayloadShape
<1>6. /\ Top(control) <= Top(control') /\ control.start <= control'.start
      /\ control.gen <= control'.gen
      /\ control.gen = control'.gen => control.start = control'.start
  BY <1>5
<1> QED BY <1>2, <1>3, <1>4, <1>6 DEF Later

LEMMA AppendEnds ==
  ASSUME NEW L \in Seq(Nat), NEW w \in Seq(Nat), NEW v \in Nat,
         EndsWith(L, w), Len(w) <= Len(L)
  PROVE  /\ Append(L, v) \in Seq(Nat) /\ Len(Append(L, v)) = Len(L) + 1
         /\ Append(w, v) \in Seq(Nat) /\ Len(Append(w, v)) = Len(w) + 1
         /\ Same(L, Append(L, v), Len(L)) /\ EndsWith(Append(L, v), Append(w, v))
<1> DEFINE L2 == Append(L, v)
           w2 == Append(w, v)
           x == Len(L)
           l == Len(w)
<1>1. x \in Nat /\ l \in Nat /\ l <= x
  OBVIOUS
<1>2. /\ L2 \in Seq(Nat) /\ Len(L2) = x + 1 /\ L2[x + 1] = v
      /\ \A k \in 1..x : L2[k] = L[k]
  OBVIOUS
<1>3. /\ w2 \in Seq(Nat) /\ Len(w2) = l + 1 /\ w2[l + 1] = v
      /\ \A k \in 1..l : w2[k] = w[k]
  OBVIOUS
<1>4. \A k \in 1..l : w[k] = L[x - l + k]
  BY DEF EndsWith
<1> HIDE DEF L2, w2, x, l
<1>5. ASSUME NEW k \in 1..l + 1 PROVE w2[k] = L2[x + 1 - (l + 1) + k]
  <2>1. CASE k = l + 1
    <3>1. x + 1 - (l + 1) + k = x + 1
      BY <1>1, <2>1
    <3> QED BY <1>2, <1>3, <2>1, <3>1
  <2>2. CASE k # l + 1
    <3>1. k \in 1..l /\ x + 1 - (l + 1) + k = x - l + k /\ x - l + k \in 1..x
      BY <1>1, <2>2
    <3> QED BY <1>2, <1>3, <1>4, <3>1
  <2> QED BY <2>1, <2>2
<1>6. EndsWith(L2, w2)
  <2> SUFFICES ASSUME NEW k \in 1..Len(w2) PROVE w2[k] = L2[Len(L2) - Len(w2) + k]
    BY DEF EndsWith
  <2>1. Len(w2) = l + 1 /\ Len(L2) = x + 1
    BY <1>2, <1>3
  <2>2. k \in 1..l + 1
    BY <2>1
  <2>3. w2[k] = L2[x + 1 - (l + 1) + k]
    BY <1>5, <2>2
  <2> DEFINE y == Len(L2)
             z == Len(w2)
  <2>a. y = x + 1 /\ z = l + 1
    BY <2>1
  <2> HIDE DEF y, z
  <2>4. y - z + k = x + 1 - (l + 1) + k
    BY <1>1, <2>2, <2>a
  <2>5. w2[k] = L2[y - z + k]
    BY <2>3, <2>4
  <2> QED BY <2>5 DEF y, z
<1>7. Same(L, L2, x)
  BY <1>2 DEF Same
<1> QED BY <1>2, <1>3, <1>6, <1>7 DEF L2, w2, x, l

LEMMA AppendEntryStep ==
  ASSUME Types, Names, Residue, NEW b \in Begins, Core(b), AppendEntry
  PROVE  Types' /\ Names' /\ Residue' /\ Core(b)'
<1> USE Bounds
<1> DEFINE w == Append(buf, appends + 1)
           L2 == Append(log, appends + 1)
           f == Len(chunkFile[LastFile])
           x == Len(log)
           l == Len(buf)
<1>1. /\ pc = "batch" /\ x < MaxEntries /\ appends < MaxAppends
      /\ appends' = appends + 1 /\ log' = L2
      /\ \/ buf' = w /\ UNCHANGED <<chunkFile, chunks>>
         \/ /\ AutoFlush /\ chunkFile' = FlushedFiles(w)
            /\ chunks' = FlushedChunks(w) /\ buf' = << >>
      /\ UNCHANGED <<chunkNames, prefixFile, prefixNames, control, pc, payload,
                     unlinking, unlinkingPrefix, gcVars, roVars, published, crashes>>
  BY DEF AppendEntry
<1>2. /\ LastFile \in 0..MaxChunks /\ chunkFile \in [0..MaxChunks -> Seq(Nat)]
      /\ b[LastFile] \in Nat /\ f \in Nat /\ x \in Nat /\ l \in Nat
      /\ published \in 0..x /\ log \in Seq(Nat) /\ buf \in Seq(Nat)
  BY Shapes
<1>3. appends \in Nat /\ LastFile = Top(control)
  BY <1>1 DEF Types, TypeOK, LastFile
<1>4. /\ b[LastFile] + f + l = x /\ EndsWith(log, buf) /\ payload = control
      /\ View(chunkFile, b, chunks, control.start, LastFile - control.start + 1, f)
  BY <1>1 DEF Core, Main
<1>5. /\ L2 \in Seq(Nat) /\ Len(L2) = x + 1 /\ w \in Seq(Nat) /\ Len(w) = l + 1
      /\ Same(log, L2, x) /\ EndsWith(L2, w)
  <2>1. l <= x
    <3> HIDE DEF f, x, l
    <3> QED BY <1>2, <1>4
  <2>2. appends + 1 \in Nat
    BY <1>3
  <2> QED BY <1>2, <1>4, <2>1, <2>2, AppendEnds
<1> HIDE DEF w, L2
<1>6. b[LastFile] + f + Len(w) = Len(L2) /\ x <= Len(L2) /\ Len(L2) \in Nat
      /\ published <= Len(L2) /\ published \in 0..Len(L2) /\ Len(L2) <= MaxEntries
  <2> DEFINE y == Len(L2)
             z == Len(w)
  <2>1. y = x + 1 /\ z = l + 1 /\ x < MaxEntries /\ published \in 0..x
        /\ x \in Nat /\ l \in Nat /\ f \in Nat /\ b[LastFile] \in Nat
        /\ b[LastFile] + f + l = x
    BY <1>1, <1>2, <1>4, <1>5
  <2> HIDE DEF f, x, l, y, z
  <2>2. b[LastFile] + f + z = y /\ x <= y /\ y \in Nat
        /\ published <= y /\ published \in 0..y /\ y <= MaxEntries
    BY <2>1
  <2> QED BY <2>2 DEF y, z
<1>7. LastFile' = LastFile
  BY <1>1 DEF LastFile
<1>8. Placed(chunkFile, log, b, LastFile)
  BY DEF Core
<1>9. /\ chunkFile' \in [0..MaxChunks -> Seq(Nat)]
      /\ \A i \in 0..MaxChunks : i # LastFile => chunkFile'[i] = chunkFile[i]
      /\ f <= Len(chunkFile'[LastFile])
      /\ Placed(chunkFile', L2, b, LastFile)
      /\ View(chunkFile', b, chunks', control.start, LastFile - control.start + 1,
              Len(chunkFile'[LastFile]))
      /\ buf' \in Seq(Nat) /\ EndsWith(L2, buf')
      /\ b[LastFile] + Len(chunkFile'[LastFile]) + Len(buf') = Len(L2)
      /\ AutoFlush \/ chunkFile' = chunkFile
  <2>1. CASE buf' = w /\ UNCHANGED <<chunkFile, chunks>>
    <3>1. Placed(chunkFile, L2, b, LastFile)
      BY <1>2, <1>5, <1>6, <1>8, PlacedLonger
    <3>2. f <= Len(chunkFile'[LastFile])
      BY <1>2, <2>1
    <3> QED BY <1>2, <1>4, <1>5, <1>6, <2>1, <3>1, <3>2
  <2>2. CASE AutoFlush /\ chunkFile' = FlushedFiles(w) /\ chunks' = FlushedChunks(w)
             /\ buf' = << >>
    <3>1. /\ FlushedFiles(w) \in [0..MaxChunks -> Seq(Nat)]
          /\ Len(FlushedFiles(w)[LastFile]) = f + Len(w)
          /\ \A i \in 0..MaxChunks : i # LastFile => FlushedFiles(w)[i] = chunkFile[i]
          /\ Placed(FlushedFiles(w), L2, b, LastFile)
          /\ View(FlushedFiles(w), b, FlushedChunks(w), control.start,
                  LastFile - control.start + 1, Len(FlushedFiles(w)[LastFile]))
      BY <1>1, <1>5, <1>6, FlushGrows
    <3>2. buf' \in Seq(Nat) /\ Len(buf') = 0
      BY <2>2
    <3>3. EndsWith(L2, buf')
      BY <3>2 DEF EndsWith
    <3>4. /\ f <= Len(chunkFile'[LastFile])
          /\ b[LastFile] + Len(chunkFile'[LastFile]) + Len(buf') = Len(L2)
      <4>1. Len(chunkFile'[LastFile]) = f + Len(w) /\ Len(w) = l + 1
        BY <1>5, <2>2, <3>1
      <4> DEFINE y == Len(L2)
                 z == Len(w)
      <4>2. /\ b[LastFile] + f + z = y /\ z = l + 1 /\ l \in Nat /\ f \in Nat
            /\ b[LastFile] \in Nat
        BY <1>2, <1>5, <1>6
      <4> HIDE DEF f, l, x, y, z
      <4>3. f <= f + z /\ b[LastFile] + (f + z) + 0 = y
        BY <4>2
      <4> QED BY <3>2, <4>1, <4>3 DEF y, z
    <3> QED BY <2>2, <3>1, <3>2, <3>3, <3>4
  <2> QED BY <1>1, <2>1, <2>2
<1>10. chunks' \in Seq(Chunk)
  BY <1>9 DEF View
<1>11. Types'
  <2>1. log' \in Seq(Nat) /\ published' \in 0..Len(log') /\ Len(log') <= MaxEntries
    BY <1>1, <1>5, <1>6
  <2>2. appends' \in 0..MaxAppends
    BY <1>1, <1>3
  <2>3. pc' = "batch"
    BY <1>1
  <2> QED BY <1>1, <1>9, <1>10, <2>1, <2>2, <2>3 DEF Types, TypeOK, gcVars, roVars
<1>12. Later(chunkFile, prefixFile, log, b, control, published,
             chunkFile', prefixFile', log', b, control', published')
  <2>1. Same(log, log', published)
    <3> HIDE DEF x
    <3> QED BY <1>1, <1>2, <1>5 DEF Same
  <2>2. published <= Len(log') /\ UNCHANGED <<control, prefixFile, published>>
    BY <1>1, <1>6
  <2> QED BY <1>3, <1>9, <2>1, <2>2, GrowthIsLater
<1>13. Sound(chunkFile, prefixFile, log, b, control, published, control, published)'
  <2>1. Sound(chunkFile, prefixFile, log, b, control, published, control, published)
    BY DEF Core
  <2>2. Sound(chunkFile', prefixFile', log', b, control', published', control, published)
    BY <1>11, <1>12, <2>1, LaterTypes, SoundStays
  <2> QED BY <1>1, <2>2
<1>14. Main(b)'
  <2>1. ~AutoFlush => control.poff = Len(chunkFile[Top(control)])
    BY <1>1 DEF Core, Main
  <2>2. pc' = "batch" /\ control' = control /\ payload' = payload /\ log' = L2
    BY <1>1
  <2>3. ~AutoFlush => control'.poff = Len(chunkFile'[Top(control')])
    BY <1>9, <2>1, <2>2
  <2> QED BY <1>4, <1>7, <1>9, <2>2, <2>3 DEF Main
<1>15. Gc(b)'
  BY <1>1, <1>11, <1>12, GcStays
<1>16. Reader(b)'
  BY <1>1, <1>11, <1>12, ReaderStays
<1>17. Names' /\ Residue'
  BY <1>1, <1>7 DEF Names, Residue, gcVars
<1> QED BY <1>1, <1>7, <1>9, <1>13, <1>14, <1>15, <1>16, <1>17, <1>11 DEF Core

LEMMA FlushSuffixStep ==
  ASSUME Types, Names, Residue, NEW b \in Begins, Core(b), FlushSuffix
  PROVE  Types' /\ Names' /\ Residue' /\ Core(b)'
<1> USE Bounds
<1> DEFINE f == Len(chunkFile[LastFile])
           x == Len(log)
           l == Len(buf)
<1>1. /\ pc = "batch" /\ pc' = "control" /\ chunkFile' = FlushedFiles(buf)
      /\ chunks' = FlushedChunks(buf) /\ buf' = << >>
      /\ UNCHANGED <<chunkNames, prefixFile, prefixNames, control, payload, unlinking,
                     unlinkingPrefix, gcVars, roVars, logVars, crashes>>
  BY DEF FlushSuffix
<1>2. /\ LastFile \in 0..MaxChunks /\ b[LastFile] \in Nat /\ f \in Nat
      /\ x \in Nat /\ l \in Nat /\ published \in 0..x /\ buf \in Seq(Nat)
  BY Shapes
<1>3. /\ b[LastFile] + f + l = x /\ EndsWith(log, buf) /\ payload = control
      /\ LastFile = Top(control)
  BY <1>1 DEF Core, Main, LastFile
<1>4. /\ chunkFile' \in [0..MaxChunks -> Seq(Nat)]
      /\ Len(chunkFile'[LastFile]) = f + l
      /\ \A i \in 0..MaxChunks : i # LastFile => chunkFile'[i] = chunkFile[i]
      /\ Placed(chunkFile', log, b, LastFile)
      /\ View(chunkFile', b, chunks', control.start, LastFile - control.start + 1,
              Len(chunkFile'[LastFile]))
  <2>1. x <= x
    BY <1>2
  <2>2. Same(log, log, x)
    BY DEF Same
  <2> QED BY <1>1, <1>2, <1>3, <2>1, <2>2, FlushGrows
<1>5. LastFile' = LastFile
  BY <1>1 DEF LastFile
<1>6. buf' \in Seq(Nat) /\ Len(buf') = 0
  BY <1>1
<1>7. Types'
  <2>1. chunks' \in Seq(Chunk)
    BY <1>4 DEF View
  <2>2. pc' \in Stages \cup {"down"}
    BY <1>1 DEF Stages
  <2> QED BY <1>1, <1>4, <1>6, <2>1, <2>2 DEF Types, TypeOK, gcVars, roVars, logVars
<1>8. Later(chunkFile, prefixFile, log, b, control, published,
            chunkFile', prefixFile', log', b, control', published')
  <2>1. Same(log, log', published) /\ UNCHANGED <<control, prefixFile, published>>
    BY <1>1 DEF Same, logVars
  <2>2. published <= Len(log') /\ f <= Len(chunkFile'[LastFile])
    <3>1. log' = log
      BY <1>1 DEF logVars
    <3>2. published <= x /\ f <= f + l
      <4> HIDE DEF f, x, l
      <4> QED BY <1>2
    <3> QED BY <1>4, <3>1, <3>2
  <2> QED BY <1>3, <1>4, <2>1, <2>2, GrowthIsLater
<1>9. Sound(chunkFile, prefixFile, log, b, control, published, control, published)'
  <2>1. Sound(chunkFile, prefixFile, log, b, control, published, control, published)
    BY DEF Core
  <2>2. Sound(chunkFile', prefixFile', log', b, control', published', control, published)
    BY <1>7, <1>8, <2>1, LaterTypes, SoundStays
  <2> QED BY <1>1, <2>2 DEF logVars
<1>10. Main(b)'
  <2>1. b[LastFile] + Len(chunkFile'[LastFile]) + Len(buf') = Len(log)
    <3> HIDE DEF f, l
    <3>1. b[LastFile] + (f + l) + 0 = b[LastFile] + f + l
      BY <1>2
    <3> QED BY <1>3, <1>4, <1>6, <3>1
  <2>2. EndsWith(log, buf')
    BY <1>6 DEF EndsWith
  <2>3. log' = log
    BY <1>1 DEF logVars
  <2> QED BY <1>1, <1>3, <1>4, <1>5, <2>1, <2>2, <2>3 DEF Main
<1>11. Gc(b)'
  BY <1>1, <1>7, <1>8, GcStays
<1>12. Reader(b)'
  BY <1>1, <1>7, <1>8, ReaderStays
<1>13. Names' /\ Residue'
  BY <1>1, <1>5 DEF Names, Residue, gcVars
<1>14. Placed(chunkFile, log, b, LastFile)'
  BY <1>1, <1>4, <1>5 DEF logVars
<1> QED BY <1>7, <1>9, <1>10, <1>11, <1>12, <1>13, <1>14 DEF Core

\* The control file takes in what was written.
LEMMA FlushControlStep ==
  ASSUME Types, Names, Residue, NEW b \in Begins, Core(b), FlushControl
  PROVE  Types' /\ Names' /\ Residue' /\ Core(b)'
<1> DEFINE t == LastFile
           f == Len(chunkFile[t])
           x == Len(log)
           c == [control EXCEPT !.poff = f]
<1>1. /\ pc = "control" /\ pc' = "ready" /\ payload' = control' /\ published' = x
      /\ control' = [payload EXCEPT !.poff = Last(chunks).end]
      /\ UNCHANGED <<chunkFile, chunkNames, prefixFile, prefixNames, chunks, buf,
                     unlinking, unlinkingPrefix, gcVars, roVars, log, appends, crashes>>
  BY DEF FlushControl, SetPayload
<1>2. /\ t \in 0..MaxChunks /\ b[t] \in Nat /\ f \in Nat /\ x \in Nat
      /\ published \in 0..x /\ control \in Payload
      /\ control.start \in 0..t /\ control.start \in Nat
  <2>1. Top(control) = LastFile
    BY <1>1 DEF LastFile
  <2> QED BY <2>1, Shapes
<1>3. /\ b[t] + f + Len(buf) = x /\ payload = control /\ t = Top(control)
      /\ View(chunkFile, b, chunks, control.start, t - control.start + 1, f)
  BY <1>1 DEF Core, Main, LastFile
<1>4. buf = << >> /\ Len(buf) = 0
  BY <1>1 DEF Types, TypeOK
<1>5. Last(chunks).end = f
  <2>1. Len(chunks) = t - control.start + 1
    BY <1>3 DEF View
  <2> QED BY <1>3, <2>1 DEF View, Last
<1>6. control' = c
  BY <1>1, <1>3, <1>5
<1>7. /\ c \in Payload /\ c.start = control.start /\ c.num = control.num /\ c.poff = f
      /\ c.gen = control.gen /\ c.target = control.target
      /\ c.startOff = control.startOff /\ c.dead = control.dead /\ Top(c) = Top(control)
  <2> HIDE DEF f
  <2> QED BY <1>2 DEF Payload, Top
<1> HIDE DEF c
<1>8. LastFile' = t
  <2>1. LastFile' = Top(control')
    BY <1>1 DEF LastFile
  <2> QED BY <1>3, <1>6, <1>7, <2>1
<1>9. b[t] + f = x
  <2> HIDE DEF f, x, t
  <2> QED BY <1>2, <1>3, <1>4
<1>10. Types'
  <2>1. published' \in 0..Len(log')
    <3>1. x \in 0..x
      BY <1>2
    <3> QED BY <1>1, <3>1
  <2>2. pc' \in Stages \cup {"down"} /\ control' \in Payload /\ payload' \in Payload
    BY <1>1, <1>6, <1>7 DEF Stages
  <2> QED BY <1>1, <1>4, <2>1, <2>2 DEF Types, TypeOK, gcVars, roVars
<1>11. Later(chunkFile, prefixFile, log, b, control, published,
             chunkFile', prefixFile', log', b, control', published')
  <2>1. Sized(chunkFile, Top(control)) /\ Top(control) \in Nat
    BY Shapes
  <2>2. \A i \in 0..Top(control) : b[i] = b[i] /\ Len(chunkFile[i]) <= Len(chunkFile[i])
    BY <2>1 DEF Sized
  <2>3. published <= x
    <3> HIDE DEF x
    <3> QED BY <1>2
  <2>4. Same(log, log, published)
    BY DEF Same
  <2>5. Top(control) <= Top(c) /\ control.start <= c.start /\ control.gen <= c.gen
    BY SMTT(30), <1>2, <1>7, <2>1, PayloadShape
  <2> QED BY <1>1, <1>6, <1>7, <2>2, <2>3, <2>4, <2>5 DEF Later
<1>12. Sound(chunkFile, prefixFile, log, b, control, published, control, published)
  BY DEF Core
<1>13. Sound(chunkFile, prefixFile, log, b, c, x, c, x)
  <2>1. x \in 0..x /\ x = b[t] + f /\ f <= f
    BY <1>2, <1>9
  <2>2. Rooted(prefixFile, log, b, c)
    BY <1>7, <1>12 DEF Sound, Rooted
  <2>3. c.target < x
    <3>1. control.target < published /\ control.target \in Int
      BY <1>2, <1>12, PayloadShape DEF Sound
    <3> HIDE DEF x
    <3> QED BY <1>2, <1>7, <3>1
  <2>4. Top(c) <= Top(c) /\ c.gen <= c.gen /\ c.start <= c.start
    BY <1>7, PayloadShape
  <2> QED BY <1>3, <1>7, <2>1, <2>2, <2>3, <2>4 DEF Sound
<1>14. Sound(chunkFile, prefixFile, log, b, control, published, control, published)'
  BY <1>1, <1>6, <1>13
<1>15. Main(b)'
  <2>1. EndsWith(log, buf)
    BY DEF Core, Main
  <2>2. control'.poff = Len(chunkFile'[Top(control')])
    BY <1>1, <1>3, <1>6, <1>7
  <2> QED BY <1>1, <1>3, <1>6, <1>7, <1>8, <2>1, <2>2 DEF Main
<1>16. Gc(b)'
  BY <1>1, <1>6, <1>7, <1>10, <1>11, GcStays
<1>17. Reader(b)'
  BY <1>1, <1>10, <1>11, ReaderStays
<1>18. Names' /\ Residue'
  BY <1>1, <1>6, <1>7, <1>8 DEF Names, Residue, gcVars
<1>19. Placed(chunkFile, log, b, LastFile)'
  BY <1>1, <1>8 DEF Core
<1> QED BY <1>10, <1>14, <1>15, <1>16, <1>17, <1>18, <1>19 DEF Core
-----------------------------------------------------------------------------
(* Splits. *)

\* A file u with no entries follows the last file t, which has some.
Followed(F, F2, b, b2, t, u) ==
  /\ u = t + 1 /\ u \in 0..MaxChunks /\ Alike(F, F2, u)
  /\ Len(F2[u]) = 0 /\ Len(F[t]) # 0
  /\ b2 = [b EXCEPT ![u] = b[t] + Len(F[t])]

LEMMA PlacedEmpty ==
  ASSUME NEW F \in [0..MaxChunks -> Seq(Nat)], NEW F2, NEW L, NEW b \in Begins,
         NEW t, Placed(F, L, b, t), NEW u, NEW b2, Followed(F, F2, b, b2, t, u)
  PROVE  b2 \in Begins /\ Placed(F2, L, b2, u) /\ \A i \in 0..t : b2[i] = b[i]
<1> USE DEF Followed
<1>0. t \in 0..MaxChunks /\ t \in Nat /\ u \in Nat
  BY Bounds DEF Placed
<1>1. b[t] \in Nat /\ Len(F[t]) \in Nat
  BY <1>0, FileShape
<1>2. b2 \in Begins /\ b2[u] = b[t] + Len(F[t]) /\ \A i \in 0..MaxChunks : i # u => b2[i] = b[i]
  <2> DEFINE v == b[t] + Len(F[t])
  <2>1. v \in Nat
    BY <1>1
  <2> HIDE DEF v
  <2>2. b2 = [b EXCEPT ![u] = v]
    BY DEF v
  <2>3. b2 \in Begins /\ b2[u] = v /\ \A i \in 0..MaxChunks : i # u => b2[i] = b[i]
    BY <2>1, <2>2 DEF Begins
  <2> QED BY <2>3 DEF v
<1>3. \A i \in 0..t : b2[i] = b[i] /\ F2[i] = F[i]
  <2> TAKE i \in 0..t
  <2>1. i \in 0..MaxChunks /\ i # u /\ i \in 0..u - 1
    BY <1>0, Bounds
  <2> QED BY <1>2, <2>1 DEF Alike
<1>4. ASSUME NEW i \in 0..u, NEW k \in 1..Len(F2[i])
      PROVE  b2[i] + k <= Len(L) /\ F2[i][k] = L[b2[i] + k]
  <2>1. i # u
    <3>1. CASE i = u
      <4>1. k \in 1..0
        BY <3>1
      <4> QED BY <4>1
    <3> QED BY <3>1
  <2>2. i \in 0..t
    BY <1>0, <2>1
  <2>3. b2[i] = b[i] /\ F2[i] = F[i]
    BY <1>3, <2>2
  <2>4. k \in 1..Len(F[i])
    BY <2>3
  <2>5. b[i] + k <= Len(L) /\ F[i][k] = L[b[i] + k]
    BY <2>2, <2>4 DEF Placed
  <2> QED BY <2>3, <2>5
<1>5. ASSUME NEW i \in 0..u - 1 PROVE b2[i + 1] = b2[i] + Len(F2[i]) /\ Len(F2[i]) # 0
  <2>1. CASE i = t
    <3>1. t \in 0..t
      BY <1>0
    <3>2. b2[t] = b[t] /\ F2[t] = F[t]
      BY <1>3, <3>1
    <3>3. b2[t + 1] = b[t] + Len(F[t])
      BY <1>2
    <3> QED BY <2>1, <3>2, <3>3
  <2>2. CASE i # t
    <3>1. i \in 0..t - 1 /\ i \in 0..t /\ i + 1 \in 0..t
      BY <1>0, <2>2
    <3>2. b[i + 1] = b[i] + Len(F[i]) /\ Len(F[i]) # 0
      BY <3>1 DEF Placed
    <3>3. b2[i + 1] = b[i + 1] /\ b2[i] = b[i] /\ F2[i] = F[i]
      BY <1>3, <3>1
    <3> QED BY <3>2, <3>3
  <2> QED BY <2>1, <2>2
<1> QED BY <1>2, <1>3, <1>4, <1>5 DEF Placed

\* A view, with the file that follows as one more chunk.
LEMMA ViewLonger ==
  ASSUME NEW F, NEW b, NEW cs, NEW s, NEW n, NEW e \in Nat, View(F, b, cs, s, n, e),
         NEW t, t = s + n - 1, e = Len(F[t]), NEW u, u = t + 1,
         NEW off \in Nat, off = b[u] - b[s],
         NEW cs2, cs2 = Append([cs EXCEPT ![n] = [cs[n] EXCEPT !.end = e]],
                               [idx |-> u, off |-> off, end |-> 0])
  PROVE  View(F, b, cs2, s, u - s + 1, 0)
<1> DEFINE closed == [cs[n] EXCEPT !.end = e]
           cs1 == [cs EXCEPT ![n] = closed]
           new == [idx |-> u, off |-> off, end |-> 0]
           m == n + 1
<1>1. /\ cs \in Seq(Chunk) /\ Len(cs) = n /\ n \in Nat \ {0} /\ s \in Nat /\ n \in 1..Len(cs)
      /\ cs[n].end = e
  BY DEF View
<1>2. t \in Nat /\ u \in Nat /\ u - s + 1 = m /\ u = s + m - 1 /\ m \in Nat \ {0}
  BY SMTT(30), <1>1
<1>3. cs[n] \in Chunk
  BY <1>1
<1>4. closed \in Chunk /\ closed.idx = cs[n].idx /\ closed.off = cs[n].off /\ closed.end = cs[n].end
  BY <1>1, <1>3 DEF Chunk
<1>5. new \in Chunk /\ new.idx = u /\ new.off = off /\ new.end = 0
  BY <1>2 DEF Chunk
<1> HIDE DEF closed, new
<1>6. cs1 \in Seq(Chunk) /\ Len(cs1) = n /\ cs1[n] = closed
      /\ \A i \in 1..n - 1 : cs1[i] = cs[i]
  BY <1>1, <1>4
<1> HIDE DEF cs1
<1>7. cs2 \in Seq(Chunk) /\ Len(cs2) = m /\ cs2[m] = new /\ \A i \in 1..n : cs2[i] = cs1[i]
  <2>1. cs2 = Append(cs1, new)
    BY DEF cs1, closed, new
  <2>2. cs1 \in Seq(Chunk) /\ Len(cs1) = n /\ new \in Chunk
    BY <1>5, <1>6
  <2>3. /\ Append(cs1, new) \in Seq(Chunk) /\ Len(Append(cs1, new)) = Len(cs1) + 1
        /\ Append(cs1, new)[Len(cs1) + 1] = new
        /\ \A i \in 1..Len(cs1) : Append(cs1, new)[i] = cs1[i]
    BY <2>2
  <2> QED BY <2>1, <2>2, <2>3
<1>8. \A i \in 1..n : /\ cs2[i].idx = cs[i].idx /\ cs2[i].off = cs[i].off
                      /\ cs2[i].end = cs[i].end
  <2> TAKE i \in 1..n
  <2>1. i = n \/ i \in 1..n - 1
    BY <1>1
  <2>2. cs2[i] = cs1[i]
    BY <1>7
  <2> QED BY <1>4, <1>6, <2>1, <2>2
<1>9. ASSUME NEW i \in 1..m
      PROVE  cs2[i].idx = s + i - 1 /\ cs2[i].off = b[s + i - 1] - b[s]
  <2>1. CASE i = m
    BY <1>2, <1>5, <1>7, <2>1
  <2>2. CASE i # m
    <3>1. i \in 1..n
      BY <1>1, <2>2
    <3>2. cs[i].idx = s + i - 1 /\ cs[i].off = b[s + i - 1] - b[s]
      BY <3>1 DEF View
    <3> QED BY <1>8, <3>1, <3>2
  <2> QED BY <2>1, <2>2
<1>10. ASSUME NEW i \in 1..m - 1 PROVE cs2[i].end = Len(F[s + i - 1])
  <2>1. i \in 1..n
    BY <1>1
  <2>2. CASE i = n
    <3>1. s + i - 1 = t
      BY <2>2
    <3> QED BY <1>1, <1>8, <2>1, <2>2, <3>1
  <2>3. CASE i # n
    <3>1. i \in 1..n - 1
      BY <1>1, <2>1, <2>3
    <3> QED BY <1>8, <2>1, <3>1 DEF View
  <2> QED BY <2>2, <2>3
<1>11. cs2[m].end = 0
  BY <1>5, <1>7
<1> HIDE DEF m
<1> QED BY <1>1, <1>2, <1>7, <1>9, <1>10, <1>11 DEF View

\* A split gives the new chunk the end of the last one as its beginning.
LEMMA AddChunkStep ==
  ASSUME Types, Names, Residue, NEW b \in Begins, Core(b), AddChunk
  PROVE  Types' /\ Names' /\ Residue' /\ \E b2 \in Begins : Core(b2)'
<1> DEFINE t == LastFile
           u == t + 1
           s == control.start
           n == t - s + 1
           f == Len(chunkFile[t])
           x == Len(log)
           ext == [b EXCEPT ![u] = b[t] + f]
           off == Last(chunks).off + Last(chunks).end
           closed == [Last(chunks) EXCEPT !.end = ChunkEnd(Last(chunks).idx, FALSE, 0)]
           new == Last(chunks).idx + 1
<1>1. /\ pc = "ready" /\ Last(chunks).end # 0 /\ new <= MaxChunks /\ pc' = "split"
      /\ chunks' = Append([chunks EXCEPT ![Len(chunks)] = closed],
                          [idx |-> new, off |-> off, end |-> 0])
      /\ chunkFile' = [chunkFile EXCEPT ![new] = << >>]
      /\ chunkNames' = chunkNames \cup {new}
      /\ UNCHANGED <<prefixFile, prefixNames, control, payload, buf, unlinking,
                     unlinkingPrefix, gcVars, roVars, logVars, crashes>>
  BY DEF AddChunk
<1>2. /\ published = x /\ payload = control /\ t = Top(control) /\ control.poff = f
      /\ buf = << >>
  BY <1>1, ReadyIsPublished
<1>3. /\ t \in 0..MaxChunks /\ t \in Nat /\ b[t] \in Nat /\ f \in Nat /\ x \in Nat
      /\ s \in 0..t /\ s \in Nat /\ chunkFile \in [0..MaxChunks -> Seq(Nat)]
      /\ control \in Payload
  BY <1>2, Shapes
<1>4. b[t] + f + Len(buf) = x /\ View(chunkFile, b, chunks, s, n, f)
  BY <1>1 DEF Core, Main
<1>5. Len(buf) = 0 /\ b[t] + f = x
  <2>1. Len(buf) = 0
    BY <1>2
  <2> HIDE DEF f, x, t
  <2> QED BY <1>3, <1>4, <2>1
<1> HIDE DEF t, x
<1>6. n \in Nat \ {0} /\ t = s + n - 1
  <2> HIDE DEF s
  <2> QED BY <1>3
<1> HIDE DEF n
<1>7. /\ Len(chunks) = n /\ Last(chunks) = chunks[n] /\ chunks[n].idx = t
      /\ chunks[n].end = f /\ chunks[n].off = b[t] - b[s]
  <2>1. n \in 1..n
    BY <1>6
  <2> HIDE DEF s, f
  <2>2. chunks[n].idx = s + n - 1 /\ chunks[n].end = f /\ Len(chunks) = n
        /\ chunks[n].off = b[s + n - 1] - b[s]
    BY <1>4, <2>1 DEF View
  <2> QED BY <1>6, <2>2 DEF Last
<1>8. new = u /\ u \in 0..MaxChunks /\ u = t + 1 /\ f # 0
  BY <1>1, <1>3, <1>7, Bounds
<1>9. closed = [chunks[n] EXCEPT !.end = f]
  BY <1>7 DEF ChunkEnd
<1>10. b[s] \in Nat /\ b[s] <= b[t]
  <2>1. Placed(chunkFile, log, b, t)
    BY DEF Core, t
  <2>2. s \in 0..t /\ t \in 0..t /\ s <= t
    BY <1>3
  <2> HIDE DEF s
  <2> QED BY <1>3, <2>1, <2>2, Growing
<1>11. off = ext[u] - b[s] /\ off \in Nat /\ ext[u] = b[t] + f
  <2>1. ext[u] = b[t] + f
    BY <1>8 DEF Begins
  <2>2. off = (b[t] - b[s]) + f
    BY <1>7
  <2> HIDE DEF f, s, off, ext, u
  <2> QED BY <1>3, <1>10, <2>1, <2>2
<1>12. /\ chunkFile' \in [0..MaxChunks -> Seq(Nat)] /\ Len(chunkFile'[u]) = 0
       /\ \A i \in 0..MaxChunks : i # u => chunkFile'[i] = chunkFile[i]
  <2>1. << >> \in Seq(Nat) /\ Len(<< >>) = 0
    OBVIOUS
  <2>2. chunkFile' = [chunkFile EXCEPT ![u] = << >>]
    BY <1>1, <1>8
  <2> HIDE DEF u
  <2> QED BY <1>3, <1>8, <2>1, <2>2
<1> HIDE DEF f, ext, off, closed, new, u, s
<1>13. Alike(chunkFile, chunkFile', u)
  <2> SUFFICES ASSUME NEW i \in 0..u - 1 PROVE chunkFile'[i] = chunkFile[i]
    BY DEF Alike
  <2>1. i \in 0..MaxChunks /\ i # u
    BY <1>8, Bounds
  <2> QED BY <1>12, <2>1
<1>14. PICK b2 \in Begins : /\ Placed(chunkFile', log, b2, u) /\ b2[u] = ext[u]
                            /\ \A i \in 0..t : b2[i] = b[i]
  <2>1. Placed(chunkFile, log, b, t)
    BY DEF Core, t
  <2>2. ext = [b EXCEPT ![u] = b[t] + Len(chunkFile[t])] /\ Len(chunkFile[t]) # 0
    BY <1>8 DEF f, ext
  <2>3. u = t + 1 /\ u \in 0..MaxChunks /\ Len(chunkFile'[u]) = 0
    BY <1>8, <1>12
  <2>4. /\ ext \in Begins /\ Placed(chunkFile', log, ext, u)
        /\ \A i \in 0..t : ext[i] = b[i]
    <3>1. chunkFile \in [0..MaxChunks -> Seq(Nat)]
      BY <1>3
    <3>2. Followed(chunkFile, chunkFile', b, ext, t, u)
      BY <1>13, <2>2, <2>3 DEF Followed
    <3>3. \A F \in [0..MaxChunks -> Seq(Nat)] :
            Placed(F, log, b, t) /\ Followed(F, chunkFile', b, ext, t, u) =>
              ext \in Begins /\ Placed(chunkFile', log, ext, u)
                /\ \A i \in 0..t : ext[i] = b[i]
      BY SMTT(30), PlacedEmpty
    <3> QED BY <2>1, <3>1, <3>2, <3>3
  <2> QED BY <2>4
<1>15. View(chunkFile', b2, chunks', s, u - s + 1, 0)
  <2>1. View(chunkFile', b2, chunks, s, n, f)
    <3>1. /\ \A i \in 0..t : b2[i] = b[i]
          /\ \A i \in 0..t - 1 : chunkFile'[i] = chunkFile[i]
      <4> SUFFICES ASSUME NEW i \in 0..t - 1 PROVE chunkFile'[i] = chunkFile[i]
        BY <1>14
      <4>1. i \in 0..u - 1
        BY <1>3, <1>8
      <4> QED BY <1>13, <4>1 DEF Alike
    <3>2. s + n - 1 <= t
      BY <1>3, <1>6
    <3>3. t \in Nat
      BY <1>3
    <3> QED BY <1>4, <3>1, <3>2, <3>3, ViewStays
  <2>2. f = Len(chunkFile'[t])
    <3>1. t # u
      BY <1>3, <1>8
    <3> QED BY <1>3, <1>12, <3>1 DEF f
  <2>3. off = b2[u] - b2[s]
    <3>1. s \in 0..t
      BY <1>3
    <3>2. off = b2[u] - b[s]
      BY <1>11, <1>14
    <3> QED BY <1>14, <3>1, <3>2
  <2>4. chunks' = Append([chunks EXCEPT ![n] = [chunks[n] EXCEPT !.end = f]],
                         [idx |-> u, off |-> off, end |-> 0])
    BY <1>1, <1>7, <1>8, <1>9
  <2> QED BY <1>3, <1>6, <1>8, <1>11, <2>1, <2>2, <2>3, <2>4, ViewLonger
<1>16. LastFile' = u
  BY <1>1, <1>2, <1>8 DEF LastFile
<1>17. Types'
  <2>1. chunks' \in Seq(Chunk)
    BY <1>15 DEF View
  <2>2. pc' \in Stages \cup {"down"} /\ chunkNames' \subseteq 0..MaxChunks
    BY <1>1, <1>8 DEF Stages, Types, TypeOK
  <2> QED BY <1>1, <1>2, <1>12, <2>1, <2>2 DEF Types, TypeOK, gcVars, roVars, logVars
<1>18. Later(chunkFile, prefixFile, log, b, control, published,
             chunkFile', prefixFile', log', b2, control', published')
  <2>1. ASSUME NEW i \in 0..t
        PROVE  b2[i] = b[i] /\ chunkFile'[i] = chunkFile[i] /\ Len(chunkFile[i]) \in Nat
    <3>1. i \in 0..MaxChunks /\ i # u
      BY <1>3, <1>8, Bounds
    <3> QED BY <1>3, <1>12, <1>14, <3>1, FileShape
  <2>2. \A i \in 0..t : b2[i] = b[i] /\ Len(chunkFile[i]) <= Len(chunkFile'[i])
    BY <2>1
  <2>3. \A i \in 0..t - 1 : chunkFile'[i] = chunkFile[i]
    <3> TAKE i \in 0..t - 1
    <3>1. i \in 0..t
      BY <1>3
    <3> QED BY <2>1, <3>1
  <2>4. UNCHANGED <<prefixFile, log, control, published>>
    BY <1>1 DEF logVars
  <2>5. published <= published /\ published <= Len(log)
    BY <1>2, <1>3 DEF x
  <2>6. Same(log, log, published)
    BY DEF Same
  <2>7. Top(control) <= Top(control) /\ control.start <= control.start
        /\ control.gen <= control.gen
    BY <1>3, PayloadShape
  <2> QED BY <1>2, <2>2, <2>3, <2>4, <2>5, <2>6, <2>7 DEF Later
<1>19. Sound(chunkFile, prefixFile, log, b2, control, published, control, published)'
  <2>1. Sound(chunkFile, prefixFile, log, b, control, published, control, published)
    BY DEF Core
  <2>2. Sound(chunkFile', prefixFile', log', b2, control', published', control, published)
    BY <1>17, <1>18, <2>1, LaterTypes, SoundStays
  <2> QED BY <1>1, <2>2 DEF logVars
<1>20. Main(b2)'
  <2>1. b2[u] + 0 + Len(buf) = Len(log)
    <3>1. b2[u] = x
      BY <1>5, <1>11, <1>14
    <3> QED BY <1>3, <1>5, <3>1 DEF x
  <2>2. EndsWith(log, buf)
    BY DEF Core, Main
  <2>3. control.poff = Len(chunkFile'[Top(control)])
    <3>1. t # u
      BY <1>3, <1>8
    <3> QED BY <1>2, <1>3, <1>12, <3>1 DEF f
  <2>4. log' = log /\ control' = control /\ payload' = control /\ buf' = buf
    BY <1>1, <1>2 DEF logVars
  <2> QED BY <1>1, <1>12, <1>15, <1>16, <2>1, <2>2, <2>3, <2>4 DEF Main, s
<1>21. Gc(b2)'
  BY <1>1, <1>17, <1>18, GcStays
<1>22. Reader(b2)'
  BY <1>1, <1>17, <1>18, ReaderStays
<1>23. Names'
  <2>1. \A i \in s..u : i \in s..t \/ i = u
    BY <1>3, <1>8
  <2> QED BY <1>1, <1>8, <1>16, <2>1 DEF Names, gcVars, s, t
<1>24. Residue'
  <2>1. u \in control.start..control.start + control.num
    <3>1. control.num \in Nat /\ t = s + control.num - 1
      BY <1>2, <1>3, PayloadShape DEF s
    <3> QED BY <1>3, <1>8, <3>1 DEF s
  <2> QED BY <1>1, <1>8, <2>1 DEF Residue, gcVars
<1>25. Placed(chunkFile, log, b2, LastFile)'
  BY <1>1, <1>14, <1>16 DEF logVars
<1> QED BY <1>14, <1>17, <1>19, <1>20, <1>21, <1>22, <1>23, <1>24, <1>25 DEF Core

\* The control file takes the new chunk in.
LEMMA SplitControlStep ==
  ASSUME Types, Names, Residue, NEW b \in Begins, Core(b), SplitControl
  PROVE  Types' /\ Names' /\ Residue' /\ Core(b)'
<1> DEFINE t == Top(control)
           u == LastFile
           c == [control EXCEPT !.num = @ + 1, !.poff = 0]
<1>1. /\ pc = "split" /\ pc' = "ready" /\ payload' = control'
      /\ control' = [payload EXCEPT !.num = @ + 1, !.poff = 0]
      /\ UNCHANGED <<chunkFile, chunkNames, prefixFile, prefixNames, chunks, buf,
                     unlinking, unlinkingPrefix, gcVars, roVars, logVars, crashes>>
  BY DEF SplitControl, SetPayload
<1>u. UNCHANGED <<log, published, appends>>
  BY <1>1 DEF logVars
<1>2. /\ u \in 0..MaxChunks /\ u = t + 1 /\ t \in 0..u /\ t \in Nat
      /\ chunkFile \in [0..MaxChunks -> Seq(Nat)] /\ control \in Payload
      /\ published \in 0..Len(log) /\ Len(log) \in Nat
  BY <1>1, Shapes
<1>3. /\ payload = control /\ Len(chunkFile[u]) = 0 /\ control.poff = Len(chunkFile[t])
      /\ b[u] + Len(chunkFile[u]) + Len(buf) = Len(log) /\ EndsWith(log, buf)
      /\ View(chunkFile, b, chunks, control.start, u - control.start + 1, Len(chunkFile[u]))
  BY <1>1 DEF Core, Main
<1>4. control' = c
  BY <1>1, <1>3
<1>5. /\ c \in Payload /\ c.start = control.start /\ c.num = control.num + 1 /\ c.poff = 0
      /\ c.gen = control.gen /\ c.target = control.target
      /\ c.startOff = control.startOff /\ c.dead = control.dead
  <2>1. control \in Payload
    BY <1>2
  <2>2. control.num \in Nat \ {0} /\ control.num + 1 \in Nat \ {0}
    BY <2>1, PayloadShape
  <2> QED BY <2>1, <2>2 DEF Payload
<1> HIDE DEF c
<1>6. Top(c) = u
  <2>1. /\ control.num \in Nat /\ control.start \in Nat
        /\ t = control.start + control.num - 1
    BY <1>2, PayloadShape
  <2>2. Top(c) = control.start + (control.num + 1) - 1
    BY <1>5 DEF Top
  <2>3. u = t + 1
    BY <1>2
  <2> HIDE DEF t, u
  <2> QED BY <2>1, <2>2, <2>3
<1>7. LastFile' = u
  BY <1>1, <1>4, <1>6 DEF LastFile
<1>8. b[u] = published /\ published \in Nat
  <2>1. b[u] = b[t] + Len(chunkFile[t])
    <3>1. t \in 0..u - 1
      BY <1>2
    <3> QED BY <1>2, <3>1 DEF Core, Placed
  <2>2. published = b[t] + control.poff
    BY DEF Core, Sound
  <2> DEFINE x == Len(log)
  <2>3. x \in Nat /\ published \in 0..x
    BY <1>2
  <2> HIDE DEF x
  <2>4. published \in Nat
    BY <2>3
  <2> QED BY <1>3, <2>1, <2>2, <2>4
<1>9. Types'
  <2>1. pc' \in Stages \cup {"down"} /\ control' \in Payload /\ payload' \in Payload
    BY <1>1, <1>4, <1>5 DEF Stages
  <2>2. buf' = << >>
    BY <1>1 DEF Types, TypeOK
  <2> QED BY <1>1, <1>u, <2>1, <2>2 DEF Types, TypeOK, gcVars, roVars
<1>10. Later(chunkFile, prefixFile, log, b, control, published,
             chunkFile', prefixFile', log', b, control', published')
  <2>1. \A i \in 0..t : b[i] = b[i] /\ Len(chunkFile[i]) <= Len(chunkFile[i])
    <3>1. Sized(chunkFile, t)
      BY Shapes
    <3> QED BY <3>1 DEF Sized
  <2>2. published <= published /\ published <= Len(log)
    <3> DEFINE x == Len(log)
    <3>1. x \in Nat /\ published \in 0..x
      BY <1>2
    <3> HIDE DEF x
    <3>2. published <= published /\ published <= x
      BY <3>1
    <3> QED BY <3>2 DEF x
  <2>3. Same(log, log, published)
    BY DEF Same
  <2>4. Top(control) <= Top(c) /\ control.start <= c.start /\ control.gen <= c.gen
    <3>1. control.start \in Nat /\ control.gen \in Nat
      BY <1>2, PayloadShape
    <3>2. t \in Nat /\ u = t + 1
      BY <1>2
    <3>3. t <= u
      <4> HIDE DEF t, u
      <4> QED BY <3>2
    <3> QED BY <1>5, <1>6, <3>1, <3>3
  <2> QED BY <1>1, <1>u, <1>4, <1>5, <2>1, <2>2, <2>3, <2>4 DEF Later
<1>11. Sound(chunkFile, prefixFile, log, b, control, published, control, published)
  BY DEF Core
<1>12. Sound(chunkFile, prefixFile, log, b, c, published, c, published)
  <2>1. Rooted(prefixFile, log, b, c) /\ c.target < published
    BY <1>5, <1>11 DEF Sound, Rooted
  <2>2. published \in 0..published /\ published = b[u] + 0 /\ 0 <= Len(chunkFile[u])
    BY <1>3, <1>8
  <2>3. Top(c) <= Top(c) /\ c.gen <= c.gen /\ c.start <= c.start
    BY <1>5, PayloadShape
  <2> QED BY <1>5, <1>6, <2>1, <2>2, <2>3 DEF Sound
<1>13. Sound(chunkFile, prefixFile, log, b, control, published, control, published)'
  BY <1>1, <1>u, <1>4, <1>12
<1>14. Main(b)'
  <2>1. control'.poff = Len(chunkFile'[Top(control')])
    BY <1>1, <1>3, <1>4, <1>5, <1>6
  <2> QED BY <1>1, <1>u, <1>3, <1>4, <1>5, <1>7, <2>1 DEF Main
<1>15. Gc(b)'
  BY <1>1, <1>4, <1>5, <1>9, <1>10, GcStays
<1>16. Reader(b)'
  BY <1>1, <1>9, <1>10, ReaderStays
<1>17. Names'
  BY <1>1, <1>4, <1>5, <1>7 DEF Names, gcVars
<1>18. Residue'
  <2>1. control.start..control.start + control.num \subseteq c.start..c.start + c.num
    <3>1. control.start \in Nat /\ control.num \in Nat
      BY <1>2, PayloadShape
    <3> QED BY <1>5, <3>1
  <2> QED BY <1>1, <1>4, <1>5, <2>1 DEF Residue, gcVars
<1>19. Placed(chunkFile, log, b, LastFile)'
  BY <1>1, <1>u, <1>7 DEF Core
<1> QED BY <1>9, <1>13, <1>14, <1>15, <1>16, <1>17, <1>18, <1>19 DEF Core
-----------------------------------------------------------------------------
(* The writer dies and starts again. *)

\* The log up to q.
LEMMA CutLog ==
  ASSUME NEW L \in Seq(Nat), NEW q \in 0..Len(L), NEW L2, L2 = SubSeq(L, 1, q)
  PROVE  L2 \in Seq(Nat) /\ Len(L2) = q /\ Same(L, L2, q)
<1> DEFINE x == Len(L)
<1>0. x \in Nat /\ q \in 0..x /\ q \in Nat
  <2>1. x \in Nat /\ q \in 0..x
    OBVIOUS
  <2> HIDE DEF x
  <2> QED BY <2>1
<1>1. L2 \in Seq(Nat) /\ Len(L2) = q /\ \A k \in 1..q : L2[k] = L[k]
  <2>1. q \in 0..Len(L)
    OBVIOUS
  <2>2. \A k \in 1..q : k \in 1..Len(L)
    <3> SUFFICES ASSUME NEW k \in 1..q PROVE k \in 1..x
      OBVIOUS
    <3> HIDE DEF x
    <3> QED BY <1>0
  <2>3. L2 \in Seq(Nat)
    BY <2>1, <2>2
  <2>4. Len(L2) = q
    BY <2>1
  <2>5. \A k \in 1..q : L2[k] = L[k]
    BY <2>1, <2>2
  <2> QED BY <2>3, <2>4, <2>5
<1> QED BY <1>1 DEF Same

\* L2 is the log up to the end of file t, one of the first m.
EndsAt(F, L, b, m, t, L2) ==
  /\ t \in 0..m
  /\ Len(L2) = b[t] + Len(F[t])
  /\ Same(L, L2, Len(L2))

LEMMA PlacedCut ==
  ASSUME NEW F \in [0..MaxChunks -> Seq(Nat)], NEW L, NEW b \in Begins,
         NEW m, Placed(F, L, b, m), NEW t, NEW L2, EndsAt(F, L, b, m, t, L2)
  PROVE  Placed(F, L2, b, t)
<1> DEFINE q == Len(L2)
<1>1. q = b[t] + Len(F[t]) /\ \A k \in 1..q : L2[k] = L[k]
  BY DEF EndsAt, Same
<1>2. m \in 0..MaxChunks /\ t \in 0..MaxChunks /\ t \in Nat /\ m \in Nat /\ t \in 0..m
  <2>1. m \in 0..MaxChunks /\ t \in 0..m
    BY DEF Placed, EndsAt
  <2>2. MaxChunks \in Nat
    BY Bounds
  <2>3. m \in Nat
    BY <2>1, <2>2
  <2> QED BY <2>1, <2>2, <2>3
<1>q. q \in Nat
  <2>1. b[t] \in Nat /\ Len(F[t]) \in Nat
    BY <1>2, FileShape
  <2> QED BY <1>1, <2>1
<1> HIDE DEF q
<1>g. /\ \A i \in 0..t : i \in 0..m /\ i <= t /\ i \in 0..MaxChunks
      /\ \A i \in 0..t : i < t => b[i] + Len(F[i]) <= b[t]
  <2>1. \A i \in 0..t : i \in 0..m /\ i <= t /\ i \in 0..MaxChunks
    BY <1>2, Bounds
  <2>2. \A i, j \in 0..m : i <= j => (i < j => b[i] + Len(F[i]) <= b[j])
    BY Growing
  <2> QED BY <1>2, <2>1, <2>2
<1>3. ASSUME NEW i \in 0..t, NEW k \in 1..Len(F[i])
      PROVE  b[i] + k <= q /\ F[i][k] = L2[b[i] + k]
  <2>1. i \in 0..m /\ i <= t /\ i \in 0..MaxChunks
    BY <1>g
  <2>2. b[i] \in Nat /\ Len(F[i]) \in Nat /\ b[t] \in Nat /\ Len(F[t]) \in Nat
    BY <1>2, <2>1, FileShape
  <2>3. b[i] + Len(F[i]) <= q
    <3>1. CASE i = t
      <4>1. b[i] + Len(F[i]) = q
        BY <1>1, <3>1
      <4> QED BY <1>q, <4>1
    <3>2. CASE i # t
      <4>1. i < t
        BY <1>2, <3>2
      <4>2. b[i] + Len(F[i]) <= b[t]
        BY <1>g, <4>1
      <4> DEFINE f == Len(F[i])
                 g == Len(F[t])
      <4>3. q = b[t] + g /\ f \in Nat /\ g \in Nat /\ b[i] + f <= b[t]
        BY <1>1, <2>2, <4>2
      <4> HIDE DEF f, g
      <4>4. b[i] + f <= q
        BY <1>q, <2>2, <4>3
      <4> QED BY <4>4 DEF f
    <3> QED BY <3>1, <3>2
  <2>4. k \in Nat /\ k >= 1 /\ k <= Len(F[i])
    BY <2>2
  <2>5. b[i] + k \in 1..q
    <3> DEFINE f == Len(F[i])
    <3>1. f \in Nat /\ b[i] + f <= q /\ k <= f
      BY <2>2, <2>3, <2>4
    <3> HIDE DEF f
    <3> QED BY <1>q, <2>2, <2>4, <3>1
  <2>6. F[i][k] = L[b[i] + k]
    BY <2>1 DEF Placed
  <2>7. L2[b[i] + k] = L[b[i] + k]
    BY <1>1, <2>5
  <2> QED BY <2>5, <2>6, <2>7
<1>4. ASSUME NEW i \in 0..t - 1
      PROVE  b[i + 1] = b[i] + Len(F[i]) /\ Len(F[i]) # 0
  <2>1. i \in 0..m - 1
    BY <1>2
  <2> QED BY <2>1 DEF Placed
<1> QED BY <1>2, <1>3, <1>4 DEF Placed, q

LEMMA CrashRwStep ==
  ASSUME NoTail, Types, Names, Residue, NEW b \in Begins, Core(b), CrashRw
  PROVE  Types' /\ Names' /\ Residue' /\ Core(b)'
<1> DEFINE t == Top(control)
<1>1. /\ pc \in DiesAt /\ crashes < MaxCrashes /\ crashes' = crashes + 1
      /\ pc' = "down" /\ NoGc
      /\ payload' = NewStore /\ chunks' = << >> /\ buf' = << >>
      /\ unlinking' = {} /\ unlinkingPrefix' = {}
      /\ log' = SubSeq(log, 1, published)
      /\ UNCHANGED <<fileVars, roVars, published, appends>>
  BY DEF CrashRw
<1>2. UNCHANGED <<chunkFile, chunkNames, prefixFile, prefixNames, control>>
  BY <1>1 DEF fileVars
<1>3. pc \in {"ready", "batch", "split"} /\ (pc = "batch" => ~AutoFlush)
  BY <1>1, ConstantsAssumption DEF NoTail, Stages
<1>4. control.poff = Len(chunkFile[t])
  BY <1>3 DEF Core, Main
<1>5. /\ chunkFile \in [0..MaxChunks -> Seq(Nat)] /\ t \in 0..LastFile
      /\ log \in Seq(Nat) /\ published \in 0..Len(log) /\ control \in Payload
      /\ Placed(chunkFile, log, b, LastFile) /\ LastFile \in 0..MaxChunks
      /\ Sized(chunkFile, t) /\ control.start \in Nat
  BY Shapes DEF Core
<1>6. Sound(chunkFile, prefixFile, log, b, control, published, control, published)
  BY DEF Core
<1>7. published = b[t] + Len(chunkFile[t])
  BY <1>4, <1>6 DEF Sound
<1>8. /\ log' \in Seq(Nat) /\ Len(log') = published /\ Same(log, log', published)
      /\ Placed(chunkFile, log', b, t)
  <2>1. log' \in Seq(Nat) /\ Len(log') = published /\ Same(log, log', published)
    BY <1>1, <1>5, CutLog
  <2>2. EndsAt(chunkFile, log, b, LastFile, t, log')
    BY <1>5, <1>7, <2>1 DEF EndsAt
  <2> QED BY <1>5, <2>1, <2>2, PlacedCut
<1>9. LastFile' = t
  BY <1>1, <1>2 DEF LastFile
<1>10. published \in Nat /\ published <= Len(log) /\ published <= MaxEntries
  <2> DEFINE x == Len(log)
  <2>1. x \in Nat /\ published \in 0..x /\ x <= MaxEntries
    BY <1>5 DEF Types
  <2> HIDE DEF x
  <2>2. published \in Nat /\ published <= x /\ published <= MaxEntries
    BY <2>1, Bounds
  <2> QED BY <2>2 DEF x
<1>11. Types'
  <2>1. << >> \in Seq(Nat) /\ payload' \in Payload /\ chunks' \in Seq(Chunk)
    BY <1>1, NewStoreTyped
  <2>2. crashes' \in 0..MaxCrashes
    <3>1. crashes \in 0..MaxCrashes
      BY DEF Types, TypeOK
    <3> QED BY <1>1, <3>1, Bounds
  <2>3. published' \in 0..Len(log') /\ Len(log') <= MaxEntries
    BY <1>1, <1>8, <1>10
  <2>4. /\ gcPc' = "none" /\ gcTarget' \in Int /\ gcStart' \in Nat
        /\ gcPayload' \in Payload /\ gcChunks' \in Seq(Chunk)
    BY <1>1, NoGcTyped
  <2> QED BY <1>1, <1>2, <1>8, <2>1, <2>2, <2>3, <2>4 DEF Types, TypeOK, roVars
<1>12. Later(chunkFile, prefixFile, log, b, control, published,
             chunkFile', prefixFile', log', b, control', published')
  <2>1. \A i \in 0..t : b[i] = b[i] /\ Len(chunkFile[i]) <= Len(chunkFile[i])
    BY <1>5 DEF Sized
  <2>2. published <= published /\ published <= Len(log')
    BY <1>8, <1>10
  <2>3. Top(control) <= Top(control) /\ control.start <= control.start
        /\ control.gen <= control.gen
    BY <1>5, PayloadShape
  <2> QED BY <1>1, <1>2, <1>8, <2>1, <2>2, <2>3 DEF Later
<1>13. Sound(chunkFile, prefixFile, log, b, control, published, control, published)'
  <2>1. Sound(chunkFile', prefixFile', log', b, control', published', control, published)
    BY <1>6, <1>11, <1>12, LaterTypes, SoundStays
  <2> QED BY <1>1, <1>2, <2>1
<1>14. Main(b)'
  <2>1. EndsWith(log', << >>)
    BY DEF EndsWith
  <2>2. gcPc' = "none"
    BY <1>1, NoGcTyped
  <2> QED BY <1>1, <1>2, <1>4, <1>8, <2>1, <2>2 DEF Main
<1>15. Gc(b)'
  BY <1>1, NoGcTyped DEF Gc
<1>16. Reader(b)'
  BY <1>1, <1>11, <1>12, ReaderStays
<1>17. Names'
  <2>1. control.start..t \subseteq control.start..LastFile
    BY <1>5, Bounds
  <2>2. gcPc' = "none"
    BY <1>1, NoGcTyped
  <2> QED BY <1>1, <1>2, <1>9, <2>1, <2>2 DEF Names
<1>18. Residue'
  BY <1>1 DEF Residue
<1>19. Placed(chunkFile, log, b, LastFile)'
  BY <1>2, <1>8, <1>9
<1> QED BY <1>11, <1>13, <1>14, <1>15, <1>16, <1>17, <1>18, <1>19 DEF Core

LEMMA OpenRwStep ==
  ASSUME Types, Names, Residue, NEW b \in Begins, Core(b), OpenRw
  PROVE  Types' /\ Names' /\ Residue' /\ Core(b)'
<1> DEFINE t == Top(control)
<1>1. /\ pc = "down" /\ pc' = "ready" /\ payload' = control /\ Cleanup
      /\ chunks' = Inventory(control.start, control.num, control.poff)
      /\ UNCHANGED <<chunkFile, prefixFile, control, buf, unlinking, unlinkingPrefix,
                     gcVars, roVars, logVars, crashes>>
  BY DEF OpenRw
<1>2. UNCHANGED <<log, published, appends, gcPc, gcTarget, gcStart, gcPayload, gcChunks>>
  BY <1>1 DEF logVars, gcVars
<1>3. /\ control.poff = Len(chunkFile[t]) /\ published = Len(log) /\ gcPc = "none"
      /\ unlinking = {} /\ unlinkingPrefix = {} /\ EndsWith(log, buf)
  BY <1>1 DEF Core, Main
<1>4. LastFile = t /\ LastFile' = t
  BY <1>1 DEF LastFile
<1>5. /\ control.start..LastFile \subseteq chunkNames'
      /\ control.gen # 0 => control.gen \in prefixNames'
      /\ chunkNames' \subseteq control.start..control.start + control.num
      /\ prefixNames' \subseteq {control.gen}
      /\ chunkNames' \subseteq chunkNames /\ prefixNames' \subseteq prefixNames
  BY <1>1, CleanupKeeps
<1>6. View(chunkFile, b, chunks', control.start, t - control.start + 1, control.poff)
  <2>1. /\ control.num \in Nat /\ control.start \in Nat
        /\ t = control.start + control.num - 1
    BY Shapes, PayloadShape
  <2>2. t - control.start + 1 = control.num
    <3> HIDE DEF t
    <3> QED BY <2>1
  <2> QED BY <1>1, <2>2, ControlView
<1>7. Types'
  <2>1. chunks' \in Seq(Chunk)
    BY <1>6 DEF View
  <2>2. pc' \in Stages \cup {"down"} /\ pc # "batch"
    BY <1>1 DEF Stages
  <2> QED BY <1>1, <1>2, <1>5, <2>1, <2>2 DEF Types, TypeOK, roVars
<1>8. Placed(chunkFile, log, b, LastFile)'
  BY <1>1, <1>2, <1>4 DEF Core
<1>9. Sound(chunkFile, prefixFile, log, b, control, published, control, published)'
  BY <1>1, <1>2 DEF Core
<1>10. Main(b)'
  <2>1. b[t] + Len(chunkFile[t]) + Len(buf) = Len(log)
    <3>1. buf = << >>
      BY <1>1 DEF Types, TypeOK
    <3>2. published = b[t] + control.poff
      BY DEF Core, Sound
    <3>3. b[t] \in Nat /\ control.poff \in Nat /\ Len(buf) = 0
      BY <1>3, <1>4, <3>1, Shapes
    <3> QED BY <1>3, <3>2, <3>3
  <2>2. /\ payload' = control' /\ log' = log /\ buf' = buf /\ control' = control
        /\ chunkFile' = chunkFile /\ pc' = "ready"
    BY <1>1, <1>2
  <2> QED BY <1>3, <1>4, <1>6, <2>1, <2>2 DEF Main
<1>11. Gc(b)'
  BY <1>2, <1>3 DEF Gc
<1>12. Reader(b)'
  BY <1>1, <1>2 DEF Core, Reader, Opened, roVars
<1>13. Names'
  BY <1>1, <1>2, <1>3, <1>4, <1>5 DEF Names
<1>14. Residue'
  BY <1>1, <1>5 DEF Residue
<1> QED BY <1>7, <1>8, <1>9, <1>10, <1>11, <1>12, <1>13, <1>14 DEF Core
-----------------------------------------------------------------------------
(* The swap. *)

\* What a collection that is done knows of the store, whatever was written and
\* split since: the chunks the worker saw are among the current ones.
LEMMA DoneGc ==
  ASSUME Types, NEW b \in Begins, Core(b), gcPc = "done", NEW s, s = control.start
  PROVE  /\ gcPayload.start = s /\ gcPayload.gen = control.gen
         /\ gcPayload.num \in Nat \ {0} /\ gcPayload.num <= control.num
         /\ View(chunkFile, b, gcChunks, s, gcPayload.num, gcPayload.poff)
         /\ GcSoff = gcStart - b[s]
         /\ b[s] <= gcStart /\ b[s] \in Nat /\ gcStart \in Nat
         /\ \A x \in Int : OffsetOfSoff(gcPayload, x) = b[s] + x
<1> DEFINE w == gcPayload
<1>1. w \in Payload /\ control \in Payload /\ gcStart \in Nat
  BY DEF Types, TypeOK
<1>2. PICK n \in Nat :
         /\ Sound(chunkFile, prefixFile, log, b, control, published, w, n)
         /\ w.gen = control.gen /\ w.startOff = control.startOff
         /\ View(chunkFile, b, gcChunks, w.start, w.num, w.poff)
  BY DEF Core, Gc
<1>3. w.start = s /\ Top(w) <= Top(control) /\ Rooted(prefixFile, log, b, w)
  BY <1>2 DEF Sound
<1>4. w.startOff = b[s] + w.dead
  BY <1>3 DEF Rooted
<1>5. gcStart >= w.startOff
  BY <1>2 DEF Core, Gc
<1>6. /\ w.num \in Nat \ {0} /\ w.dead \in Nat /\ w.startOff \in Nat
      /\ s \in Nat /\ control.num \in Nat \ {0}
  BY <1>1, PayloadShape
<1>7. b[s] \in Nat
  <2>1. s \in 0..Top(control) /\ Top(control) \in 0..LastFile /\ LastFile \in 0..MaxChunks
    BY Shapes
  <2>2. s \in 0..MaxChunks
    BY <2>1, Bounds
  <2> QED BY <2>2 DEF Begins
<1>8. w.num <= control.num
  <2>1. s + w.num - 1 <= s + control.num - 1
    BY <1>3 DEF Top
  <2> HIDE DEF w
  <2> QED BY <1>6, <2>1
<1>9. GcSoff = gcStart - b[s] /\ b[s] <= gcStart
  <2>1. GcSoff = gcStart - w.startOff + w.dead
    BY DEF GcSoff, SoffOfOffset
  <2> HIDE DEF w
  <2> QED BY <1>1, <1>4, <1>5, <1>6, <1>7, <2>1
<1>10. ASSUME NEW x \in Int PROVE OffsetOfSoff(w, x) = b[s] + x
  <2>1. OffsetOfSoff(w, x) = w.startOff + x - w.dead
    BY DEF OffsetOfSoff
  <2> HIDE DEF w
  <2> QED BY <1>4, <1>6, <1>7, <2>1
<1> QED BY <1>1, <1>2, <1>3, <1>6, <1>7, <1>8, <1>9, <1>10

\* The chunks of the worker, but its last one, are not empty, and each ends
\* where the next begins.
LEMMA DoneChunks ==
  ASSUME Types, NEW b \in Begins, Core(b), gcPc = "done", NEW s, s = control.start,
         NEW i \in 1..gcPayload.num - 1
  PROVE  /\ gcChunks[i].idx = s + i - 1 /\ gcChunks[i].end # 0
         /\ b[s + i] \in Nat
         /\ gcChunks[i].off \in Int /\ gcChunks[i].end \in Nat
         /\ gcChunks[i].off + gcChunks[i].end = b[s + i] - b[s]
<1> DEFINE m == gcPayload.num
<1>1. /\ m \in Nat \ {0} /\ m <= control.num /\ b[s] \in Nat
      /\ View(chunkFile, b, gcChunks, s, m, gcPayload.poff)
  BY DoneGc
<1>2. i \in 1..m /\ i \in 1..m - 1 /\ i \in Nat
  <2>1. i \in 1..m - 1
    OBVIOUS
  <2> HIDE DEF m
  <2> QED BY <1>1, <2>1
<1>3. /\ gcChunks[i].idx = s + i - 1 /\ gcChunks[i].off = b[s + i - 1] - b[s]
      /\ gcChunks[i].end = Len(chunkFile[s + i - 1])
  BY <1>1, <1>2 DEF View
<1> DEFINE j == s + i - 1
<1>4. j \in 0..Top(control) - 1 /\ j \in 0..LastFile - 1 /\ j \in 0..MaxChunks
      /\ s + i = j + 1 /\ j + 1 \in 0..MaxChunks
  <2>1. /\ s \in Nat /\ control.num \in Nat /\ Top(control) = s + control.num - 1
        /\ Top(control) \in 0..LastFile /\ LastFile \in 0..MaxChunks
    BY Shapes, PayloadShape
  <2> DEFINE t == Top(control)
             u == LastFile
             c == control.num
  <2>2. /\ s \in Nat /\ c \in Nat /\ t = s + c - 1 /\ m <= c
        /\ t \in 0..u /\ u \in 0..MaxChunks
    BY <1>1, <2>1
  <2> HIDE DEF t, u, c, m
  <2>3. j \in 0..t - 1 /\ j \in 0..u - 1 /\ j \in 0..MaxChunks
        /\ s + i = j + 1 /\ j + 1 \in 0..MaxChunks
    BY <1>1, <1>2, <2>2, Bounds
  <2> QED BY <2>3 DEF t, u
<1>5. b[j + 1] = b[j] + Len(chunkFile[j]) /\ Len(chunkFile[j]) # 0
  BY <1>4 DEF Core, Placed
<1>6. b[j] \in Nat /\ b[j + 1] \in Nat /\ Len(chunkFile[j]) \in Nat
  <2>1. chunkFile \in [0..MaxChunks -> Seq(Nat)]
    BY Shapes
  <2>2. \A k \in 0..MaxChunks : b[k] \in Nat /\ Len(chunkFile[k]) \in Nat
    BY <2>1, FileShape
  <2> QED BY <1>4, <2>2
<1> DEFINE f == Len(chunkFile[j])
<1>7. gcChunks[i].off = b[j] - b[s] /\ gcChunks[i].end = f /\ f \in Nat /\ f # 0
      /\ b[j + 1] = b[j] + f /\ gcChunks[i].idx = j
  BY <1>3, <1>5, <1>6
<1>8. b[s + i] = b[j + 1]
  BY <1>4
<1> HIDE DEF f, j, m
<1>9. /\ gcChunks[i].off \in Int /\ gcChunks[i].end \in Nat /\ b[s + i] \in Nat
      /\ gcChunks[i].off + gcChunks[i].end = b[s + i] - b[s]
  BY <1>1, <1>6, <1>7, <1>8
<1> QED BY <1>7, <1>9 DEF j

\* The chunks to remove are the first r, and the suffix goes on in the next.
LEMMA Removing ==
  ASSUME Types, NEW b \in Begins, Core(b), gcPc = "done", NEW s, s = control.start
  PROVE  \E r \in 0..gcPayload.num - 1 :
           /\ Removable = 1..r /\ b[s + r] <= gcStart /\ b[s + r] \in Nat
           /\ SuffixParams = [start |-> s + r, dead |-> gcStart - b[s + r]]
           /\ RemovableIdxs = s..s + r - 1
<1> DEFINE m == gcPayload.num
           R == Removable
<1>1. /\ m \in Nat \ {0} /\ m <= control.num /\ b[s] \in Nat /\ b[s] <= gcStart
      /\ gcStart \in Nat /\ GcSoff = gcStart - b[s]
      /\ View(chunkFile, b, gcChunks, s, m, gcPayload.poff)
      /\ \A x \in Int : OffsetOfSoff(gcPayload, x) = b[s] + x
  BY DoneGc
<1>2. Len(gcChunks) = m /\ gcChunks[1].idx = s /\ s \in Nat
  <2>1. Len(gcChunks) = m /\ s \in Nat /\ \A i \in 1..m : gcChunks[i].idx = s + i - 1
    BY <1>1 DEF View
  <2>2. 1 \in 1..m
    BY <1>1
  <2>3. gcChunks[1].idx = s + 1 - 1
    BY <2>1, <2>2
  <2> QED BY <2>1, <2>3
<1>3. \A i \in 1..m - 1 :
        /\ gcChunks[i].idx = s + i - 1 /\ gcChunks[i].end # 0 /\ b[s + i] \in Nat
        /\ gcChunks[i].off + gcChunks[i].end = b[s + i] - b[s]
  <2> SUFFICES ASSUME NEW i \in 1..gcPayload.num - 1
               PROVE  /\ gcChunks[i].idx = s + i - 1 /\ gcChunks[i].end # 0
                      /\ b[s + i] \in Nat
                      /\ gcChunks[i].off + gcChunks[i].end = b[s + i] - b[s]
    OBVIOUS
  <2> QED BY DoneChunks
<1>4. R = {i \in 1..m - 1 : b[s + i] <= gcStart}
  <2>1. ASSUME NEW i \in 1..m - 1
        PROVE  (gcChunks[i].end # 0 /\ gcChunks[i].off + gcChunks[i].end <= GcSoff)
                 <=> b[s + i] <= gcStart
    <3>1. /\ gcChunks[i].end # 0 /\ b[s + i] \in Nat
          /\ gcChunks[i].off + gcChunks[i].end = b[s + i] - b[s]
      BY <1>3
    <3>2. b[s + i] - b[s] <= gcStart - b[s] <=> b[s + i] <= gcStart
      BY <1>1, <3>1
    <3> QED BY <1>1, <3>1, <3>2
  <2>2. R = {i \in 1..m - 1 : gcChunks[i].end # 0
                                /\ gcChunks[i].off + gcChunks[i].end <= GcSoff}
    BY <1>2 DEF Removable
  <2> HIDE DEF R, m
  <2> QED BY <2>1, <2>2
<1>5. \A i, j \in 1..m - 1 : i <= j => b[s + i] <= b[s + j]
  <2>1. Placed(chunkFile, log, b, LastFile)
    BY DEF Core
  <2>2. \A i, j \in 0..LastFile : i <= j => b[i] <= b[j]
    <3>1. chunkFile \in [0..MaxChunks -> Seq(Nat)]
      BY Shapes
    <3> QED BY <2>1, <3>1, Growing
  <2>3. \A i \in 1..m - 1 : s + i \in 0..LastFile
    <3> DEFINE t == Top(control)
               u == LastFile
               c == control.num
    <3>1. c \in Nat /\ t = s + c - 1 /\ m <= c /\ t \in 0..u /\ u \in Nat
      <4>1. u \in 0..MaxChunks
        BY Shapes
      <4>2. u \in Nat
        BY <4>1, Bounds
      <4>3. control \in Payload /\ t \in 0..u
        BY Shapes
      <4> QED BY <1>1, <4>2, <4>3, PayloadShape
    <3>2. m \in Nat /\ s \in Nat
      BY <1>1, <1>2
    <3> HIDE DEF t, u, c, m
    <3> SUFFICES ASSUME NEW i \in 1..m - 1 PROVE s + i \in 0..u
      BY DEF u
    <3>3. i \in Nat /\ i <= m - 1
      BY <3>2
    <3>4. s + i <= t /\ t <= u /\ s + i \in Nat
      BY <3>1, <3>2, <3>3
    <3> QED BY <3>1, <3>4
  <2> SUFFICES ASSUME NEW i \in 1..m - 1, NEW j \in 1..m - 1, i <= j
               PROVE  b[s + i] <= b[s + j]
    OBVIOUS
  <2>4. s + i \in 0..LastFile /\ s + j \in 0..LastFile
    BY <2>3
  <2>5. s + i <= s + j
    <3>1. i \in Int /\ j \in Int
      OBVIOUS
    <3> QED BY <1>2, <3>1
  <2> QED BY <2>2, <2>4, <2>5
<1> HIDE DEF R, m
<1>6. CASE R = {}
  <2>1. SuffixParams = [start |-> gcChunks[1].idx, dead |-> GcSoff]
    BY <1>6 DEF SuffixParams, R
  <2>2. s + 0 = s /\ 0 \in 0..m - 1 /\ 1..0 = {} /\ s..s + 0 - 1 = {}
    <3>1. s + 0 = s /\ s + 0 - 1 < s
      BY <1>2
    <3>2. 0 \in 0..m - 1 /\ 1..0 = {}
      BY <1>1, <1>2
    <3>3. s..s + 0 - 1 = {}
      BY <1>2, <3>1
    <3> QED BY <3>1, <3>2, <3>3
  <2>3. RemovableIdxs = {}
    BY <1>6 DEF RemovableIdxs, R
  <2>4. /\ Removable = 1..0 /\ b[s + 0] <= gcStart /\ b[s + 0] \in Nat
        /\ SuffixParams = [start |-> s + 0, dead |-> gcStart - b[s + 0]]
        /\ RemovableIdxs = s..s + 0 - 1
    BY <1>1, <1>2, <1>6, <2>1, <2>2, <2>3 DEF R
  <2> QED BY <2>2, <2>4 DEF m
<1>7. CASE R # {}
  <2>1. PICK r \in R : \A y \in R : y <= r
    <3>1. R \subseteq 1..m - 1 /\ m - 1 \in Nat
      BY <1>1, <1>4
    <3> QED BY <1>7, <3>1, Greatest
  <2>2. r \in 1..m - 1 /\ r \in 0..m - 1 /\ b[s + r] <= gcStart /\ b[s + r] \in Nat
        /\ r \in Nat
    <3>1. r \in 1..m - 1 /\ b[s + r] <= gcStart
      BY <1>4, <2>1
    <3> QED BY <1>1, <1>3, <3>1
  <2>3. R = 1..r
    <3>1. ASSUME NEW i \in 1..r PROVE i \in R
      <4>1. i \in 1..m - 1 /\ i <= r
        BY <1>1, <2>2
      <4>2. b[s + i] <= b[s + r] /\ b[s + i] \in Nat
        BY <1>3, <1>5, <2>2, <4>1
      <4>3. b[s + i] <= gcStart
        BY <1>1, <2>2, <4>2
      <4> QED BY <1>4, <4>1, <4>3
    <3>2. ASSUME NEW i \in R PROVE i \in 1..r
      <4>1. i \in 1..m - 1 /\ i <= r
        BY <1>4, <2>1
      <4> QED BY <1>1, <2>2, <4>1
    <3> QED BY <3>1, <3>2
  <2>4. (CHOOSE i \in R : \A j \in R : j <= i) = r
    <3> DEFINE x == CHOOSE i \in R : \A j \in R : j <= i
    <3>1. x \in R /\ \A j \in R : j <= x
      BY <2>1
    <3> HIDE DEF x
    <3>2. x <= r /\ r <= x /\ x \in Int
      BY <2>1, <2>2, <2>3, <3>1
    <3>3. x = r
      BY <2>2, <3>2
    <3> QED BY <3>3 DEF x
  <2>5. SuffixParams =
          [start |-> gcChunks[r].idx + 1,
           dead |-> gcStart - OffsetOfSoff(gcPayload, gcChunks[r].off + gcChunks[r].end)]
    BY <1>7, <2>4 DEF SuffixParams, R
  <2>6. gcChunks[r].idx + 1 = s + r
    <3>1. gcChunks[r].idx = s + r - 1
      BY <1>3, <2>2
    <3> QED BY <1>2, <2>2, <3>1
  <2>7. OffsetOfSoff(gcPayload, gcChunks[r].off + gcChunks[r].end) = b[s + r]
    <3>1. gcChunks[r].off + gcChunks[r].end = b[s + r] - b[s]
      BY <1>3, <2>2
    <3>2. b[s + r] - b[s] \in Int /\ b[s] + (b[s + r] - b[s]) = b[s + r]
      BY <1>1, <2>2
    <3> QED BY <1>1, <3>1, <3>2
  <2>8. RemovableIdxs = s..s + r - 1
    <3>1. RemovableIdxs = {gcChunks[i].idx : i \in 1..r}
      BY <2>3 DEF RemovableIdxs, R
    <3>2. \A i \in 1..r : gcChunks[i].idx = s + i - 1
      <4> SUFFICES ASSUME NEW i \in 1..r PROVE gcChunks[i].idx = s + i - 1
        OBVIOUS
      <4>1. i \in 1..m - 1
        BY <1>1, <2>2
      <4> QED BY <1>3, <4>1
    <3>3. ASSUME NEW j \in s..s + r - 1
          PROVE  \E i \in 1..r : j = gcChunks[i].idx
      <4>1. j - s + 1 \in 1..r /\ s + (j - s + 1) - 1 = j
        BY <1>2, <2>2
      <4> QED BY <3>2, <4>1
    <3>4. ASSUME NEW i \in 1..r PROVE gcChunks[i].idx \in s..s + r - 1
      <4>1. s + i - 1 \in s..s + r - 1
        BY <1>2, <2>2
      <4> QED BY <3>2, <4>1
    <3> QED BY <3>1, <3>3, <3>4
  <2> QED BY <2>2, <2>3, <2>5, <2>6, <2>7, <2>8 DEF R, m
<1> QED BY <1>6, <1>7

\* The payload that the swap writes is sound, and ends where the last one did.
LEMMA SwappedIs ==
  ASSUME Types, NEW b \in Begins, Core(b), pc = "ready", gcPc = "done", payload = control,
         Len(chunks) = control.num, NEW s, s = control.start, NEW c, c = Swapped
  PROVE  \E r \in Nat :
           /\ c \in Payload /\ c.start = s + r /\ Top(c) = Top(control)
           /\ c.start + c.num = control.start + control.num
           /\ c.poff = control.poff /\ c.gen = control.gen + 1 /\ c.target = gcTarget
           /\ c.gen \in 1..MaxGcs
           /\ c.startOff = gcStart /\ c.startOff = b[c.start] + c.dead
           /\ RemovableIdxs = s..s + r - 1
           /\ \A i \in RemovableIdxs : i \in 0..MaxChunks /\ i < c.start
<1> DEFINE m == gcPayload.num
           n == control.num
<1>1. /\ m \in Nat \ {0} /\ m <= n /\ gcStart \in Nat /\ gcPayload.gen = control.gen
  BY DoneGc
<1>2. control \in Payload /\ s \in Nat /\ n \in Nat \ {0} /\ Top(control) = s + n - 1
      /\ control.poff \in Nat /\ control.gen \in Nat
  BY Shapes, PayloadShape
<1>3. PICK r \in 0..m - 1 :
        /\ Removable = 1..r /\ b[s + r] <= gcStart /\ b[s + r] \in Nat
        /\ SuffixParams = [start |-> s + r, dead |-> gcStart - b[s + r]]
        /\ RemovableIdxs = s..s + r - 1
  BY Removing
<1>4. Top(control) \in 0..MaxChunks
  BY Shapes, Bounds
<1> HIDE DEF m, n
<1>5. r \in Nat /\ n - r \in Nat \ {0} /\ gcStart - b[s + r] \in Nat /\ s + r \in Nat
      /\ b[s + r] + (gcStart - b[s + r]) = gcStart
      /\ (s + r) + (n - r) = s + n /\ (s + r) + (n - r) - 1 = s + n - 1
  <2>1. r \in Nat /\ r <= m - 1
    BY <1>1, <1>3
  <2>2. n - r \in Nat \ {0}
    BY <1>1, <1>2, <2>1
  <2> DEFINE z == b[s + r]
  <2>3. z \in Nat /\ z <= gcStart
    BY <1>3
  <2> HIDE DEF z
  <2>4. gcStart - z \in Nat /\ z + (gcStart - z) = gcStart
    BY <1>1, <2>3
  <2>5. /\ s + r \in Nat
        /\ (s + r) + (n - r) = s + n /\ (s + r) + (n - r) - 1 = s + n - 1
    BY <1>2, <2>1
  <2> QED BY <2>1, <2>2, <2>4, <2>5 DEF z
<1>6. NewChunkNum = n - r
  <2>1. Cardinality(1..r) = r
    <3>1. Cardinality(1..r) = IF 1 > r THEN 0 ELSE r - 1 + 1
      BY <1>5, FS_Interval
    <3> QED BY <1>5, <3>1
  <2> QED BY <1>3, <2>1 DEF NewChunkNum, n
<1>7. c = [control EXCEPT !.start = s + r, !.num = n - r, !.gen = control.gen + 1,
                          !.target = gcTarget, !.startOff = gcStart,
                          !.dead = gcStart - b[s + r]]
  BY <1>1, <1>3, <1>6 DEF Swapped
<1>8. gcTarget \in Int /\ control.gen < MaxGcs /\ control.gen + 1 \in 1..MaxGcs
  <2>1. gcTarget \in Int /\ control.gen < MaxGcs
    BY DEF Types, TypeOK, Core, Gc
  <2> QED BY <1>2, <2>1, Bounds
<1> DEFINE d == gcStart - b[s + r]
           k == n - r
           a == s + r
           g == control.gen + 1
<1>9. a \in Nat /\ k \in Nat \ {0} /\ d \in Nat /\ g \in Nat
      /\ c = [control EXCEPT !.start = a, !.num = k, !.gen = g,
                             !.target = gcTarget, !.startOff = gcStart, !.dead = d]
  <2>1. g \in Nat
    BY <1>2
  <2> QED BY <1>5, <1>7, <2>1
<1>d. b[a] + d = gcStart /\ a + k = s + n /\ a + k - 1 = s + n - 1
  BY <1>5
<1> HIDE DEF d, k, a, g
<1>10. /\ c \in Payload /\ c.start = a /\ c.num = k /\ c.poff = control.poff
       /\ c.gen = g /\ c.target = gcTarget /\ c.startOff = gcStart /\ c.dead = d
  <2>1. /\ a \in Nat /\ k \in Nat \ {0} /\ g \in Nat /\ gcTarget \in Int /\ gcStart \in Nat
        /\ d \in Nat /\ control \in Payload
    BY <1>1, <1>2, <1>8, <1>9
  <2>2. c = [control EXCEPT !.start = a, !.num = k, !.gen = g,
                             !.target = gcTarget, !.startOff = gcStart, !.dead = d]
    BY <1>9
  <2> QED BY <2>1, <2>2 DEF Payload
<1>11. Top(c) = Top(control) /\ c.start + c.num = s + n
  BY <1>2, <1>10, <1>d DEF Top
<1>12. ASSUME NEW i \in RemovableIdxs PROVE i \in 0..MaxChunks /\ i < a
  <2>1. i \in s..s + r - 1 /\ r <= n - 1
    BY <1>1, <1>2, <1>3
  <2> DEFINE t == Top(control)
  <2>2. t \in 0..MaxChunks /\ t = s + n - 1
    BY <1>2, <1>4
  <2> HIDE DEF t
  <2> QED BY SMTT(30), <1>2, <1>5, <2>1, <2>2, Bounds DEF a
<1>13. c.startOff = b[c.start] + c.dead
  BY <1>10, <1>d
<1>14. \A i \in RemovableIdxs : i \in 0..MaxChunks /\ i < c.start
  BY <1>10, <1>12
<1>15. /\ r \in Nat /\ c.start = s + r /\ c.gen = control.gen + 1 /\ c.gen \in 1..MaxGcs
       /\ c.start + c.num = control.start + control.num
  BY <1>5, <1>8, <1>10, <1>11 DEF a, g, n
<1> QED BY <1>3, <1>10, <1>11, <1>13, <1>14, <1>15

LEMMA SwapStep ==
  ASSUME Types, Names, Residue, NEW b \in Begins, Core(b), Swap
  PROVE  Types' /\ Names' /\ Residue' /\ Core(b)'
<1> DEFINE t == Top(control)
           s == control.start
           c == Swapped
<1>1. /\ pc = "ready" /\ gcPc = "done" /\ NoGc
      /\ chunks' = Inventory(c.start, c.num, payload.poff)
      /\ control' = c /\ payload' = c
      /\ unlinking' = unlinking \cup RemovableIdxs
      /\ unlinkingPrefix' = IF gcPayload.gen >= 1
                            THEN unlinkingPrefix \cup {gcPayload.gen}
                            ELSE unlinkingPrefix
      /\ UNCHANGED <<chunkFile, chunkNames, prefixFile, prefixNames, pc, buf,
                     roVars, logVars, crashes>>
  BY DEF Swap, SetPayload
<1>2. UNCHANGED <<log, published, appends>>
  BY <1>1 DEF logVars
<1>3. /\ published = Len(log) /\ payload = control /\ LastFile = t
      /\ control.poff = Len(chunkFile[t]) /\ buf = << >>
  BY <1>1, ReadyIsPublished
<1>4. LastFile' = Top(c)
  BY <1>1 DEF LastFile
<1>5. /\ control \in Payload /\ s \in Nat /\ control.num \in Nat \ {0}
      /\ t = s + control.num - 1 /\ control.poff \in Nat /\ control.gen \in Nat
      /\ t \in Nat
  BY Shapes, PayloadShape
<1>6. Len(chunks) = control.num
  <2>1. Len(chunks) = t - s + 1
    BY <1>1, <1>3 DEF Core, Main, View
  <2> HIDE DEF t, s
  <2> QED BY <1>5, <2>1
<1>7. PICK r \in Nat :
        /\ c \in Payload /\ c.start = s + r /\ Top(c) = t
        /\ c.start + c.num = control.start + control.num
        /\ c.poff = control.poff /\ c.gen = control.gen + 1 /\ c.target = gcTarget
        /\ c.gen \in 1..MaxGcs
        /\ c.startOff = gcStart /\ c.startOff = b[c.start] + c.dead
        /\ RemovableIdxs = s..s + r - 1
        /\ \A i \in RemovableIdxs : i \in 0..MaxChunks /\ i < c.start
  BY <1>1, <1>3, <1>6, SwappedIs
<1> HIDE DEF c
<1>8. /\ c.start \in Nat /\ c.num \in Nat \ {0} /\ c.start + c.num - 1 = t
  BY <1>7, PayloadShape
<1>9. View(chunkFile, b, chunks', c.start, c.num, c.poff)
  <2>1. TypeOK /\ Placed(chunkFile, log, b, t)
    BY <1>3 DEF Types, Core
  <2>2. c.start + c.num - 1 <= t /\ c.poff \in Nat /\ payload.poff = c.poff
    BY <1>3, <1>5, <1>7, <1>8
  <2>3. chunks' = Inventory(c.start, c.num, c.poff)
    BY <1>1, <2>2
  <2>4. View(chunkFile, b, Inventory(c.start, c.num, c.poff), c.start, c.num, c.poff)
    BY <1>8, <2>1, <2>2, InventoryIsView
  <2> QED BY <2>3, <2>4
<1>10. gcPayload.gen = control.gen
  BY <1>1, DoneGc
<1>11. Types'
  <2>1. chunks' \in Seq(Chunk)
    BY <1>9 DEF View
  <2>2. unlinking' \subseteq 0..MaxChunks
    BY <1>1, <1>7 DEF Types, TypeOK
  <2>3. unlinkingPrefix' \subseteq 1..MaxGcs
    <3>1. control.gen >= 1 => control.gen \in 1..MaxGcs
      BY <1>5, <1>7, Bounds
    <3> QED BY <1>1, <1>10, <3>1 DEF Types, TypeOK
  <2>4. /\ gcPc' = "none" /\ gcTarget' \in Int /\ gcStart' \in Nat
        /\ gcPayload' \in Payload /\ gcChunks' \in Seq(Chunk)
    BY <1>1, NoGcTyped
  <2> QED BY <1>1, <1>2, <1>7, <2>1, <2>2, <2>3, <2>4 DEF Types, TypeOK, roVars
<1>12. Rooted(prefixFile, log, b, c)
  <2>1. gcStart \in {gcTarget, gcTarget + 1}
        /\ Copied(prefixFile, log, control.gen + 1, gcTarget)
    BY <1>1 DEF Core, Gc
  <2>2. c.gen # 0
    BY <1>7
  <2> QED BY <1>7, <2>1, <2>2 DEF Rooted
<1>13. Later(chunkFile, prefixFile, log, b, control, published,
             chunkFile', prefixFile', log', b, control', published')
  <2>1. \A i \in 0..t : b[i] = b[i] /\ Len(chunkFile[i]) <= Len(chunkFile[i])
    <3>1. Sized(chunkFile, t)
      BY Shapes
    <3> QED BY <3>1 DEF Sized
  <2>2. published <= published /\ published <= Len(log)
    <3>1. Len(log) \in Nat
      BY Shapes
    <3> QED BY <1>3, <3>1
  <2>3. Same(log, log, published)
    BY DEF Same
  <2>4. t <= Top(c) /\ s <= c.start /\ control.gen <= c.gen /\ control.gen # c.gen
    <3>1. s <= s + r /\ control.gen <= control.gen + 1 /\ control.gen # control.gen + 1
      <4> HIDE DEF s
      <4> QED BY <1>5
    <3>2. t <= t
      <4> HIDE DEF t
      <4> QED BY <1>5
    <3> QED BY <1>7, <3>1, <3>2
  <2> QED BY <1>1, <1>2, <2>1, <2>2, <2>3, <2>4 DEF Later
<1>14. Sound(chunkFile, prefixFile, log, b, c, published, c, published)
  <2>1. /\ published \in 0..published /\ published = b[t] + control.poff
        /\ control.poff <= Len(chunkFile[t])
    BY DEF Core, Sound
  <2>2. gcTarget < published
    <3>1. gcTarget \in 0..published - 1
      BY <1>1 DEF Core, Gc
    <3>2. published \in Nat
      BY <1>3, Shapes
    <3> QED BY <3>1, <3>2
  <2>3. Top(c) <= Top(c) /\ c.gen <= c.gen /\ c.start <= c.start
    BY <1>7, PayloadShape
  <2> QED BY <1>7, <1>12, <2>1, <2>2, <2>3 DEF Sound
<1>15. Sound(chunkFile, prefixFile, log, b, control, published, control, published)'
  BY <1>1, <1>2, <1>14
<1>16. Main(b)'
  <2>1. t - c.start + 1 = c.num
    <3> HIDE DEF t
    <3> QED BY <1>8, <1>5
  <2>2. View(chunkFile, b, chunks', c.start, t - c.start + 1, Len(chunkFile[t]))
    BY <1>3, <1>7, <1>9, <2>1
  <2>3. b[t] + Len(chunkFile[t]) + Len(buf) = Len(log) /\ EndsWith(log, buf)
    BY <1>1, <1>3 DEF Core, Main
  <2>4. LastFile' = t /\ c.poff = Len(chunkFile[Top(c)])
    BY <1>3, <1>4, <1>7
  <2>5. /\ payload' = control' /\ log' = log /\ buf' = buf /\ control' = c
        /\ chunkFile' = chunkFile /\ pc' = "ready"
    BY <1>1, <1>2
  <2> QED BY <2>2, <2>3, <2>4, <2>5 DEF Main
<1>17. Gc(b)'
  BY <1>1, NoGcTyped DEF Gc
<1>18. Reader(b)'
  BY <1>1, <1>11, <1>13, ReaderStays
<1>19. Names'
  <2>1. c.start..t \subseteq s..t
    <3> HIDE DEF t, s
    <3> QED BY <1>5, <1>7
  <2>2. c.gen \in prefixNames
    BY <1>1, <1>7 DEF Names
  <2>3. ASSUME NEW i \in unlinking' PROVE i < c.start
    <3>1. CASE i \in RemovableIdxs
      BY <1>7, <3>1
    <3>2. CASE i \in unlinking
      <4>1. i < s /\ i \in 0..MaxChunks
        BY <3>2 DEF Names, Types, TypeOK
      <4> HIDE DEF s
      <4> QED BY <1>5, <1>7, <4>1
    <3> QED BY <1>1, <3>1, <3>2
  <2>4. ASSUME NEW g \in unlinkingPrefix' PROVE g < c.gen
    <3>1. CASE g \in unlinkingPrefix
      <4>1. g < control.gen /\ g \in 1..MaxGcs
        BY <3>1 DEF Names, Types, TypeOK
      <4> QED BY <1>5, <1>7, <4>1
    <3>2. CASE g = control.gen
      BY <1>5, <1>7, <3>2
    <3> QED BY <1>1, <1>10, <3>1, <3>2
  <2>5. gcPc' = "none"
    BY <1>1, NoGcTyped
  <2>6. LastFile' = t /\ LastFile = t
    BY <1>3, <1>4, <1>7
  <2> QED BY <1>1, <2>1, <2>2, <2>3, <2>4, <2>5, <2>6 DEF Names
<1>20. Residue'
  <2>1. ASSUME NEW i \in chunkNames PROVE i \in (c.start..c.start + c.num) \cup unlinking'
    <3>1. i \in s..s + control.num \/ i \in unlinking
      BY <1>1 DEF Residue
    <3>2. ASSUME i \in s..s + control.num PROVE i \in s..s + r - 1 \/ i \in c.start..c.start + c.num
      <4>1. c.start = s + r /\ c.start + c.num = s + control.num
        BY <1>7
      <4> HIDE DEF s
      <4> QED BY <1>5, <3>2, <4>1
    <3> QED BY <1>1, <1>7, <3>1, <3>2
  <2>2. ASSUME NEW g \in prefixNames PROVE g \in {c.gen} \cup unlinkingPrefix'
    <3>1. g \in {control.gen} \cup unlinkingPrefix \cup {control.gen + 1}
      BY <1>1 DEF Residue
    <3>2. g \in 1..MaxGcs
      BY DEF Types, TypeOK
    <3>3. CASE g = control.gen
      <4>1. gcPayload.gen >= 1
        BY <1>10, <3>2, <3>3
      <4> QED BY <1>1, <1>10, <3>3, <4>1
    <3>4. CASE g \in unlinkingPrefix
      BY <1>1, <3>4
    <3>5. CASE g = control.gen + 1
      BY <1>7, <3>5
    <3> QED BY <3>1, <3>3, <3>4, <3>5
  <2> QED BY <1>1, <2>1, <2>2 DEF Residue
<1>21. Placed(chunkFile, log, b, LastFile)'
  BY <1>1, <1>2, <1>3, <1>4, <1>7 DEF Core
<1> QED BY <1>11, <1>15, <1>16, <1>17, <1>18, <1>19, <1>20, <1>21 DEF Core
-----------------------------------------------------------------------------
(* The invariant holds initially and is kept by every step. *)

LEMMA InitInv ==
  ASSUME Init PROVE IInv
<1> USE Bounds
<1> DEFINE cs == <<[idx |-> 0, off |-> 0, end |-> 0]>>
<1>1. PICK b \in Begins : \A i \in 0..MaxChunks : b[i] = 0
  <2> DEFINE z == [i \in 0..MaxChunks |-> 0]
  <2>1. z \in Begins /\ \A i \in 0..MaxChunks : z[i] = 0
    BY DEF Begins
  <2> HIDE DEF z
  <2> QED BY <2>1
<1>2. << >> \in Seq(Nat) /\ Len(<< >>) = 0 /\ DOMAIN << >> = {}
  OBVIOUS
<1>3. /\ control = NewStore /\ payload = NewStore /\ roPayload = NewStore
      /\ gcPayload = NewStore /\ pc = "ready" /\ gcPc = "none" /\ roPc = "down"
      /\ chunks = cs /\ buf = << >> /\ log = << >> /\ published = 0
      /\ chunkNames = {0} /\ prefixNames = {} /\ unlinking = {} /\ unlinkingPrefix = {}
      /\ roPrefix = 0 /\ roStale = {} /\ roLen = 0 /\ appends = 0 /\ crashes = 0
      /\ gcTarget = -1 /\ gcStart = 0 /\ gcChunks = << >> /\ roChunks = << >>
  BY DEF Init
<1>4. \A i \in 0..MaxChunks : chunkFile[i] = << >> /\ Len(chunkFile[i]) = 0
  BY <1>2 DEF Init
<1>5. /\ control.start = 0 /\ control.num = 1 /\ control.poff = 0 /\ control.gen = 0
      /\ control.target = -1 /\ control.startOff = 0 /\ control.dead = 0
      /\ Top(control) = 0 /\ LastFile = 0
  <2>1. /\ control.start = 0 /\ control.num = 1 /\ control.poff = 0 /\ control.gen = 0
        /\ control.target = -1 /\ control.startOff = 0 /\ control.dead = 0
    BY <1>3 DEF NewStore
  <2>2. Top(control) = 0 + 1 - 1
    BY <2>1 DEF Top
  <2> QED BY <1>3, <2>1, <2>2 DEF LastFile
<1>6. cs \in Seq(Chunk) /\ Len(cs) = 1 /\ cs[1].idx = 0 /\ cs[1].off = 0 /\ cs[1].end = 0
  <2>1. [idx |-> 0, off |-> 0, end |-> 0] \in Chunk
    BY DEF Chunk
  <2> DEFINE x == [idx |-> 0, off |-> 0, end |-> 0]
  <2>2. x \in Chunk /\ x.idx = 0 /\ x.off = 0 /\ x.end = 0
    BY <2>1
  <2> HIDE DEF x
  <2>3. <<x>> \in Seq(Chunk) /\ Len(<<x>>) = 1 /\ <<x>>[1] = x
    BY <2>2
  <2> QED BY <2>2, <2>3 DEF x
<1> HIDE DEF cs
<1>7. DOMAIN prefixFile = 1..MaxGcs
      /\ \A g \in 1..MaxGcs : DOMAIN prefixFile[g] = {}
  <2>1. prefixFile = [g \in 1..MaxGcs |-> << >>]
    BY DEF Init
  <2> QED BY <1>2, <2>1
<1>8. Types
  <2>1. chunkFile \in [0..MaxChunks -> Seq(Nat)]
    BY <1>2 DEF Init
  <2>2. NewStore \in Payload /\ << >> \in Seq(Chunk)
    BY NewStoreTyped
  <2>3. published \in 0..Len(log) /\ Len(log) <= MaxEntries
    BY <1>2, <1>3
  <2>4. /\ chunkNames \subseteq 0..MaxChunks /\ pc \in Stages \cup {"down"}
        /\ -1 \in Int /\ appends \in 0..MaxAppends /\ crashes \in 0..MaxCrashes
        /\ roPrefix \in 0..MaxGcs
    BY <1>3 DEF Stages
  <2> QED BY <1>2, <1>3, <1>6, <1>7, <2>1, <2>2, <2>3, <2>4 DEF Types, TypeOK
<1>9. Names /\ Residue
  BY <1>3, <1>5 DEF Names, Residue
<1>10. b[0] = 0 /\ Len(chunkFile[0]) = 0
  BY <1>1, <1>4
<1>11. Placed(chunkFile, log, b, LastFile)
  <2>1. ASSUME NEW i \in 0..0 PROVE 1..Len(chunkFile[i]) = {}
    BY <1>10
  <2>2. 0..0 - 1 = {} /\ 0 \in 0..MaxChunks
    OBVIOUS
  <2> QED BY <1>5, <2>1, <2>2 DEF Placed
<1>12. Sound(chunkFile, prefixFile, log, b, control, published, control, published)
  <2>1. Rooted(prefixFile, log, b, control)
    BY <1>5, <1>10 DEF Rooted
  <2> QED BY <1>3, <1>5, <1>10, <2>1 DEF Sound
<1>13. Main(b)
  <2>1. View(chunkFile, b, chunks, 0, 1, 0)
    <3>1. \A i \in 1..1 : cs[i].idx = 0 + i - 1 /\ cs[i].off = b[0 + i - 1] - b[0]
      <4> SUFFICES cs[1].idx = 0 + 1 - 1 /\ cs[1].off = b[0 + 1 - 1] - b[0]
        OBVIOUS
      <4> QED BY <1>6, <1>10
    <3>2. 1..1 - 1 = {}
      OBVIOUS
    <3> QED BY <1>3, <1>6, <3>1, <3>2 DEF View
  <2>2. EndsWith(log, buf)
    BY <1>2, <1>3 DEF EndsWith
  <2>3. Len(buf) = 0 /\ Len(log) = 0 /\ LastFile - control.start + 1 = 1
    BY <1>2, <1>3, <1>5
  <2> QED BY <1>3, <1>5, <1>10, <2>1, <2>2, <2>3 DEF Main
<1>14. Gc(b) /\ Reader(b)
  BY <1>3 DEF Gc, Reader
<1> QED BY <1>8, <1>9, <1>11, <1>12, <1>13, <1>14 DEF IInv, Core

LEMMA NextInv ==
  ASSUME NoTail, IInv, [Next]_vars PROVE IInv'
<1>1. PICK b \in Begins : Core(b)
  BY DEF IInv
<1>2. Types /\ Names /\ Residue
  BY DEF IInv
<1>3. ASSUME Types', Names', Residue', NEW d \in Begins, Core(d)'
      PROVE  IInv'
  BY <1>3 DEF IInv
<1>4. CASE StartBatch
  BY <1>1, <1>2, <1>3, <1>4, StartBatchStep
<1>5. CASE AppendEntry
  BY <1>1, <1>2, <1>3, <1>5, AppendEntryStep
<1>6. CASE FlushSuffix
  BY <1>1, <1>2, <1>3, <1>6, FlushSuffixStep
<1>7. CASE FlushControl
  BY <1>1, <1>2, <1>3, <1>7, FlushControlStep
<1>8. CASE AddChunk
  <2>1. /\ Types' /\ Names' /\ Residue' /\ \E b2 \in Begins : Core(b2)'
    BY <1>1, <1>2, <1>8, AddChunkStep
  <2> QED BY <2>1 DEF IInv
<1>9. CASE SplitControl
  BY <1>1, <1>2, <1>3, <1>9, SplitControlStep
<1>10. ASSUME NEW c \in 0..Len(log) - 1, StartGc(c) PROVE IInv'
  BY <1>1, <1>2, <1>3, <1>10, StartGcStep
<1>11. CASE WorkerOpens
  BY <1>1, <1>2, <1>3, <1>11, WorkerOpensStep
<1>12. CASE WorkerWrites
  BY <1>1, <1>2, <1>3, <1>12, WorkerWritesStep
<1>13. CASE Swap
  BY <1>1, <1>2, <1>3, <1>13, SwapStep
<1>14. CASE GcFails
  BY <1>1, <1>2, <1>3, <1>14, GcFailsStep
<1>15. ASSUME NEW i \in unlinking, UnlinkChunk(i) PROVE IInv'
  BY <1>1, <1>2, <1>3, <1>15, UnlinkChunkStep
<1>16. ASSUME NEW g \in unlinkingPrefix, UnlinkPrefix(g) PROVE IInv'
  BY <1>1, <1>2, <1>3, <1>16, UnlinkPrefixStep
<1>17. CASE CrashRw
  BY <1>1, <1>2, <1>3, <1>17, CrashRwStep
<1>18. CASE OpenRw
  BY <1>1, <1>2, <1>3, <1>18, OpenRwStep
<1>19. CASE RoOpenControl \/ RoReloadControl \/ RoSuffix \/ RoPrefix \/ RoClose
  BY <1>1, <1>2, <1>3, <1>19, ReaderSteps
<1>20. CASE UNCHANGED vars
  <2> USE <1>20 DEF vars, fileVars, rwVars, gcVars, roVars, logVars
  <2>1. Types'
    BY <1>2 DEF Types, TypeOK
  <2>2. LastFile' = LastFile
    BY DEF LastFile
  <2>3. Names' /\ Residue'
    BY <1>2, <2>2 DEF Names, Residue
  <2>4. Main(b)'
    BY <1>1, <2>2 DEF Core, Main
  <2>5. Gc(b)'
    BY <1>1 DEF Core, Gc
  <2>6. Reader(b)'
    BY <1>1 DEF Core, Reader, Opened
  <2>7. Placed(chunkFile, log, b, LastFile)'
    BY <1>1, <2>2 DEF Core
  <2>8. Sound(chunkFile, prefixFile, log, b, control, published, control, published)'
    BY <1>1 DEF Core
  <2> QED BY <1>3, <2>1, <2>3, <2>4, <2>5, <2>6, <2>7, <2>8 DEF Core
<1> QED
  BY <1>4, <1>5, <1>6, <1>7, <1>8, <1>9, <1>10, <1>11, <1>12, <1>13, <1>14, <1>15,
     <1>16, <1>17, <1>18, <1>19, <1>20
  DEF Next

LEMMA SpecInv ==
  ASSUME NoTail PROVE Spec => []IInv
<1>1. Init => IInv
  BY InitInv
<1>2. IInv /\ [Next]_vars => IInv'
  BY NextInv
<1> QED BY <1>1, <1>2, PTL DEF Spec
-----------------------------------------------------------------------------
(* The results. *)

\* Writer and reader, each from the files it has open, read at every live
\* offset the entry that was given it, whatever batches, splits, collections,
\* deaths and restarts the other made (File_manager.split and swap,
\* Chunked_suffix.read_exn, Dispatcher.read_exn).
THEOREM StoresRead ==
  ASSUME NoTail PROVE Spec => []Reads
<1>1. IInv => Reads
  BY InvWriterReads, InvReaderReads DEF IInv, Reads, Types
<1> QED BY <1>1, SpecInv, PTL

\* At every instant the files that the control file names can be opened, and
\* hold everything published that no collection gave up; and the writer that
\* opens them goes on with the same offsets and entries.
THEOREM DeathSurvived ==
  ASSUME NoTail PROVE Spec => []SurvivesDeath
<1>1. IInv => SurvivesDeath
  BY InvPublishedReads, InvWriterReads DEF IInv, SurvivesDeath
<1> QED BY <1>1, SpecInv, PTL

\* Between collections the directory has no more than the files of the store
\* and the chunk file that cleanup spares (File_manager.cleanup).
THEOREM ResidueIsBounded ==
  ASSUME NoTail PROVE Spec => []ResidueBounded
<1>1. IInv => ResidueBounded
  BY InvResidue DEF IInv
<1> QED BY <1>1, SpecInv, PTL
-----------------------------------------------------------------------------
(* The files implement a log that collections shorten. *)

\* What a process that opened the store now could read.
ReadsLog == Readable = [o \in Live(control, published) |-> log[o + 1]]

LEMMA InvReadsLog ==
  ASSUME IInv PROVE ReadsLog
<1>1. PublishedReads
  BY InvPublishedReads DEF IInv
<1>2. \A o \in Live(control, published) :
        Read(control, PublishedInventory, control.gen, o) = log[o + 1]
  BY <1>1 DEF PublishedReads, Answers
<1> QED BY <1>2 DEF ReadsLog, Readable

\* A collection is one of the store as it is, and its commit reaches no entry
\* that an earlier one gave up, or the worker would have failed.
Reached(c, o) == c.target = -1 \/ o > c.target \/ o \in Needs[c.target]
Collects ==
  /\ gcPc \in {"opened", "done"} => gcPayload.target = control.target
  /\ gcPc = "done" => \A o \in Needs[gcTarget] : Reached(control, o)

LEMMA CanCopyReached ==
  ASSUME Types, NEW b \in Begins, Core(b), gcPc = "opened", CanCopy,
         gcPayload.target = control.target
  PROVE  \A o \in Needs[gcTarget] : Reached(control, o)
<1> DEFINE w == gcPayload
<1>1. w \in Payload
  BY DEF Types, TypeOK
<1>2. PICK n \in Nat : Sound(chunkFile, prefixFile, log, b, control, published, w, n)
  BY DEF Core, Gc
<1>3. Rooted(prefixFile, log, b, w)
  BY <1>2 DEF Sound
<1>4. SUFFICES ASSUME NEW o \in Needs[gcTarget] PROVE Reached(w, o)
  BY DEF Reached
<1>5. o \in Offsets /\ o \in Nat
  <2>1. gcTarget \in Offsets
    BY WorkerReads
  <2>2. o \in Offsets
    BY <2>1, ConstantsAssumption
  <2> QED BY <2>2, Bounds DEF Offsets
<1>6. Read(w, gcChunks, w.gen, o) # Missing
  BY DEF CanCopy, WorkerRead
<1>7. CASE o >= w.startOff
  <2>1. o >= w.target
    <3>1. w.startOff \in {w.target, w.target + 1} /\ w.target \in Int
      BY <1>1, <1>3, PayloadShape DEF Rooted
    <3> QED BY <1>5, <1>7, <3>1
  <2>2. o > w.target \/ o = w.target
    BY <1>1, <1>5, <2>1, PayloadShape
  <2>3. o \in Needs[o]
    BY <1>5, ConstantsAssumption
  <2> QED BY <2>2, <2>3 DEF Reached
<1>8. CASE ~ (o >= w.startOff)
  <2>1. w.gen # 0 /\ o \in DOMAIN prefixFile[w.gen]
    BY <1>6, <1>8 DEF Read
  <2>2. DOMAIN prefixFile[w.gen] = Needs[w.target]
    BY <1>3, <2>1 DEF Rooted, Copied
  <2> QED BY <2>1, <2>2 DEF Reached
<1> QED BY <1>7, <1>8

LEMMA CollectsKept ==
  ASSUME IInv, Collects, [Next]_vars PROVE Collects'
<1> USE DEF Collects
<1>1. PICK b \in Begins : Core(b)
  BY DEF IInv
<1>2. Types /\ Names /\ Residue
  BY DEF IInv
<1>3. ASSUME UNCHANGED gcVars, control'.target = control.target PROVE Collects'
  <2>1. UNCHANGED <<gcPc, gcTarget, gcPayload>>
    BY <1>3 DEF gcVars
  <2> QED BY <1>3, <2>1 DEF Reached
<1>4. ASSUME gcPc' = "none" PROVE Collects'
  BY <1>4
<1>5. pc # "down" => payload = control
  BY <1>1 DEF Core, Main
<1>6. control \in Payload
  BY <1>2 DEF Types, TypeOK
<1>7. CASE StartBatch \/ AppendEntry \/ FlushSuffix \/ AddChunk \/ OpenRw
  BY <1>3, <1>7 DEF StartBatch, AppendEntry, FlushSuffix, AddChunk, OpenRw, fileVars
<1>8. CASE FlushControl
  <2>1. control'.target = control.target /\ UNCHANGED gcVars
    BY <1>5, <1>6, <1>8 DEF FlushControl, SetPayload, Payload
  <2> QED BY <1>3, <2>1
<1>9. CASE SplitControl
  <2>1. control'.target = control.target /\ UNCHANGED gcVars
    BY <1>5, <1>6, <1>9 DEF SplitControl, SetPayload, Payload
  <2> QED BY <1>3, <2>1
<1>10. ASSUME NEW c \in 0..Len(log) - 1, StartGc(c) PROVE Collects'
  BY <1>10 DEF StartGc
<1>11. CASE WorkerOpens
  BY <1>11 DEF WorkerOpens, fileVars
<1>12. CASE WorkerWrites
  <2>1. /\ gcPc = "opened" /\ CanCopy /\ gcPc' = "done"
        /\ UNCHANGED <<control, gcTarget, gcPayload>>
    BY <1>12 DEF WorkerWrites
  <2>2. \A o \in Needs[gcTarget] : Reached(control, o)
    BY <1>1, <1>2, <2>1, CanCopyReached
  <2> QED BY <2>1, <2>2
<1>13. CASE Swap \/ GcFails \/ CrashRw
  BY <1>4, <1>13 DEF Swap, GcFails, CrashRw, NoGc
<1>14. ASSUME NEW i \in unlinking, UnlinkChunk(i) PROVE Collects'
  BY <1>3, <1>14 DEF UnlinkChunk
<1>15. ASSUME NEW g \in unlinkingPrefix, UnlinkPrefix(g) PROVE Collects'
  BY <1>3, <1>15 DEF UnlinkPrefix
<1>16. CASE RoOpenControl \/ RoReloadControl \/ RoSuffix \/ RoPrefix \/ RoClose
  BY <1>3, <1>16
  DEF RoOpenControl, RoReloadControl, RoSuffix, RoPrefix, RoClose, fileVars
<1>17. CASE UNCHANGED vars
  BY <1>3, <1>17 DEF vars, fileVars
<1> QED BY <1>7, <1>8, <1>9, <1>10, <1>11, <1>12, <1>13, <1>14, <1>15, <1>16, <1>17
        DEF Next

\* A step that leaves the collected commit, the published end and the entries
\* before it alone is not seen.
LEMMA UnseenStep ==
  ASSUME ReadsLog, ReadsLog', control'.target = control.target,
         published' = published, published \in Nat, Same(log, log', published)
  PROVE  UNCHANGED Collected!vars
<1>1. Live(control', published') = Live(control, published)
  BY DEF Live
<1>2. \A o \in Live(control, published) : log'[o + 1] = log[o + 1]
  <2> TAKE o \in Live(control, published)
  <2>1. o \in 0..published - 1
    BY DEF Live
  <2>2. o + 1 \in 1..published
    BY <2>1
  <2> QED BY <2>2 DEF Same
<1>3. Readable' = Readable
  BY <1>1, <1>2 DEF ReadsLog
<1> QED BY <1>3 DEF Collected!vars

\* The flush of the control file publishes what was appended.
LEMMA PublishStep ==
  ASSUME Types, NEW b \in Begins, Core(b), FlushControl, ReadsLog, ReadsLog'
  PROVE  Collected!Publish \/ UNCHANGED Collected!vars
<1> DEFINE q == Len(log)
<1>1. /\ control' = [payload EXCEPT !.poff = Last(chunks).end] /\ published' = q
      /\ log' = log /\ payload = control
  BY DEF FlushControl, SetPayload, Core, Main
<1>2. control'.target = control.target
  <2>1. control \in Payload
    BY DEF Types, TypeOK
  <2> QED BY <1>1, <2>1 DEF Payload
<1>3. q \in Nat /\ published \in 0..q
  BY Shapes
<1> HIDE DEF q
<1>4. CASE published = q
  <2>1. Same(log, log', published)
    BY <1>1 DEF Same
  <2> QED BY <1>1, <1>2, <1>3, <1>4, <2>1, UnseenStep
<1>5. CASE published # q
  <2>1. published' \in Nat /\ published' > published /\ published \in Nat
    BY <1>1, <1>3, <1>5
  <2>2. control.target < published /\ control.target \in Int
    <3>1. control \in Payload
      BY Shapes
    <3> QED BY <3>1, PayloadShape DEF Core, Sound
  <2>3. Live(control', published') = Live(control, published) \cup published..q - 1
    <3>1. ASSUME NEW o \in published..q - 1 PROVE o \in Live(control', published')
      <4>1. o \in 0..q - 1 /\ o > control.target
        BY <1>3, <2>2
      <4> QED BY <1>1, <1>2, <4>1 DEF Live
    <3>2. ASSUME NEW o \in Live(control, published) PROVE o \in Live(control', published')
      <4>1. o \in 0..published - 1
        BY DEF Live
      <4>2. o \in 0..q - 1
        BY <1>3, <4>1
      <4> QED BY <1>1, <1>2, <4>2 DEF Live
    <3>3. ASSUME NEW o \in Live(control', published')
          PROVE  o \in Live(control, published) \/ o \in published..q - 1
      <4>1. o \in 0..q - 1
        BY <1>1 DEF Live
      <4>2. o \in 0..published - 1 \/ o \in published..q - 1
        BY <1>3, <4>1
      <4> QED BY <1>2, <4>2 DEF Live
    <3> QED BY <3>1, <3>2, <3>3
  <2>4. DOMAIN Readable = Live(control, published) /\ DOMAIN Readable' = Live(control', published')
    BY DEF ReadsLog
  <2>5. \A o \in DOMAIN Readable : Readable'[o] = Readable[o]
    BY <1>1, <2>3 DEF ReadsLog
  <2>6. DOMAIN Readable' = DOMAIN Readable \cup published..published' - 1
    BY <1>1, <2>3, <2>4
  <2> QED BY <2>1, <2>5, <2>6 DEF Collected!Publish
<1> QED BY <1>4, <1>5

\* The swap forgets what is older than the commit and not reached by it.
LEMMA CollectStep ==
  ASSUME Types, NEW b \in Begins, Core(b), Collects, Swap, ReadsLog, ReadsLog'
  PROVE  Collected!Collect \/ UNCHANGED Collected!vars
<1>1. /\ pc = "ready" /\ gcPc = "done" /\ control' = Swapped /\ payload = control
      /\ published' = published /\ log' = log
  BY DEF Swap, SetPayload, logVars, Core, Main
<1>2. control'.target = gcTarget
  <2>1. payload \in Payload
    BY DEF Types, TypeOK
  <2> QED BY <1>1, <2>1 DEF Swapped, Payload
<1>3. /\ control.target < gcTarget /\ gcTarget \in 0..published - 1
      /\ control.target \in Int /\ published \in Nat /\ gcTarget \in Nat
  <2>1. control.target < gcTarget /\ gcTarget \in 0..published - 1
    BY <1>1 DEF Core, Gc
  <2>2. published \in 0..Len(log) /\ control \in Payload /\ Len(log) \in Nat
    BY Shapes
  <2>3. published \in Nat
    <3> DEFINE x == Len(log)
    <3>1. x \in Nat /\ published \in 0..x
      BY <2>2
    <3> HIDE DEF x
    <3> QED BY <3>1
  <2> QED BY <2>1, <2>2, <2>3, PayloadShape
<1>4. gcTarget # -1
  BY <1>3
<1>5. \A o \in Needs[gcTarget] : Reached(control, o)
  BY <1>1 DEF Collects
<1> DEFINE live == Live(control, published)
           kept == {p \in live : p > gcTarget \/ p \in Needs[gcTarget]}
<1>6. Live(control', published') = kept
  <2>1. ASSUME NEW o \in Live(control', published') PROVE o \in kept
    <3>1. o \in 0..published - 1 /\ (o > gcTarget \/ o \in Needs[gcTarget])
      BY <1>1, <1>2, <1>4 DEF Live
    <3>2. Reached(control, o)
      <4>1. CASE o > gcTarget
        <5>1. o > control.target
          BY <1>3, <3>1, <4>1
        <5> QED BY <5>1 DEF Reached
      <4>2. CASE o \in Needs[gcTarget]
        BY <1>5, <4>2
      <4> QED BY <3>1, <4>1, <4>2
    <3>3. o \in live
      BY <3>1, <3>2 DEF Live, Reached
    <3> QED BY <3>1, <3>3
  <2>2. ASSUME NEW o \in kept PROVE o \in Live(control', published')
    BY <1>1, <1>2 DEF Live
  <2> QED BY <2>1, <2>2
<1>7. gcTarget \in live
  BY <1>3 DEF Live
<1> HIDE DEF live
<1>8. DOMAIN Readable = live /\ \A o \in live : Readable[o] = log[o + 1]
  BY DEF ReadsLog, live
<1>9. Readable' = [o \in kept |-> Readable[o]]
  <2>1. Readable' = [o \in kept |-> log[o + 1]]
    BY <1>1, <1>6 DEF ReadsLog
  <2> QED BY <1>8, <2>1
<1>10. Readable' = [o \in {p \in DOMAIN Readable : p > gcTarget \/ p \in Needs[gcTarget]}
                       |-> Readable[o]]
  BY <1>8, <1>9
<1>11. CASE DOMAIN Readable' # DOMAIN Readable
  BY <1>1, <1>7, <1>8, <1>10, <1>11 DEF Collected!Collect
<1>12. CASE DOMAIN Readable' = DOMAIN Readable
  <2>1. kept = live
    BY <1>8, <1>9, <1>12
  <2>2. Readable = [o \in live |-> log[o + 1]]
    BY DEF ReadsLog, live
  <2>3. Readable' = Readable
    BY <1>8, <1>9, <2>1, <2>2
  <2> QED BY <1>1, <2>3 DEF Collected!vars
<1> QED BY <1>11, <1>12

LEMMA CollectedNext ==
  ASSUME IInv, Collects, ReadsLog, ReadsLog', [Next]_vars
  PROVE  [Collected!Next]_(Collected!vars)
<1>1. PICK b \in Begins : Core(b)
  BY DEF IInv
<1>2. Types
  BY DEF IInv
<1>p. published \in Nat /\ published \in 0..Len(log) /\ log \in Seq(Nat)
  <2>1. published \in 0..Len(log) /\ Len(log) \in Nat /\ log \in Seq(Nat)
    BY <1>1, <1>2, Shapes
  <2> QED BY <2>1
<1>3. ASSUME control'.target = control.target, published' = published,
             Same(log, log', published)
      PROVE  UNCHANGED Collected!vars
  BY <1>3, <1>p, UnseenStep
<1>4. ASSUME UNCHANGED control, UNCHANGED logVars PROVE UNCHANGED Collected!vars
  <2>1. Same(log, log', published)
    BY <1>4 DEF Same, logVars
  <2> QED BY <1>3, <1>4, <2>1 DEF logVars
<1>5. CASE StartBatch \/ FlushSuffix \/ AddChunk \/ OpenRw
  BY <1>4, <1>5 DEF StartBatch, FlushSuffix, AddChunk, OpenRw, fileVars
<1>6. CASE AppendEntry
  <2>1. control' = control /\ published' = published /\ log' = Append(log, appends')
    BY <1>6 DEF AppendEntry
  <2>2. Same(log, log', published)
    <3> SUFFICES ASSUME NEW k \in 1..published PROVE log'[k] = log[k]
      BY DEF Same
    <3>1. k \in 1..Len(log)
      <4> DEFINE x == Len(log)
      <4>1. x \in Nat /\ published \in 0..x
        BY <1>p
      <4> HIDE DEF x
      <4>2. k \in 1..x
        BY <4>1
      <4> QED BY <4>2 DEF x
    <3> QED BY <1>p, <2>1, <3>1
  <2> QED BY <1>3, <2>1, <2>2
<1>7. CASE SplitControl
  <2>1. control'.target = control.target /\ UNCHANGED logVars
    <3>1. payload = control /\ payload \in Payload
      BY <1>1, <1>2, <1>7 DEF SplitControl, Core, Main, Types, TypeOK
    <3> QED BY <1>7, <3>1 DEF SplitControl, SetPayload, Payload
  <2>2. Same(log, log', published)
    BY <2>1 DEF Same, logVars
  <2> QED BY <1>3, <2>1, <2>2 DEF logVars
<1>8. CASE FlushControl
  BY <1>1, <1>2, <1>8, PublishStep DEF Collected!Next
<1>9. CASE Swap
  BY <1>1, <1>2, <1>9, CollectStep DEF Collected!Next
<1>10. ASSUME NEW c \in 0..Len(log) - 1, StartGc(c) PROVE UNCHANGED Collected!vars
  BY <1>4, <1>10 DEF StartGc, fileVars
<1>11. CASE WorkerOpens \/ WorkerWrites \/ GcFails
  BY <1>4, <1>11 DEF WorkerOpens, WorkerWrites, GcFails, fileVars
<1>12. ASSUME NEW i \in unlinking, UnlinkChunk(i) PROVE UNCHANGED Collected!vars
  BY <1>4, <1>12 DEF UnlinkChunk
<1>13. ASSUME NEW g \in unlinkingPrefix, UnlinkPrefix(g) PROVE UNCHANGED Collected!vars
  BY <1>4, <1>13 DEF UnlinkPrefix
<1>14. CASE CrashRw
  <2>1. control' = control /\ published' = published /\ log' = SubSeq(log, 1, published)
    BY <1>14 DEF CrashRw, fileVars
  <2>2. Same(log, log', published)
    BY <1>p, <2>1, CutLog
  <2> QED BY <1>3, <2>1, <2>2
<1>15. CASE RoOpenControl \/ RoReloadControl \/ RoSuffix \/ RoPrefix \/ RoClose
  BY <1>4, <1>15
  DEF RoOpenControl, RoReloadControl, RoSuffix, RoPrefix, RoClose, fileVars
<1>16. CASE UNCHANGED vars
  BY <1>4, <1>16 DEF vars, fileVars
<1> QED BY <1>5, <1>6, <1>7, <1>8, <1>9, <1>10, <1>11, <1>12, <1>13, <1>14, <1>15, <1>16
        DEF Next

LEMMA CollectedInit ==
  ASSUME Init PROVE Collected!Init
<1>1. control = NewStore /\ published = 0
  BY DEF Init
<1>2. Live(control, published) = {}
  BY <1>1 DEF Live
<1>3. Readable = << >>
  BY <1>2 DEF Readable
<1> QED BY <1>1, <1>3 DEF Collected!Init

\* The files of the store implement a log to which flushes add, from which a
\* collection takes what its commit does not reach, and from which nothing else
\* is ever lost, deaths of the writer included.
THEOREM ImplementsCollectedLog ==
  ASSUME NoTail PROVE Spec => CollectedSpec
<1>1. Init => Collects
  BY DEF Init, Collects
<1>2. IInv /\ Collects /\ [Next]_vars => Collects'
  BY CollectsKept
<1>3. Spec => []Collects
  BY <1>1, <1>2, SpecInv, PTL DEF Spec
<1>4. IInv => ReadsLog
  BY InvReadsLog
<1>5. Init => Collected!Init
  BY CollectedInit
<1>6. IInv /\ Collects /\ ReadsLog /\ ReadsLog' /\ [Next]_vars
        => [Collected!Next]_(Collected!vars)
  BY CollectedNext
<1>7. Spec => Collected!Spec
  BY <1>3, <1>4, <1>5, <1>6, SpecInv, PTL DEF Spec, Collected!Spec
<1> QED BY <1>7 DEF CollectedSpec
=============================================================================
