------------------------- MODULE LowerLayer_proofs -------------------------
(***************************************************************************)
(* What LowerLayer promises, for every graph of commits and every number of *)
(* entries, collections, volumes and deaths.                                *)
(*                                                                         *)
(* The argument: volumes have ranges of entries that are apart, the control *)
(* file of a volume covers a part of its files that nobody writes again,    *)
(* and every archived commit has its tree and its parent in the volume      *)
(* whose range it is in.  The next collection starts from a volume, or from *)
(* a prefix, with the tree and the parent of the last target, and the       *)
(* entries it archives hang on nothing older.                               *)
(*                                                                         *)
(* What a process has in memory covers a part of what the files have now,    *)
(* as control files only grow.                                              *)
(***************************************************************************)
EXTENDS LowerLayer, FiniteSetTheorems, SequenceTheorems, WellFoundedInduction, TLAPS

\* The application and the system meet none of the situations in S.
Never(S) == S \cap Allowed = {}

-----------------------------------------------------------------------------
(* The invariant. *)

Volume == [mapping : Seq([off : Entries, poff : Nat \ {0}]), data : Seq(Entries),
           control : VolumeControl, tmp : [Gens -> VolumeControl]]

\* The suffix starts after the last target.
Joined(c) == c.target + 1 = c.start

\* The types of what the main process, its worker and the files have, and of
\* what the reader has.
RwType ==
  /\ entries \in {0} \cup Commits /\ control \in StoreControl
  /\ DOMAIN prefixes \subseteq Gens /\ \A g \in DOMAIN prefixes : prefixes[g] \in Seq(Entries)
  /\ volumes \in [Volumes -> Volume] /\ volumeNames \subseteq Volumes
  /\ pc \in {"ready", "adding", "swapped", "unlinking", "down", "opening"}
  /\ loaded \in Seq(VolumeControl)
  /\ gcPc \in {"none", "prefix", "archive", "refused", "data", "mapping", "control", "done"}
  /\ target \in {0} \cup Commits
  /\ gcs \in 0..MaxGcs /\ crashes \in 0..MaxCrashes /\ archived \subseteq Commits
RoType ==
  /\ roControl \in StoreControl /\ roLoaded \in Seq(VolumeControl)
  /\ roPc \in {"closed", "loading", "ready"} /\ roPrefix \in Seq(Entries)
  /\ roArchived \subseteq Commits

\* What each stage leaves behind it.
Shape ==
  /\ control.gen + (IF gcPc = "none" THEN 0 ELSE 1) <= gcs + 1
  /\ \A v \in Volumes : v > Appendable => volumes[v] = NewVolume
  /\ pc \in {"ready", "swapped", "unlinking", "opening"} => Len(loaded) = Appendable
  /\ pc = "adding" => /\ Len(loaded) = Appendable + 1 /\ Appendable + 1 \in Volumes
                      /\ Joined(control)
  /\ gcPc # "none" => pc = "ready" /\ target \in Commits
  /\ gcPc \in {"data", "mapping", "control"} => target >= control.start

\* A temporary control file has the generation of the next collection at most,
\* and the one in use only from the swap of the control file on.
Temporary ==
  /\ \A v \in Volumes : \A g \in Gens : g > NextGen => volumes[v].tmp[g] = Nothing
  /\ pc \in {"ready", "adding", "unlinking"} => volumes[Appendable].tmp[control.gen] = Nothing

\* The definitions that follow have the volumes vs, the control file c, the
\* archived commits ar and the prefixes pre as parameters.

\* A volume V after the cleanup of generation g.
Clean(V, g) ==
  IF V.tmp[g] = Nothing THEN V
  ELSE [V EXCEPT !.control = V.tmp[g], !.tmp[g] = Nothing]

\* The control file that a restart finds or makes for volume v.
Covering(vs, c, v) == IF v = c.volumes THEN Clean(vs[v], c.gen).control ELSE vs[v].control

InRange(k, o) == k.start <= o /\ o < k.end

\* The control file k was one of a volume before l was.
Older(k, l) ==
  k = Nothing \/ (k.len # 0 /\ k.start = l.start /\ k.end <= l.end /\ k.len <= l.len)

\* The first n places of the mapping and of the data of V say the same.
Straight(V, n) ==
  /\ n <= Len(V.mapping) /\ n <= Len(V.data)
  /\ \A i \in 1..n : V.mapping[i].off = V.data[i] /\ V.mapping[i].poff = i

\* InVolume.
Has(V, n, o) == \E i \in 1..n : V.mapping[i].off = o /\ V.data[V.mapping[i].poff] = o

\* Ranges are apart, and the files have what the control files cover.
Laid(vs, c) ==
  /\ \A v \in 1..c.volumes :
       /\ Covering(vs, c, v).len = 0 => Covering(vs, c, v) = Nothing
       /\ Covering(vs, c, v).len # 0 => Covering(vs, c, v).start < Covering(vs, c, v).end
       /\ Straight(vs[v], Covering(vs, c, v).len)
  /\ \A v, w \in 1..c.volumes :
       v < w /\ Covering(vs, c, v).len # 0 /\ Covering(vs, c, w).len # 0 =>
         Covering(vs, c, v).end <= Covering(vs, c, w).start
  /\ Older(vs[c.volumes].control, Covering(vs, c, c.volumes))

\* A commit has its tree and its parent in one volume, by the control files cs,
\* and each of them is also in the volume whose range has it.
InOne(vs, cs, c) ==
  \E v \in 1..Len(cs) :
    InRange(cs[v], c) /\ \A d \in Snapshot(c) : Has(vs[v], cs[v].len, d)
InOwn(vs, cs, d) == \E v \in 1..Len(cs) : InRange(cs[v], d) /\ Has(vs[v], cs[v].len, d)
Covers(vs, cs, S) ==
  \A c \in S : InOne(vs, cs, c) /\ \A d \in Snapshot(c) : InOwn(vs, cs, d)

CoveringAll(vs, c, n) == [v \in 1..n |-> Covering(vs, c, v)]

\* Otherwise everything before the suffix was migrated, or the last target is
\* the first entry of the suffix.
Migrated(vs, c, ar) ==
  /\ c.volumes = 1 /\ c.target < c.start
  /\ ar = Commits \cap 1..c.start - 1
  /\ \A o \in 1..c.start - 1 :
       InRange(Covering(vs, c, 1), o) /\ Has(vs[1], Covering(vs, c, 1).len, o)
Stuck(vs, c) == c.target = c.start /\ Covering(vs, c, c.volumes).len # 0

\* Where the suffix starts, and where the ranges of the volumes end.
Place(vs, c, ar) ==
  /\ Joined(c) \/ Migrated(vs, c, ar) \/ Stuck(vs, c)
  /\ c.start - 1 \in {0} \cup Commits
  /\ \A v \in 1..c.volumes - 1 : Covering(vs, c, v).end <= c.start
  /\ Covering(vs, c, c.volumes).len # 0 =>
       Covering(vs, c, c.volumes).end = IF Stuck(vs, c) THEN c.start + 1 ELSE c.start

\* What was archived is covered, with its history; the prefix has the tree and
\* the parent of the last target.
Archive(vs, c, ar, pre) ==
  /\ Covers(vs, CoveringAll(vs, c, c.volumes), ar)
  /\ \A d \in ar : history[d] \cap Commits \subseteq ar
  /\ Joined(c) /\ c.target # 0 => c.target \in ar
  /\ c.target # 0 => c.gen \in DOMAIN pre /\ pre[c.gen] = Sorted(Snapshot(c.target))

\* The places after n of a file have s.
Follows(file, n, s) ==
  n + Len(s) <= Len(file) /\ \A i \in 1..Len(s) : file[n + i] = s[i]

\* The control file that a collection writes for volume V: from the mapping b,
\* it archives s.
NewControl(V, b, s) ==
  [start |-> IF IsEmpty(V.control) THEN s[1] ELSE V.control.start,
   end |-> s[Len(s)] + 1, len |-> Len(b) + Len(s)]

\* How far a worker is in volume V, before each stage.
Writing(V, b, s, g, stage) ==
  /\ V.control.end <= s[1]
  /\ Straight(V, Len(b))
  /\ \A i \in 1..Len(b) : b[i].off = V.data[i] /\ b[i].poff = i
  /\ stage \in {"mapping", "control", "done"} => Follows(V.data, Len(b), s)
  /\ stage \in {"control", "done"} => Straight(V, Len(b) + Len(s))
  /\ stage = "done" => V.tmp[g] = NewControl(V, b, s)

\* The mapping that it starts from, over volume V, the n-th, and the prefix p.
BaseOf(V, n, p) ==
  IF ~IsEmpty(V.control) THEN SubSeq(V.mapping, 1, V.control.len)
  ELSE IF n = 1 THEN << >>
  ELSE [i \in 1..Len(p) |-> [off |-> p[i], poff |-> i]]

\* What it archives for the target t.
ArchiveOf(t, start) == Sorted({o \in history[t] : o >= start})

PrefixOf(pre, g) == IF g \in DOMAIN pre THEN pre[g] ELSE << >>

\* What a worker at a stage, for target t, has done.
Working(stage, t, c, pre, V) ==
  stage # "none" =>
    /\ c.target < t /\ c.target \in {0} \cup history[t]
    /\ t < c.start => V.tmp[c.gen + 1] = Nothing
    /\ stage # "prefix" => /\ c.gen + 1 \in DOMAIN pre
                           /\ pre[c.gen + 1] = Sorted(Snapshot(t))
    /\ t >= c.start /\ stage \in {"data", "mapping", "control", "done"} =>
         Writing(V, BaseOf(V, c.volumes, PrefixOf(pre, c.gen)), ArchiveOf(t, c.start),
                 c.gen + 1, stage)

Work == Working(gcPc, target, control, prefixes, volumes[Appendable])

Files ==
  /\ Laid(volumes, control) /\ Place(volumes, control, archived)
  /\ Archive(volumes, control, archived, prefixes)

RwInv == RwType /\ Shape /\ Temporary /\ Files /\ Work
IInv == RwInv /\ RoType

\* The main process has the control files of the volumes in memory.
Known ==
  /\ pc \notin {"swapped", "down"} =>
       \A v \in 1..Appendable : loaded[v] = volumes[v].control
  /\ pc = "adding" => loaded[Appendable + 1] = Nothing
  /\ pc # "swapped" => volumes[Appendable].tmp[control.gen] = Nothing

\* A reader that read the control file r, at the stage rpc, with rl in memory and
\* ra archived: what it has, or loads, covers ra.
Reader(vs, c, r, rpc, rl, ra) ==
  /\ r.volumes <= c.volumes /\ r.gen <= c.gen
  /\ r.gen = c.gen => r.start = c.start /\ r.target = c.target
  /\ rpc = "loading" => Covers(vs, CoveringAll(vs, c, r.volumes), ra)
  /\ rpc = "ready" =>
       /\ Len(rl) <= c.volumes
       /\ \A v \in 1..Len(rl) : Older(rl[v], Covering(vs, c, v))
       /\ Covers(vs, rl, ra)

\* In the middle of a swap, the files of before are enough for a reader that read
\* the control file of before.
RoInv ==
  /\ Reader(volumes, control, roControl, roPc, roLoaded, roArchived)
  /\ roPc = "loading" /\ pc = "swapped" /\ roControl.gen # control.gen =>
       Covers(volumes, Load(roControl.volumes), roArchived)
-----------------------------------------------------------------------------
(* Numbers, and sets of them in order. *)

LEMMA Least ==
  ASSUME NEW T, T \subseteq Nat, T # {}
  PROVE  \E x \in T : \A y \in T : x <= y
<1>1. IsWellFoundedOn(OpToRel(<, Nat), Nat)
  BY NatLessThanWellFounded
<1>2. PICK x \in T : \A y \in T : ~ (<<y, x>> \in OpToRel(<, Nat))
  BY <1>1, WFMin
<1>3. \A y \in T : ~ (y < x)
  BY <1>2 DEF OpToRel
<1> QED BY <1>3

LEMMA FiniteInterval ==
  ASSUME NEW n \in Nat, NEW S, S \subseteq 1..n
  PROVE  IsFiniteSet(S)
<1>1. IsFiniteSet(1..n)
  BY FS_Interval
<1>2. S \in SUBSET (1..n)
  OBVIOUS
<1> QED BY <1>1, <1>2, FS_Subset

\* The rank of x in S.
Rank(S, x) == Cardinality({y \in S : y <= x})

LEMMA RankGrows ==
  ASSUME NEW n \in Nat, NEW S, S \subseteq 1..n, NEW x \in S
  PROVE  /\ IsFiniteSet(S) /\ Rank(S, x) \in 1..Cardinality(S)
         /\ \A y \in S : x < y => Rank(S, x) < Rank(S, y)
         /\ \A y \in S : x <= y => Rank(S, x) <= Rank(S, y)
<1> DEFINE B(z) == {y \in S : y <= z}
<1>0. \A z \in S : z \in Int
  OBVIOUS
<1>1. IsFiniteSet(S)
  BY FiniteInterval
<1>2. \A z : IsFiniteSet(B(z)) /\ Cardinality(B(z)) \in Nat /\ Cardinality(B(z)) <= Cardinality(S)
  BY <1>1, FS_Subset, FS_CardinalityType
<1>3. Cardinality(B(x)) # 0
  <2>1. x \in B(x)
    OBVIOUS
  <2> HIDE DEF B
  <2> QED BY <1>2, <2>1, FS_EmptySet
<1>4. ASSUME NEW y \in S, x <= y PROVE Cardinality(B(x)) <= Cardinality(B(y))
  <2>0. \A z \in S : z <= x => z <= y
    BY <1>0, <1>4
  <2>1. B(x) \subseteq B(y)
    BY <2>0, Zenon
  <2> HIDE DEF B
  <2>2. IsFiniteSet(B(y))
    BY <1>2
  <2> QED BY <2>1, <2>2, FS_Subset
<1>5. ASSUME NEW y \in S, x < y PROVE Cardinality(B(x)) < Cardinality(B(y))
  <2>0. y <= y /\ ~ (y <= x) /\ \A z \in S : z <= x => z <= y
    BY <1>0, <1>5
  <2>1. B(x) \subseteq B(y) /\ y \in B(y) /\ y \notin B(x)
    BY <2>0, Zenon
  <2> HIDE DEF B
  <2>2. IsFiniteSet(B(y))
    BY <1>2
  <2>3. Cardinality(B(x)) <= Cardinality(B(y))
        /\ (Cardinality(B(y)) = Cardinality(B(x)) => B(y) = B(x))
    BY <2>1, <2>2, FS_Subset
  <2>4. Cardinality(B(x)) # Cardinality(B(y))
    BY <2>1, <2>3
  <2>5. Cardinality(B(x)) \in Nat /\ Cardinality(B(y)) \in Nat
    BY <1>2
  <2> QED BY <2>3, <2>4, <2>5
<1>6. Cardinality(S) \in Nat
  BY <1>1, FS_CardinalityType
<1>7. \A z : Rank(S, z) = Cardinality(B(z))
  BY DEF Rank
<1> HIDE DEF B
<1>8. Rank(S, x) \in 1..Cardinality(S)
  BY <1>2, <1>3, <1>6, <1>7
<1> QED BY <1>1, <1>4, <1>5, <1>7, <1>8

\* A set of numbers in order.
LEMMA SortedIs ==
  ASSUME NEW n \in Nat, NEW S, S \subseteq 1..n
  PROVE  /\ Sorted(S) \in Seq(S)
         /\ \A x : x \in S <=> \E i \in 1..Len(Sorted(S)) : Sorted(S)[i] = x
         /\ \A i, j \in 1..Len(Sorted(S)) : i < j => Sorted(S)[i] < Sorted(S)[j]
<1> DEFINE m == Cardinality(S)
           f == [x \in S |-> Rank(S, x)]
<1>1. IsFiniteSet(S)
  BY FiniteInterval
<1>2. m \in Nat /\ Cardinality(1..m) = m /\ IsFiniteSet(1..m)
  BY <1>1, FS_CardinalityType, FS_Interval
<1> HIDE DEF m
<1>3. \A x \in S : Rank(S, x) \in 1..m
  BY RankGrows DEF m
<1>4. \A x, y \in S : Rank(S, x) = Rank(S, y) => x = y
  <2> SUFFICES ASSUME NEW x \in S, NEW y \in S, Rank(S, x) = Rank(S, y), x # y PROVE FALSE
    OBVIOUS
  <2>1. x < y \/ y < x
    OBVIOUS
  <2>2. Rank(S, x) \in Nat /\ Rank(S, y) \in Nat
    BY <1>2, <1>3
  <2>3. x < y => Rank(S, x) < Rank(S, y)
    BY RankGrows
  <2>4. y < x => Rank(S, y) < Rank(S, x)
    BY RankGrows
  <2> QED BY <2>1, <2>2, <2>3, <2>4
<1>5. f \in Injection(S, 1..m)
  BY <1>3, <1>4 DEF Injection, IsInjective
<1>6. f \in Surjection(S, 1..m)
  <2>1. Cardinality(S) = Cardinality(1..m)
    BY <1>2 DEF m
  <2> HIDE DEF f
  <2> QED BY <1>2, <1>5, <2>1, FS_Injection
<1>7. \A i \in 1..m : \E x \in S : Rank(S, x) = i
  BY <1>6 DEF Surjection
<1>8. Sorted(S) = [i \in 1..m |-> CHOOSE x \in S : Rank(S, x) = i]
  BY DEF Sorted, Rank, m
<1>9. \A i \in 1..m : Sorted(S)[i] \in S /\ Rank(S, Sorted(S)[i]) = i
  BY <1>7, <1>8
<1>10. Sorted(S) \in Seq(S) /\ Len(Sorted(S)) = m
  <2>1. Sorted(S) \in [1..m -> S]
    BY <1>8, <1>9
  <2> QED BY <1>2, <2>1
<1>11. ASSUME NEW x \in S PROVE Sorted(S)[Rank(S, x)] = x
  BY <1>3, <1>4, <1>9
<1>12. ASSUME NEW i \in 1..m, NEW j \in 1..m, i < j PROVE Sorted(S)[i] < Sorted(S)[j]
  <2>1. ~ (Sorted(S)[j] <= Sorted(S)[i])
    <3>1. Sorted(S)[j] \in S /\ Sorted(S)[i] \in S
      BY <1>9
    <3>2. Sorted(S)[j] <= Sorted(S)[i] => Rank(S, Sorted(S)[j]) <= Rank(S, Sorted(S)[i])
      BY <3>1, RankGrows
    <3> QED BY <1>9, <1>12, <3>2
  <2>2. Sorted(S)[i] \in 1..n /\ Sorted(S)[j] \in 1..n
    BY <1>9
  <2> QED BY <2>1, <2>2
<1> QED BY <1>3, <1>9, <1>10, <1>11, <1>12
-----------------------------------------------------------------------------
(* Commits and what they reach. *)

LEMMA LastCommit ==
  /\ MaxEntry \in Commits /\ \A c \in Commits : c \in 1..MaxEntry
  /\ \A c \in Commits : Uses[c] \subseteq 1..c - 1 /\ Uses[c] \cap Commits = {}
  /\ \A c \in Commits : Parent[c] \in {0} \cup Commits /\ Parent[c] < c
<1>1. \E last \in Commits : \A c \in Commits : c <= last
  BY ConstantsAssumption
<1>2. MaxEntry \in Commits /\ \A c \in Commits : c <= MaxEntry
  BY <1>1 DEF MaxEntry
<1> QED BY <1>2, ConstantsAssumption

LEMMA CommitIs ==
  ASSUME NEW x \in Commits
  PROVE  /\ x \in Nat \ {0} /\ x \in 1..MaxEntry
         /\ Uses[x] \subseteq 1..x - 1 /\ Uses[x] \cap Commits = {}
         /\ Parent[x] \in Nat /\ Parent[x] < x
         /\ Parent[x] # 0 => Parent[x] \in Commits /\ Parent[x] \in 1..x
<1>1. x \in Nat \ {0} /\ x \in 1..MaxEntry /\ Parent[x] \in {0} \cup Commits /\ Parent[x] < x
  BY LastCommit, ConstantsAssumption
<1>2. Parent[x] \in Nat
  <2>1. \A y : y \in Commits => y \in Nat
    BY ConstantsAssumption
  <2>2. Parent[x] = 0 \/ Parent[x] \in Commits
    BY <1>1
  <2> QED BY <2>1, <2>2
<1>3. Parent[x] # 0 => Parent[x] \in Commits /\ Parent[x] \in 1..x
  BY <1>1, <1>2
<1>4. Uses[x] \subseteq 1..x - 1 /\ Uses[x] \cap Commits = {}
  BY LastCommit
<1> QED BY <1>1, <1>2, <1>3, <1>4

\* S has the parents of its commits.
Closed(S) == \A e \in S : Parent[e] \in S \cup {0}

\* The commits that are reached from c.
Line(c) == {d \in Commits : \A S \in SUBSET Commits : c \in S /\ Closed(S) => d \in S}

LEMMA LineIs ==
  ASSUME NEW c \in Commits
  PROVE  Line(c) = {c} \cup (IF Parent[c] = 0 THEN {} ELSE Line(Parent[c]))
<1> DEFINE p == Parent[c]
           T == {c} \cup (IF p = 0 THEN {} ELSE Line(p))
<1>0. p \in {0} \cup Commits
  BY LastCommit
<1> HIDE DEF p
<1>1. T \in SUBSET Commits /\ c \in T
  BY DEF Line
<1>2. ASSUME p # 0, NEW e \in Line(p) PROVE Parent[e] \in Line(p) \cup {0}
  <2>1. e \in Commits /\ Parent[e] \in {0} \cup Commits
    BY LastCommit DEF Line
  <2>2. ASSUME NEW S \in SUBSET Commits, p \in S, Closed(S) PROVE Parent[e] \in S \cup {0}
    BY <2>2 DEF Line, Closed
  <2> QED BY <2>1, <2>2 DEF Line
<1>3. p # 0 => p \in Line(p)
  BY <1>0 DEF Line
<1>4. Closed(T)
  BY <1>2, <1>3 DEF Closed, p
<1>5. Line(c) \subseteq T
  BY <1>1, <1>4 DEF Line
<1>6. ASSUME NEW d \in T PROVE d \in Line(c)
  <2>1. d \in Commits
    BY <1>1
  <2>2. ASSUME NEW S \in SUBSET Commits, c \in S, Closed(S) PROVE d \in S
    <3>1. p \in S \cup {0}
      BY <2>2 DEF Closed, p
    <3> QED BY <1>0, <2>2, <3>1 DEF Line
  <2> QED BY <2>1, <2>2 DEF Line
<1>7. Line(c) = T
  BY <1>5, <1>6
<1> QED BY <1>7 DEF p

\* history is what its definition says.
LEMMA HistoryIs ==
  /\ history[0] = {}
  /\ \A c \in Commits : history[c] = {c} \cup Uses[c] \cup history[Parent[c]]
<1> DEFINE Body(h) == [c \in 0..MaxEntry |->
                         IF c \notin Commits THEN {} ELSE {c} \cup Uses[c] \cup h[Parent[c]]]
           g == [c \in 0..MaxEntry |->
                   IF c \notin Commits THEN {} ELSE UNION {{d} \cup Uses[d] : d \in Line(c)}]
<1>1. \A c \in Commits : c \in 0..MaxEntry /\ Parent[c] \in 0..MaxEntry
  BY LastCommit
<1>2. 0 \in 0..MaxEntry /\ 0 \notin Commits
  BY LastCommit
<1>3. ASSUME NEW c \in Commits PROVE g[c] = {c} \cup Uses[c] \cup g[Parent[c]]
  <2>1. g[c] = UNION {{d} \cup Uses[d] : d \in Line(c)}
    BY <1>1
  <2>2. CASE Parent[c] = 0
    <3>1. g[Parent[c]] = {}
      BY <1>2, <2>2
    <3>2. Line(c) = {c}
      BY <2>2, LineIs
    <3> QED BY <2>1, <3>1, <3>2
  <2>3. CASE Parent[c] # 0
    <3>1. Parent[c] \in Commits
      BY <2>3, LastCommit
    <3>2. g[Parent[c]] = UNION {{d} \cup Uses[d] : d \in Line(Parent[c])}
      BY <1>1, <3>1
    <3>3. Line(c) = {c} \cup Line(Parent[c])
      BY <2>3, LineIs
    <3> QED BY <2>1, <3>2, <3>3
  <2> QED BY <2>2, <2>3
<1>4. g = Body(g)
  BY <1>3
<1>5. history = CHOOSE h : h = Body(h)
  BY DEF history
<1> HIDE DEF Body, g
<1>6. history = Body(history)
  BY <1>4, <1>5
<1> QED BY <1>1, <1>2, <1>6 DEF Body

LEMMA HistoryWithin ==
  ASSUME NEW c \in Commits
  PROVE  history[c] \subseteq 1..c /\ c \in history[c]
<1> DEFINE T == {x \in Commits : ~ (history[x] \subseteq 1..x)}
<1>1. ASSUME T # {} PROVE FALSE
  <2>0. T \subseteq Nat
    BY ConstantsAssumption
  <2>1. PICK x \in T : \A y \in T : x <= y
    <3> HIDE DEF T
    <3> QED BY <1>1, <2>0, Least
  <2>2. x \in Commits /\ x \in Nat \ {0} /\ Parent[x] \in Nat /\ Parent[x] < x
        /\ Uses[x] \subseteq 1..x - 1 /\ (Parent[x] # 0 => Parent[x] \in Commits)
    BY <2>1, CommitIs
  <2>3. Parent[x] # 0 => history[Parent[x]] \subseteq 1..Parent[x]
    <3>1. Parent[x] \notin T
      BY <2>1, <2>2
    <3> QED BY <2>2, <3>1
  <2>4. history[Parent[x]] \subseteq 1..x
    <3>1. CASE Parent[x] = 0
      BY <3>1, HistoryIs
    <3>2. CASE Parent[x] # 0
      <4>1. Parent[x] \in 1..x
        BY <2>2, <3>2
      <4> QED BY <2>2, <2>3, <3>2, <4>1
    <3> QED BY <3>1, <3>2
  <2>5. history[x] \subseteq 1..x
    BY <2>2, <2>4, HistoryIs
  <2> QED BY <2>5
<1>2. history[c] \subseteq 1..c
  BY <1>1
<1> QED BY <1>2, HistoryIs

LEMMA HistoryDown ==
  ASSUME NEW c \in Commits, NEW d \in history[c] \cap Commits
  PROVE  history[d] \subseteq history[c] /\ Snapshot(d) \subseteq history[c]
<1> DEFINE T == {x \in Commits : \E e \in history[x] \cap Commits : ~ (history[e] \subseteq history[x])}
<1>1. ASSUME T # {} PROVE FALSE
  <2>0. T \subseteq Nat
    BY ConstantsAssumption
  <2>1. PICK x \in T : \A y \in T : x <= y
    <3> HIDE DEF T
    <3> QED BY <1>1, <2>0, Least
  <2>2. PICK e \in history[x] \cap Commits : ~ (history[e] \subseteq history[x])
    BY <2>1
  <2>3. x \in Commits /\ x \in Nat /\ Uses[x] \cap Commits = {}
        /\ Parent[x] \in Nat /\ Parent[x] < x /\ (Parent[x] # 0 => Parent[x] \in Commits)
    BY <2>1, CommitIs
  <2>4. history[x] = {x} \cup Uses[x] \cup history[Parent[x]] /\ history[0] = {}
    BY <2>3, HistoryIs
  <2>5. e \in history[Parent[x]] /\ Parent[x] \in Commits
    BY <2>2, <2>3, <2>4
  <2>6. Parent[x] \notin T
    BY <2>1, <2>3
  <2> QED BY <2>2, <2>4, <2>5, <2>6
<1>2. history[d] \subseteq history[c]
  BY <1>1
<1>3. Snapshot(d) \subseteq history[d]
  <2>1. Parent[d] # 0 => Parent[d] \in history[Parent[d]]
    BY LastCommit, HistoryWithin
  <2> QED BY <2>1, HistoryIs DEF Snapshot, Direct
<1> QED BY <1>2, <1>3

\* The commits that a commit reaches are one line.
LEMMA HistoryLine ==
  ASSUME NEW c \in Commits, NEW a \in history[c] \cap Commits, NEW b \in history[c] \cap Commits,
         a <= b
  PROVE  a \in history[b]
<1> DEFINE Bad(x) == \E d, e \in history[x] \cap Commits : d <= e /\ d \notin history[e]
           T == {x \in Commits : Bad(x)}
<1>1. ASSUME T # {} PROVE FALSE
  <2>0. T \subseteq Nat
    BY ConstantsAssumption
  <2>1. PICK x \in T : \A y \in T : x <= y
    <3> HIDE DEF T
    <3> QED BY <1>1, <2>0, Least
  <2>2. PICK d \in history[x] \cap Commits, e \in history[x] \cap Commits :
          d <= e /\ d \notin history[e]
    BY <2>1
  <2>3. x \in Commits /\ x \in Nat /\ Uses[x] \cap Commits = {}
        /\ Parent[x] \in Nat /\ Parent[x] < x /\ (Parent[x] # 0 => Parent[x] \in Commits)
    BY <2>1, CommitIs
  <2>4. history[x] = {x} \cup Uses[x] \cup history[Parent[x]] /\ history[0] = {}
    BY <2>3, HistoryIs
  <2>5. e # x
    BY <2>2
  <2>6. e \in history[Parent[x]] /\ Parent[x] \in Commits
    BY <2>2, <2>3, <2>4, <2>5
  <2>7. e <= Parent[x] /\ e \in Int
    <3>1. e \in 1..Parent[x]
      BY <2>6, HistoryWithin
    <3> QED BY <2>3, <3>1
  <2>8. d # x
    BY <2>2, <2>3, <2>7, ConstantsAssumption
  <2>9. d \in history[Parent[x]]
    BY <2>2, <2>3, <2>4, <2>8
  <2>10. Bad(Parent[x])
    BY <2>2, <2>6, <2>9
  <2>11. Parent[x] \in T
    BY <2>6, <2>10
  <2> HIDE DEF T
  <2> QED BY <2>1, <2>3, <2>11
<1> QED BY <1>1

\* What the commits after t0 hang on, and t0 does not come after, hangs on t0.
LEMMA Inherits ==
  ASSUME TreesGrow, NEW t \in Commits, NEW t0 \in history[t] \cap Commits,
         NEW d \in history[t] \cap Commits, t0 < d, NEW s \in Snapshot(d), s <= t0
  PROVE  s \in Snapshot(t0)
<1> DEFINE Bad(x) == t0 < x /\ \E y \in Snapshot(x) : y <= t0 /\ y \notin Snapshot(t0)
           T == {x \in history[t] \cap Commits : Bad(x)}
<1>1. ASSUME T # {} PROVE FALSE
  <2>0. T \subseteq Nat
    BY ConstantsAssumption
  <2>1. PICK x \in T : \A y \in T : x <= y
    <3> HIDE DEF T
    <3> QED BY <1>1, <2>0, Least
  <2>2. PICK y \in Snapshot(x) : y <= t0 /\ y \notin Snapshot(t0)
    BY <2>1
  <2>3. /\ x \in history[t] /\ x \in Commits /\ x \in Nat /\ t0 \in Nat /\ t0 < x
        /\ Uses[x] \subseteq 1..x - 1 /\ Uses[x] \cap Commits = {}
        /\ Parent[x] \in Nat /\ Parent[x] < x /\ (Parent[x] # 0 => Parent[x] \in Commits)
    BY <2>1, CommitIs
  <2>4. t0 \in history[x]
    BY <2>3, HistoryLine
  <2>5. t0 \in history[Parent[x]] /\ Parent[x] \in Commits
    BY <2>3, <2>4, HistoryIs
  <2>6. t0 <= Parent[x]
    BY <2>5, HistoryWithin
  <2>7. y = Parent[x] \/ y \in Uses[x]
    BY <2>2, <2>3 DEF Snapshot, Direct
  <2>8. y # Parent[x]
    <3>1. t0 \in Snapshot(t0)
      BY DEF Snapshot
    <3> QED BY <2>2, <2>3, <2>6, <3>1
  <2>9. y \in Uses[Parent[x]]
    <3>1. y \in Int /\ ~ (t0 < y)
      BY <2>2, <2>3, <2>7, <2>8
    <3> QED BY <2>3, <2>7, <2>8, <3>1 DEF TreesGrow
  <2>10. y \in Snapshot(Parent[x])
    BY <2>9 DEF Snapshot, Direct
  <2>11. Parent[x] \in history[t]
    <3>1. Snapshot(x) \subseteq history[t] /\ Parent[x] \in Snapshot(x)
      BY <2>3, <2>5, HistoryDown, ConstantsAssumption DEF Snapshot, Direct
    <3> QED BY <3>1
  <2>12. t0 < Parent[x]
    <3>1. t0 # Parent[x]
      BY <2>2, <2>10
    <3> QED BY <2>3, <2>6, <3>1
  <2>13. Parent[x] \in T
    BY <2>2, <2>5, <2>10, <2>11, <2>12
  <2> HIDE DEF T
  <2> QED BY <2>1, <2>3, <2>13
<1> QED BY <1>1
-----------------------------------------------------------------------------
(* What a collection archives, and what a process finds. *)

LEMMA ArchiveIs ==
  ASSUME NEW start \in Nat, NEW t \in Commits
  PROVE  /\ ArchiveOf(t, start) \in Seq(Entries)
         /\ \A x : x \in history[t] /\ x >= start
                     <=> \E i \in 1..Len(ArchiveOf(t, start)) : ArchiveOf(t, start)[i] = x
         /\ t >= start =>
              /\ Len(ArchiveOf(t, start)) >= 1 /\ ArchiveOf(t, start)[1] >= start
              /\ ArchiveOf(t, start)[Len(ArchiveOf(t, start))] = t
              /\ \A i \in 1..Len(ArchiveOf(t, start)) : ArchiveOf(t, start)[1] <= ArchiveOf(t, start)[i]
         /\ t < start => ArchiveOf(t, start) = << >>
<1> DEFINE S == {o \in history[t] : o >= start}
           s == ArchiveOf(t, start)
           n == Len(s)
<1>0. ArchiveOf(t, start) = Sorted(S)
  BY DEF ArchiveOf
<1>1. S \subseteq 1..t /\ t \in history[t] /\ t \in Nat /\ t \in 1..MaxEntry
      /\ history[t] \subseteq 1..t
  BY HistoryWithin, CommitIs
<1>2. S \subseteq Entries
  <2>1. MaxEntry \in Nat \ {0}
    BY LastCommit, CommitIs
  <2>2. S \subseteq 1..MaxEntry
    BY <1>1, <2>1
  <2> QED BY <2>2 DEF Entries
<1>3. /\ s \in Seq(S)
      /\ \A x : x \in S <=> \E i \in 1..n : s[i] = x
      /\ \A i, j \in 1..n : i < j => s[i] < s[j]
  <2>1. S \subseteq 1..t /\ t \in Nat
    BY <1>1
  <2> HIDE DEF S
  <2>2. /\ Sorted(S) \in Seq(S)
        /\ \A x : x \in S <=> \E i \in 1..Len(Sorted(S)) : Sorted(S)[i] = x
        /\ \A i, j \in 1..Len(Sorted(S)) : i < j => Sorted(S)[i] < Sorted(S)[j]
    BY <2>1, SortedIs
  <2> QED BY <1>0, <2>2
<1>4. s \in Seq(Entries) /\ n \in Nat
  BY <1>2, <1>3
<1>5. \A x : x \in history[t] /\ x >= start <=> \E i \in 1..n : s[i] = x
  BY <1>3
<1>6. \A i \in 1..n : s[i] \in S /\ s[i] \in 1..t /\ s[i] >= start
  BY <1>1, <1>3
<1> HIDE DEF s, n
<1>7. ASSUME t >= start
      PROVE  n >= 1 /\ s[1] >= start /\ s[n] = t /\ \A i \in 1..n : s[1] <= s[i]
  <2>1. PICK i \in 1..n : s[i] = t
    BY <1>1, <1>5, <1>7
  <2>2. n >= 1 /\ 1 \in 1..n /\ n \in 1..n
    BY <1>4, <2>1
  <2>3. i = n
    <3>1. ~ (i < n)
      <4>1. i < n => s[i] < s[n]
        BY <1>3, <2>1, <2>2
      <4>2. s[n] \in 1..t
        BY <1>6, <2>2
      <4> QED BY <1>1, <2>1, <4>1, <4>2
    <3> QED BY <1>4, <2>1, <3>1
  <2>4. ASSUME NEW j \in 1..n PROVE s[1] <= s[j]
    <3>1. 1 < j => s[1] < s[j]
      BY <1>3, <2>2
    <3>2. s[1] \in Nat /\ s[j] \in Nat
      BY <1>6, <2>2
    <3> QED BY <1>4, <3>1, <3>2
  <2> QED BY <1>6, <2>1, <2>2, <2>3, <2>4
<1>8. ASSUME t < start PROVE s = << >>
  <2>1. \A x \in 1..t : ~ (x >= start)
    BY <1>1, <1>8
  <2>2. n = 0
    <3>1. 1 \notin 1..n
      BY <1>6, <2>1
    <3> QED BY <1>4, <3>1
  <2> QED BY <1>4, <2>2 DEF n
<1> QED BY <1>4, <1>5, <1>7, <1>8 DEF s, n

\* What is in a volume, by the data alone.
LEMMA HasIs ==
  ASSUME NEW V, NEW n \in Nat, Straight(V, n), NEW m \in 0..n, NEW o
  PROVE  Has(V, m, o) <=> \E i \in 1..m : V.data[i] = o
<1>1. ASSUME NEW i \in 1..m
      PROVE  V.mapping[i].off = V.data[i] /\ V.mapping[i].poff = i
  <2>1. i \in 1..n
    OBVIOUS
  <2> QED BY <2>1 DEF Straight
<1> QED BY <1>1 DEF Has

\* What a volume has stays when its files are kept up to a place.
LEMMA HasKept ==
  ASSUME NEW V, NEW W, NEW m \in Nat, NEW n \in Nat, m <= n, Straight(V, m), Straight(W, n),
         \A i \in 1..m : W.data[i] = V.data[i], NEW o, Has(V, m, o)
  PROVE  Has(W, n, o)
<1>0. m \in 0..m /\ n \in 0..n
  OBVIOUS
<1>1. PICK i \in 1..m : V.data[i] = o
  BY <1>0, HasIs
<1>2. i \in 1..n /\ W.data[i] = o
  BY <1>1
<1> QED BY <1>0, <1>2, HasIs

LEMMA SnapshotNat ==
  ASSUME NEW c \in Commits
  PROVE  Snapshot(c) \subseteq 1..c /\ c \in Snapshot(c) /\ Snapshot(c) \subseteq Entries
         /\ Snapshot(c) \subseteq Nat
<1>1. Snapshot(c) \subseteq 1..c
  BY CommitIs DEF Snapshot, Direct
<1>2. MaxEntry \in Nat \ {0} /\ c \in 1..MaxEntry /\ c \in Nat
  BY LastCommit, CommitIs
<1>3. Snapshot(c) \subseteq 1..MaxEntry
  BY <1>1, <1>2
<1>4. c \in Snapshot(c)
  BY DEF Snapshot
<1> QED BY <1>1, <1>3, <1>4 DEF Entries

LEMMA NothingIs == Nothing \in VolumeControl /\ NewVolume \in Volume /\ NewVolume.control = Nothing
                   /\ \A g \in Gens : NewVolume.tmp[g] = Nothing
<1>1. Nothing \in VolumeControl
  BY DEF Nothing, VolumeControl
<1>2. << >> \in Seq([off : Entries, poff : Nat \ {0}]) /\ << >> \in Seq(Entries)
  OBVIOUS
<1> QED BY <1>1, <1>2 DEF NewVolume, Volume

\* A cleanup: the control file that covers the volume takes its place.
LEMMA CleanIs ==
  ASSUME NEW V \in Volume, NEW g \in Gens
  PROVE  /\ Clean(V, g) \in Volume /\ Clean(V, g).mapping = V.mapping /\ Clean(V, g).data = V.data
         /\ Clean(V, g).tmp[g] = Nothing
         /\ \A h \in Gens : h # g => Clean(V, g).tmp[h] = V.tmp[h]
         /\ Clean(V, g).control = IF V.tmp[g] = Nothing THEN V.control ELSE V.tmp[g]
         /\ V.tmp[g] = Nothing => Clean(V, g) = V
         /\ Clean(V, g).control \in VolumeControl
<1>1. CASE V.tmp[g] = Nothing
  BY <1>1 DEF Clean, Volume
<1>2. CASE V.tmp[g] # Nothing
  <2>1. Clean(V, g) = [V EXCEPT !.control = V.tmp[g], !.tmp[g] = Nothing]
    BY <1>2 DEF Clean
  <2>2. V.tmp[g] \in VolumeControl /\ V.tmp \in [Gens -> VolumeControl]
    BY DEF Volume
  <2>3. [V.tmp EXCEPT ![g] = Nothing] \in [Gens -> VolumeControl]
    BY <2>2, NothingIs
  <2>4. Clean(V, g) = [mapping |-> V.mapping, data |-> V.data, control |-> V.tmp[g],
                       tmp |-> [V.tmp EXCEPT ![g] = Nothing]]
    BY <2>1 DEF Volume
  <2> QED BY <1>2, <2>2, <2>3, <2>4 DEF Volume
<1> QED BY <1>1, <1>2

LEMMA CoveringType ==
  ASSUME NEW vs \in [Volumes -> Volume], NEW c \in StoreControl, NEW v \in Volumes
  PROVE  Covering(vs, c, v) \in VolumeControl /\ vs[v] \in Volume
         /\ Covering(vs, c, v).len \in Nat /\ Covering(vs, c, v).start \in Nat
         /\ Covering(vs, c, v).end \in Nat
<1>1. vs[v] \in Volume /\ vs[v].control \in VolumeControl /\ c.gen \in Gens
  BY DEF Volume, StoreControl
<1>2. Clean(vs[v], c.gen).control \in VolumeControl
  BY <1>1, CleanIs
<1>3. Covering(vs, c, v) \in VolumeControl
  BY <1>1, <1>2 DEF Covering
<1> QED BY <1>1, <1>3 DEF VolumeControl

LEMMA ControlType ==
  ASSUME NEW c \in StoreControl
  PROVE  /\ c.gen \in Gens /\ c.gen \in Nat /\ c.start \in Nat /\ c.target \in {0} \cup Commits
         /\ c.target \in Nat /\ c.volumes \in Volumes /\ c.volumes \in Nat \ {0}
         /\ \A v \in 1..c.volumes : v \in Volumes
<1>1. c.gen \in Gens /\ c.start \in Nat /\ c.target \in {0} \cup Commits /\ c.volumes \in Volumes
  BY DEF StoreControl
<1>2. \A x : x \in Commits => x \in Nat
  BY ConstantsAssumption
<1>3. c.target \in Nat
  <2>1. c.target = 0 \/ c.target \in Commits
    BY <1>1
  <2> QED BY <1>2, <2>1
<1>4. c.gen \in Nat /\ c.volumes \in Nat \ {0} /\ \A v \in 1..c.volumes : v \in Volumes
  BY <1>1, ConstantsAssumption DEF Gens, Volumes
<1> QED BY <1>1, <1>3, <1>4
-----------------------------------------------------------------------------
(* Steps that keep what the control files of the volumes cover. *)

Keeps(vs, ws, c) ==
  /\ \A v \in 1..c.volumes :
       /\ Covering(ws, c, v) = Covering(vs, c, v)
       /\ Straight(ws[v], Covering(vs, c, v).len)
       /\ \A i \in 1..Covering(vs, c, v).len : ws[v].data[i] = vs[v].data[i]
  /\ Older(ws[c.volumes].control, Covering(vs, c, c.volumes))

\* The volume W has, by the control file l, what V has by k.
Better(V, W, k, l) ==
  /\ k \in VolumeControl /\ l \in VolumeControl /\ Older(k, l)
  /\ Straight(V, k.len) /\ Straight(W, l.len)
  /\ \A i \in 1..k.len : W.data[i] = V.data[i]

LEMMA BetterHas ==
  ASSUME NEW V, NEW W, NEW k, NEW l, Better(V, W, k, l), NEW o
  PROVE  /\ Has(V, k.len, o) => Has(W, l.len, o)
         /\ InRange(k, o) /\ o \in Nat => InRange(l, o)
<1>1. k.len \in Nat /\ l.len \in Nat /\ k.end \in Nat /\ l.end \in Nat
      /\ (k = Nothing \/ (k.start = l.start /\ k.end <= l.end /\ k.len <= l.len))
  BY DEF Better, VolumeControl, Older
<1>2. k = Nothing => k.len = 0 /\ k.end = 0 /\ k.start = 0
  BY DEF Nothing
<1>3. k.len <= l.len
  BY <1>1, <1>2
<1>4. Has(V, k.len, o) => Has(W, l.len, o)
  BY <1>1, <1>3, HasKept DEF Better
<1>5. ASSUME InRange(k, o), o \in Nat PROVE InRange(l, o)
  BY <1>1, <1>2, <1>5 DEF InRange
<1> QED BY <1>4, <1>5

\* What control files cover stays covered by newer ones, and by more of them.
LEMMA CoversKept ==
  ASSUME NEW vs, NEW ws, NEW cs, NEW ds, NEW S \in SUBSET Commits, Covers(vs, cs, S),
         Len(cs) \in Nat, Len(ds) \in Nat, Len(cs) <= Len(ds),
         \A v \in 1..Len(cs) : Better(vs[v], ws[v], cs[v], ds[v])
  PROVE  Covers(ws, ds, S)
<1>1. \A v \in 1..Len(cs) : v \in 1..Len(ds)
  OBVIOUS
<1>2. ASSUME NEW d \in Nat, InOwn(vs, cs, d) PROVE InOwn(ws, ds, d)
  <2>1. PICK v \in 1..Len(cs) : InRange(cs[v], d) /\ Has(vs[v], cs[v].len, d)
    BY <1>2 DEF InOwn
  <2>2. Better(vs[v], ws[v], cs[v], ds[v])
    OBVIOUS
  <2>3. InRange(ds[v], d) /\ Has(ws[v], ds[v].len, d)
    BY <2>1, <2>2, BetterHas
  <2> QED BY <1>1, <2>3 DEF InOwn
<1>3. ASSUME NEW c \in Nat, InOne(vs, cs, c) PROVE InOne(ws, ds, c)
  <2>1. PICK v \in 1..Len(cs) :
          InRange(cs[v], c) /\ \A d \in Snapshot(c) : Has(vs[v], cs[v].len, d)
    BY <1>3 DEF InOne
  <2>2. Better(vs[v], ws[v], cs[v], ds[v])
    OBVIOUS
  <2>3. InRange(ds[v], c)
    BY <2>1, <2>2, BetterHas
  <2>4. \A d \in Snapshot(c) : Has(ws[v], ds[v].len, d)
    BY <2>1, <2>2, BetterHas
  <2> QED BY <1>1, <2>3, <2>4 DEF InOne
<1>4. \A c \in S : c \in Nat /\ Snapshot(c) \subseteq Nat
  BY SnapshotNat, CommitIs
<1> QED BY <1>2, <1>3, <1>4 DEF Covers

LEMMA KeepsBetter ==
  ASSUME NEW vs \in [Volumes -> Volume], NEW ws, NEW c \in StoreControl, Laid(vs, c),
         Keeps(vs, ws, c), NEW v \in 1..c.volumes
  PROVE  Better(vs[v], ws[v], Covering(vs, c, v), Covering(ws, c, v))
<1> DEFINE k == Covering(vs, c, v)
<1>0. v \in Volumes /\ Covering(ws, c, v) = k
  BY ControlType DEF Keeps
<1>1. k \in VolumeControl /\ k.len \in Nat /\ k.start \in Nat /\ k.end \in Nat
  BY <1>0, CoveringType
<1>2. k.len = 0 => k = Nothing
  BY DEF Laid
<1>3. Straight(vs[v], k.len)
  BY DEF Laid
<1>4. Straight(ws[v], k.len) /\ \A i \in 1..k.len : ws[v].data[i] = vs[v].data[i]
  BY DEF Keeps
<1> HIDE DEF k
<1>5. Better(vs[v], ws[v], k, k)
  BY <1>1, <1>2, <1>3, <1>4 DEF Better, Older
<1> QED BY <1>0, <1>5 DEF k

\* A step that keeps the control file of the store and what is covered.
LEMMA QuietStep ==
  ASSUME NEW vs \in [Volumes -> Volume], NEW ws \in [Volumes -> Volume], NEW c \in StoreControl,
         NEW ar \in SUBSET Commits, NEW pre, NEW new,
         Laid(vs, c), Place(vs, c, ar), Archive(vs, c, ar, pre), Keeps(vs, ws, c),
         c.target # 0 => c.gen \in DOMAIN new /\ new[c.gen] = pre[c.gen]
  PROVE  Laid(ws, c) /\ Place(ws, c, ar) /\ Archive(ws, c, ar, new)
<1>1. \A v \in 1..c.volumes : v \in Volumes
  BY ControlType
<1>2. c.volumes \in 1..c.volumes /\ c.volumes \in Nat \ {0}
  BY ControlType
<1>3. \A v \in 1..c.volumes : Covering(ws, c, v) = Covering(vs, c, v)
  BY DEF Keeps
<1>4. ASSUME NEW v \in 1..c.volumes
      PROVE  Better(vs[v], ws[v], Covering(vs, c, v), Covering(ws, c, v))
  BY KeepsBetter
<1>5. Laid(ws, c)
  <2>1. \A v \in 1..c.volumes : Straight(ws[v], Covering(ws, c, v).len)
    BY <1>3 DEF Keeps
  <2>2. Older(ws[c.volumes].control, Covering(ws, c, c.volumes))
    BY <1>2, <1>3 DEF Keeps
  <2> QED BY <1>3, <2>1, <2>2 DEF Laid
<1>6. Stuck(ws, c) <=> Stuck(vs, c)
  BY <1>2, <1>3 DEF Stuck
<1>7. Migrated(vs, c, ar) => Migrated(ws, c, ar)
  <2> SUFFICES ASSUME Migrated(vs, c, ar) PROVE Migrated(ws, c, ar)
    OBVIOUS
  <2>1. c.volumes = 1 /\ 1 \in 1..c.volumes
    BY DEF Migrated
  <2>2. Better(vs[1], ws[1], Covering(vs, c, 1), Covering(ws, c, 1))
    BY <1>4, <2>1
  <2>3. ASSUME NEW o \in 1..c.start - 1
        PROVE  InRange(Covering(ws, c, 1), o) /\ Has(ws[1], Covering(ws, c, 1).len, o)
    <3>1. InRange(Covering(vs, c, 1), o) /\ Has(vs[1], Covering(vs, c, 1).len, o)
      BY DEF Migrated
    <3>2. o \in Nat
      BY ControlType
    <3> QED BY <2>2, <3>1, <3>2, BetterHas
  <2> QED BY <2>3 DEF Migrated
<1>8. Place(ws, c, ar)
  <2>1. \A v \in 1..c.volumes - 1 : v \in 1..c.volumes
    BY <1>2
  <2>2. \A v \in 1..c.volumes - 1 : Covering(ws, c, v).end <= c.start
    BY <1>3, <2>1 DEF Place
  <2> QED BY <1>2, <1>3, <1>6, <1>7, <2>2 DEF Place
<1>9. Archive(ws, c, ar, new)
  <2> DEFINE cs == CoveringAll(vs, c, c.volumes)
             ds == CoveringAll(ws, c, c.volumes)
  <2>1. Len(cs) = c.volumes /\ Len(ds) = c.volumes
    BY <1>2 DEF CoveringAll
  <2>2. \A v \in 1..c.volumes : cs[v] = Covering(vs, c, v) /\ ds[v] = Covering(ws, c, v)
    BY DEF CoveringAll
  <2>3. Covers(vs, cs, ar)
    BY DEF Archive
  <2> HIDE DEF cs, ds
  <2>4. \A v \in 1..Len(cs) : Better(vs[v], ws[v], cs[v], ds[v])
    BY <1>4, <2>1, <2>2
  <2>5. Covers(ws, ds, ar)
    <3>1. Len(cs) \in Nat /\ Len(ds) \in Nat /\ Len(cs) <= Len(ds)
      BY <1>2, <2>1
    <3> QED BY <2>3, <2>4, <3>1, CoversKept
  <2> QED BY <2>5 DEF Archive, ds
<1> QED BY <1>5, <1>8, <1>9

\* A new volume.
LEMMA GrowStep ==
  ASSUME NEW vs \in [Volumes -> Volume], NEW c \in StoreControl, NEW d \in StoreControl,
         NEW ar \in SUBSET Commits, NEW pre,
         Laid(vs, c), Place(vs, c, ar), Archive(vs, c, ar, pre), Joined(c),
         d.volumes = c.volumes + 1, vs[d.volumes] = NewVolume,
         d.gen = c.gen, d.start = c.start, d.target = c.target,
         vs[c.volumes].tmp[c.gen] = Nothing
  PROVE  Laid(vs, d) /\ Place(vs, d, ar) /\ Archive(vs, d, ar, pre)
<1> DEFINE n == c.volumes
<1>1. n \in Nat \ {0} /\ (\A v \in 1..n : v \in Volumes) /\ c.gen \in Gens /\ n \in 1..n
      /\ c.start \in Nat /\ c.target \in Nat
  BY ControlType
<1>2. ASSUME NEW v \in 1..n PROVE Covering(vs, d, v) = Covering(vs, c, v)
  <2>1. vs[n] \in Volume /\ Clean(vs[n], c.gen) = vs[n]
    <3>1. vs[n] \in Volume
      BY <1>1
    <3> QED BY <1>1, <3>1, CleanIs
  <2>2. v # d.volumes
    BY <1>1
  <2> QED BY <2>1, <2>2 DEF Covering
<1>3. Covering(vs, d, n + 1) = Nothing
  <2>1. Clean(NewVolume, c.gen) = NewVolume
    BY <1>1, NothingIs, CleanIs
  <2> QED BY <2>1, NothingIs DEF Covering
<1>4. Nothing.len = 0 /\ Nothing.end = 0
  BY DEF Nothing
<1>5. \A v \in 1..n + 1 : v \in 1..n \/ v = n + 1
  BY <1>1
<1>6. d.volumes = n + 1 /\ n + 1 \in 1..n + 1
  BY <1>1
<1>7. vs[n + 1].control = Nothing
  BY NothingIs
<1>8. Straight(vs[n + 1], 0)
  BY DEF NewVolume, Straight
<1> HIDE DEF n
<1>9. Laid(vs, d)
  <2>1. ASSUME NEW v \in 1..n + 1
        PROVE  /\ Covering(vs, d, v).len = 0 => Covering(vs, d, v) = Nothing
               /\ Covering(vs, d, v).len # 0 => Covering(vs, d, v).start < Covering(vs, d, v).end
               /\ Straight(vs[v], Covering(vs, d, v).len)
    <3>1. CASE v \in 1..n
      BY <1>2, <3>1 DEF Laid, n
    <3>2. CASE v = n + 1
      BY <1>3, <1>4, <1>8, <3>2
    <3> QED BY <1>5, <3>1, <3>2
  <2>2. ASSUME NEW v \in 1..n + 1, NEW w \in 1..n + 1, v < w,
               Covering(vs, d, v).len # 0, Covering(vs, d, w).len # 0
        PROVE  Covering(vs, d, v).end <= Covering(vs, d, w).start
    <3>1. w # n + 1 /\ v # n + 1
      BY <1>3, <1>4, <2>2
    <3>2. v \in 1..n /\ w \in 1..n
      BY <1>5, <3>1
    <3>3. Covering(vs, d, v) = Covering(vs, c, v) /\ Covering(vs, d, w) = Covering(vs, c, w)
      BY <1>2, <3>2
    <3> QED BY <2>2, <3>2, <3>3 DEF Laid, n
  <2>3. Older(vs[n + 1].control, Covering(vs, d, n + 1))
    BY <1>7 DEF Older
  <2> QED BY <1>6, <2>1, <2>2, <2>3 DEF Laid
<1>10. ~ Stuck(vs, c)
  BY <1>1 DEF Joined, Stuck
<1>11. Place(vs, d, ar)
  <2>1. Joined(d)
    BY DEF Joined
  <2>2. ASSUME NEW v \in 1..n PROVE Covering(vs, d, v).end <= c.start
    <3>0. Covering(vs, d, v) = Covering(vs, c, v)
      BY <1>2
    <3>1. CASE v # n
      <4>1. v \in 1..n - 1
        BY <1>1, <3>1
      <4>2. Covering(vs, c, v).end <= c.start
        BY <4>1 DEF Place, n
      <4> QED BY <3>0, <4>2
    <3>2. CASE v = n
      <4>1. CASE Covering(vs, c, n).len = 0
        <5>1. Covering(vs, c, n) = Nothing
          BY <1>1, <4>1 DEF Laid, n
        <5> QED BY <1>1, <1>4, <3>0, <3>2, <5>1
      <4>2. CASE Covering(vs, c, n).len # 0
        <5>1. Covering(vs, c, n).end = c.start
          BY <1>10, <4>2 DEF Place, n
        <5> QED BY <1>1, <3>0, <3>2, <5>1
      <4> QED BY <4>1, <4>2
    <3> QED BY <3>1, <3>2
  <2>3. d.volumes - 1 = n
    BY <1>1, <1>6
  <2>4. \A v \in 1..d.volumes - 1 : Covering(vs, d, v).end <= d.start
    BY <2>2, <2>3
  <2>5. Covering(vs, d, d.volumes).len = 0
    BY <1>3, <1>4, <1>6
  <2>6. d.start - 1 \in {0} \cup Commits
    BY DEF Place
  <2> QED BY <2>1, <2>4, <2>5, <2>6 DEF Place
<1>12. Archive(vs, d, ar, pre)
  <2> DEFINE cs == CoveringAll(vs, c, c.volumes)
             ds == CoveringAll(vs, d, d.volumes)
  <2>1. Len(cs) = n /\ Len(ds) = n + 1
    BY <1>1, <1>6 DEF CoveringAll, n
  <2>2. \A v \in 1..n : cs[v] = Covering(vs, c, v) /\ ds[v] = Covering(vs, d, v)
    BY <1>1, <1>6 DEF CoveringAll, n
  <2>3. Covers(vs, cs, ar)
    BY DEF Archive
  <2> HIDE DEF cs, ds
  <2>4. ASSUME NEW v \in 1..n PROVE Better(vs[v], vs[v], cs[v], ds[v])
    <3>1. cs[v] = ds[v] /\ cs[v] = Covering(vs, c, v)
      BY <1>2, <2>2
    <3>2. cs[v] \in VolumeControl /\ cs[v].len \in Nat /\ cs[v].start \in Nat /\ cs[v].end \in Nat
      BY <1>1, <3>1, CoveringType
    <3>3. (cs[v].len = 0 => cs[v] = Nothing) /\ Straight(vs[v], cs[v].len)
      BY <3>1 DEF Laid, n
    <3> QED BY <3>1, <3>2, <3>3 DEF Better, Older
  <2>5. Covers(vs, ds, ar)
    <3>1. Len(cs) \in Nat /\ Len(ds) \in Nat /\ Len(cs) <= Len(ds)
      BY <1>1, <2>1
    <3>2. \A v \in 1..Len(cs) : Better(vs[v], vs[v], cs[v], ds[v])
      BY <2>1, <2>4
    <3> QED BY <2>3, <3>1, <3>2, CoversKept
  <2>6. Joined(d) <=> Joined(c)
    BY DEF Joined
  <2> QED BY <2>5, <2>6 DEF Archive, ds
<1> QED BY <1>9, <1>11, <1>12
-----------------------------------------------------------------------------
(* The swap of the control file of the store, from c to d. *)

\* A range has an entry in one volume only.
LEMMA RangesApart ==
  ASSUME NEW vs \in [Volumes -> Volume], NEW c \in StoreControl, Laid(vs, c),
         NEW v \in 1..c.volumes, NEW w \in 1..c.volumes, NEW o \in Nat,
         InRange(Covering(vs, c, v), o), InRange(Covering(vs, c, w), o)
  PROVE  v = w
<1>1. \A u \in 1..c.volumes : u \in Volumes
  BY ControlType
<1>2. Nothing.end = 0
  BY DEF Nothing
<1>3. ASSUME NEW u \in 1..c.volumes, InRange(Covering(vs, c, u), o)
      PROVE  Covering(vs, c, u).len # 0
  <2>1. Covering(vs, c, u).len = 0 => Covering(vs, c, u) = Nothing
    BY DEF Laid
  <2> QED BY <1>2, <1>3, <2>1 DEF InRange
<1>4. ASSUME NEW x \in 1..c.volumes, NEW y \in 1..c.volumes, x < y,
             InRange(Covering(vs, c, x), o), InRange(Covering(vs, c, y), o)
      PROVE  FALSE
  <2>1. Covering(vs, c, x).len # 0 /\ Covering(vs, c, y).len # 0
    BY <1>3, <1>4
  <2>2. Covering(vs, c, x).end <= Covering(vs, c, y).start
    BY <1>4, <2>1 DEF Laid
  <2>3. Covering(vs, c, x).end \in Nat /\ Covering(vs, c, y).start \in Nat
    BY <1>1, CoveringType
  <2> QED BY <1>4, <2>2, <2>3 DEF InRange
<1>5. v \in Nat /\ w \in Nat
  OBVIOUS
<1> QED BY <1>4, <1>5

\* The collection of t made c into d.
Collected(c, d, t) ==
  /\ c.target < t /\ c.target \in {0} \cup history[t]
  /\ d.gen = c.gen + 1 /\ d.target = t /\ d.volumes = c.volumes
  /\ d.start = IF c.start >= t THEN c.start ELSE t + 1

\* A target of the lower layer: everything before the suffix was migrated.
LEMMA SwapBehind ==
  ASSUME NEW vs \in [Volumes -> Volume], NEW c \in StoreControl, NEW d \in StoreControl,
         NEW ar \in SUBSET Commits, NEW pre, NEW t \in Commits,
         Laid(vs, c), Place(vs, c, ar), Archive(vs, c, ar, pre),
         Collected(c, d, t), t < c.start,
         vs[c.volumes].tmp[c.gen] = Nothing, vs[c.volumes].tmp[d.gen] = Nothing,
         d.gen \in DOMAIN pre, pre[d.gen] = Sorted(Snapshot(t))
  PROVE  /\ Laid(vs, d) /\ Place(vs, d, ar) /\ Archive(vs, d, ar, pre)
         /\ {x \in history[t] \cap Commits : x < d.start} \subseteq ar
<1>1. c.volumes \in Nat \ {0} /\ (\A v \in 1..c.volumes : v \in Volumes) /\ c.gen \in Gens
      /\ d.gen \in Gens /\ c.start \in Nat /\ c.target \in Nat
  BY ControlType
<1>2. t \in Nat \ {0}
  BY CommitIs
<1>3. d.volumes = c.volumes /\ d.start = c.start /\ d.target = t
  BY <1>1, <1>2 DEF Collected
<1>4. ~ Joined(c) /\ ~ Stuck(vs, c)
  BY <1>1, <1>2 DEF Joined, Stuck, Collected
<1>5. Migrated(vs, c, ar)
  BY <1>4 DEF Place
<1>6. ASSUME NEW v \in 1..c.volumes PROVE Covering(vs, d, v) = Covering(vs, c, v)
  <2>1. vs[c.volumes] \in Volume
    BY <1>1
  <2>2. Clean(vs[c.volumes], c.gen) = vs[c.volumes] /\ Clean(vs[c.volumes], d.gen) = vs[c.volumes]
    BY <1>1, <2>1, CleanIs
  <2> QED BY <1>3, <2>2 DEF Covering
<1>7. c.volumes \in 1..c.volumes /\ c.volumes = 1 /\ 1 \in 1..c.volumes
  BY <1>1, <1>5 DEF Migrated
<1>8. Laid(vs, d)
  <2>1. \A v \in 1..c.volumes : Straight(vs[v], Covering(vs, d, v).len)
    BY <1>6 DEF Laid
  <2>2. Older(vs[c.volumes].control, Covering(vs, d, c.volumes))
    BY <1>6, <1>7 DEF Laid
  <2> QED BY <1>3, <1>6, <2>1, <2>2 DEF Laid
<1>9. Migrated(vs, d, ar)
  <2>1. Covering(vs, d, 1) = Covering(vs, c, 1)
    BY <1>6, <1>7
  <2> QED BY <1>3, <1>5, <2>1 DEF Migrated
<1>10. ~ Stuck(vs, d)
  BY <1>1, <1>2, <1>3 DEF Stuck
<1>11. Place(vs, d, ar)
  <2>1. \A v \in 1..c.volumes - 1 : v \in 1..c.volumes
    BY <1>1
  <2>2. \A v \in 1..c.volumes - 1 : Covering(vs, d, v).end <= d.start
    BY <1>3, <1>6, <2>1 DEF Place
  <2>3. d.start - 1 \in {0} \cup Commits
    BY <1>3 DEF Place
  <2>4. Covering(vs, d, d.volumes).len # 0 => Covering(vs, d, d.volumes).end = d.start
    BY <1>3, <1>4, <1>6, <1>7 DEF Place
  <2> QED BY <1>3, <1>9, <1>10, <2>2, <2>3, <2>4 DEF Place
<1>12. \A x \in history[t] : x \in 1..t
  BY HistoryWithin
<1>13. {x \in history[t] \cap Commits : x < d.start} \subseteq ar
  <2>1. ar = Commits \cap 1..c.start - 1
    BY <1>5 DEF Migrated
  <2>2. ASSUME NEW x \in history[t] \cap Commits PROVE x \in ar
    <3>1. x \in 1..c.start - 1
      BY <1>1, <1>2, <1>12
    <3> QED BY <2>1, <3>1
  <2> QED BY <2>2
<1>14. t \in ar
  <2>1. t \in history[t] /\ t < d.start
    BY <1>3, HistoryWithin
  <2> QED BY <1>13, <2>1
<1>15. CoveringAll(vs, d, d.volumes) = CoveringAll(vs, c, c.volumes)
  BY <1>3, <1>6 DEF CoveringAll
<1>16. Archive(vs, d, ar, pre)
  BY <1>3, <1>14, <1>15 DEF Archive
<1> QED BY <1>8, <1>11, <1>13, <1>16

\* s has what t reaches from start on, in order.
Archives(s, t, start) ==
  /\ s \in Seq(Entries) /\ Len(s) >= 1 /\ s[Len(s)] = t /\ s[1] >= start
  /\ \A x : x \in history[t] /\ x >= start <=> \E i \in 1..Len(s) : s[i] = x
  /\ \A i \in 1..Len(s) : s[1] <= s[i]

\* The collection archived s in the last volume, over the mapping b.
Ahead(vs, c, d, t, b, s) ==
  /\ Collected(c, d, t) /\ t >= c.start /\ Archives(s, t, c.start)
  /\ vs[c.volumes].tmp[c.gen] = Nothing /\ Len(b) \in Nat
  /\ Writing(vs[c.volumes], b, s, d.gen, "done")
  /\ vs[c.volumes].control.len # 0 => Len(b) = vs[c.volumes].control.len

\* The last volume, before with the control file l and after with k.
Extended(V, l, k, b, s, t) ==
  /\ k \in VolumeControl /\ k.len = Len(b) + Len(s) /\ k.end = t + 1
  /\ k.start < k.end /\ k.start <= s[1] /\ Straight(V, k.len)
  /\ \A i \in 1..Len(s) : V.data[Len(b) + i] = s[i]
  /\ l.len = 0 => l = Nothing /\ k.start = s[1]
  /\ l.len # 0 => k.start = l.start /\ Len(b) = l.len
  /\ l = V.control /\ l.end <= s[1] /\ Better(V, V, l, k)

LEMMA AheadCovering ==
  ASSUME NEW vs \in [Volumes -> Volume], NEW c \in StoreControl, NEW d \in StoreControl,
         NEW t \in Commits, NEW b, NEW s, Laid(vs, c), Ahead(vs, c, d, t, b, s)
  PROVE  /\ \A v \in 1..c.volumes - 1 : Covering(vs, d, v) = Covering(vs, c, v)
         /\ Extended(vs[c.volumes], Covering(vs, c, c.volumes), Covering(vs, d, c.volumes), b, s, t)
<1> DEFINE n == c.volumes
           V == vs[n]
           l == V.control
           k == NewControl(V, b, s)
<1>1. n \in Nat \ {0} /\ (\A v \in 1..n : v \in Volumes) /\ c.gen \in Gens
      /\ d.gen \in Gens /\ c.start \in Nat /\ d.volumes = n /\ n \in 1..n
  BY ControlType DEF Ahead, Collected
<1>2. t \in Nat \ {0}
  BY CommitIs
<1>3. V \in Volume /\ l \in VolumeControl /\ l.len \in Nat /\ l.start \in Nat /\ l.end \in Nat
  <2>1. V \in Volume
    BY <1>1
  <2> HIDE DEF V
  <2> QED BY <2>1 DEF Volume, VolumeControl
<1>4. V.tmp[c.gen] = Nothing /\ V.tmp[d.gen] = k
  BY DEF Ahead, Writing
<1>5. s \in Seq(Entries) /\ Len(s) \in Nat \ {0} /\ s[1] \in Nat /\ s[Len(s)] = t /\ s[1] <= t
      /\ Len(b) \in Nat
  <2>1. s \in Seq(Entries) /\ Len(s) >= 1 /\ s[Len(s)] = t /\ Len(b) \in Nat
        /\ \A i \in 1..Len(s) : s[1] <= s[i]
    BY DEF Ahead, Archives
  <2>2. Len(s) \in Nat \ {0} /\ 1 \in 1..Len(s) /\ Len(s) \in 1..Len(s)
    BY <2>1
  <2>3. s[1] \in Entries
    BY <2>1, <2>2
  <2> QED BY <2>1, <2>2, <2>3 DEF Entries
<1>6. l.len # 0 => l.start < l.end /\ Len(b) = l.len
  <2>1. Covering(vs, c, n) = l
    BY <1>1, <1>3, <1>4, CleanIs DEF Covering
  <2> QED BY <1>1, <2>1 DEF Laid, Ahead
<1>7. Covering(vs, c, n) = l
  BY <1>1, <1>3, <1>4, CleanIs DEF Covering
<1>8. l.len = 0 => l = Nothing
  BY <1>1, <1>7 DEF Laid
<1>9. l.end <= s[1]
  BY DEF Ahead, Writing
<1> HIDE DEF l
<1>10. /\ k.start = IF l.len = 0 THEN s[1] ELSE l.start
       /\ k.end = t + 1 /\ k.len = Len(b) + Len(s)
       /\ k = [start |-> k.start, end |-> k.end, len |-> k.len]
  BY <1>5 DEF NewControl, IsEmpty, l
<1> HIDE DEF k
<1>11. k.start \in Nat /\ k.end \in Nat /\ k.len \in Nat \ {0} /\ k.start <= s[1] /\ k.start < k.end
  BY <1>2, <1>3, <1>5, <1>6, <1>9, <1>10
<1>12. k \in VolumeControl
  BY <1>10, <1>11 DEF VolumeControl
<1>13. k # Nothing
  BY <1>11 DEF Nothing
<1>14. Covering(vs, d, n) = k
  BY <1>1, <1>3, <1>4, <1>13, CleanIs DEF Covering
<1>15. Straight(V, k.len)
  BY <1>10 DEF Ahead, Writing
<1>16. Older(l, k)
  <2>1. l.len # 0 => l.end <= k.end
    BY <1>2, <1>3, <1>5, <1>9, <1>10
  <2>2. l.len # 0 => l.len <= k.len /\ l.start = k.start
    BY <1>3, <1>5, <1>6, <1>10
  <2> QED BY <1>8, <2>1, <2>2 DEF Older
<1>17. Straight(V, l.len)
  BY <1>1, <1>7 DEF Laid
<1>18. Better(V, V, l, k)
  BY <1>3, <1>12, <1>15, <1>16, <1>17 DEF Better
<1>19. \A i \in 1..Len(s) : V.data[Len(b) + i] = s[i]
  BY DEF Ahead, Writing, Follows
<1>20. \A v \in 1..n - 1 : Covering(vs, d, v) = Covering(vs, c, v)
  <2>1. \A v \in 1..n - 1 : v # n
    BY <1>1
  <2> QED BY <1>1, <2>1 DEF Covering
<1>21. Extended(V, l, k, b, s, t)
  <2>1. l.len # 0 => k.start = l.start /\ Len(b) = l.len
    BY <1>6, <1>10
  <2>2. l.len = 0 => l = Nothing /\ k.start = s[1]
    BY <1>8, <1>10
  <2>3. l = V.control
    BY DEF l
  <2> HIDE DEF V
  <2> QED BY <1>9, <1>10, <1>11, <1>12, <1>15, <1>18, <1>19, <2>1, <2>2, <2>3 DEF Extended
<1> QED BY <1>7, <1>14, <1>20, <1>21 DEF l

LEMMA AheadLaid ==
  ASSUME NEW vs \in [Volumes -> Volume], NEW c \in StoreControl, NEW d \in StoreControl,
         NEW t \in Commits, NEW b, NEW s, NEW ar \in SUBSET Commits,
         Laid(vs, c), Place(vs, c, ar), Ahead(vs, c, d, t, b, s)
  PROVE  Laid(vs, d)
<1> DEFINE n == c.volumes
           V == vs[n]
           l == Covering(vs, c, n)
           k == Covering(vs, d, n)
<1>1. n \in Nat \ {0} /\ (\A v \in 1..n : v \in Volumes) /\ d.volumes = n /\ n \in 1..n
      /\ c.start \in Nat
  BY ControlType DEF Ahead, Collected
<1>2. \A v \in 1..n - 1 : Covering(vs, d, v) = Covering(vs, c, v)
  BY AheadCovering
<1>3. Extended(V, l, k, b, s, t)
  BY AheadCovering
<1>4. \A v \in 1..n : v = n \/ (v \in 1..n - 1 /\ v < n)
  BY <1>1
<1>5. s[1] \in Nat /\ s[1] >= c.start
  <2>1. s \in Seq(Entries) /\ Len(s) >= 1 /\ s[1] >= c.start
    BY DEF Ahead, Archives
  <2>2. s[1] \in Entries
    BY <2>1
  <2> QED BY <2>1, <2>2 DEF Entries
<1> HIDE DEF l, k, V
<1>6. k.len # 0 /\ k.start < k.end /\ Straight(V, k.len)
  <2>1. k.len = Len(b) + Len(s) /\ Len(b) \in Nat /\ Len(s) \in Nat /\ Len(s) >= 1
    BY <1>3 DEF Extended, Ahead, Archives
  <2> QED BY <1>3, <2>1 DEF Extended
<1>7. ASSUME NEW v \in 1..n
      PROVE  /\ Covering(vs, d, v).len = 0 => Covering(vs, d, v) = Nothing
             /\ Covering(vs, d, v).len # 0 => Covering(vs, d, v).start < Covering(vs, d, v).end
             /\ Straight(vs[v], Covering(vs, d, v).len)
  <2>1. CASE v = n
    BY <1>6, <2>1 DEF k, V
  <2>2. CASE v \in 1..n - 1
    BY <1>2, <2>2 DEF Laid
  <2> QED BY <1>4, <2>1, <2>2
<1>8. ASSUME NEW v \in 1..n, NEW w \in 1..n, v < w,
             Covering(vs, d, v).len # 0, Covering(vs, d, w).len # 0
      PROVE  Covering(vs, d, v).end <= Covering(vs, d, w).start
  <2>1. v \in 1..n - 1 /\ Covering(vs, d, v) = Covering(vs, c, v)
    BY <1>1, <1>2, <1>8
  <2>2. CASE w \in 1..n - 1
    <3>1. Covering(vs, d, w) = Covering(vs, c, w)
      BY <1>2, <2>2
    <3> QED BY <1>8, <2>1, <3>1 DEF Laid
  <2>3. CASE w = n /\ l.len # 0
    <3>1. Covering(vs, c, v).end <= l.start
      BY <1>1, <1>8, <2>1, <2>3 DEF Laid, l
    <3>2. k.start = l.start
      BY <1>3, <2>3 DEF Extended
    <3> QED BY <2>1, <2>3, <3>1, <3>2 DEF k
  <2>4. CASE w = n /\ l.len = 0
    <3>1. Covering(vs, c, v).end <= c.start
      BY <2>1 DEF Place
    <3>2. k.start = s[1]
      BY <1>3, <2>4 DEF Extended
    <3>3. Covering(vs, c, v).end \in Nat
      <4>1. v \in Volumes
        BY <1>1
      <4> QED BY <4>1, CoveringType
    <3> QED BY <1>1, <1>5, <2>1, <2>4, <3>1, <3>2, <3>3 DEF k
  <2> QED BY <1>4, <2>2, <2>3, <2>4
<1>9. Older(vs[n].control, k)
  BY <1>3 DEF Extended, Better, V
<1> QED BY <1>1, <1>7, <1>8, <1>9 DEF Laid, k

LEMMA AheadPlace ==
  ASSUME NEW vs \in [Volumes -> Volume], NEW c \in StoreControl, NEW d \in StoreControl,
         NEW t \in Commits, NEW b, NEW s, NEW ar \in SUBSET Commits, NEW as \in SUBSET Commits,
         Laid(vs, c), Place(vs, c, ar), Ahead(vs, c, d, t, b, s)
  PROVE  Place(vs, d, as) /\ ~ Stuck(vs, c) /\ (Joined(c) \/ Migrated(vs, c, ar))
<1> DEFINE n == c.volumes
           l == Covering(vs, c, n)
           k == Covering(vs, d, n)
<1>1. n \in Nat \ {0} /\ d.volumes = n /\ c.start \in Nat /\ c.target \in Nat
      /\ c.target \in {0} \cup Commits
  BY ControlType DEF Ahead, Collected
<1>2. t \in Nat \ {0}
  BY CommitIs
<1>3. \A v \in 1..n - 1 : Covering(vs, d, v) = Covering(vs, c, v)
  BY AheadCovering
<1>4. Extended(vs[n], l, k, b, s, t)
  BY AheadCovering
<1>5. /\ c.target \in {0} \cup history[t] /\ t >= c.start /\ d.target = t
      /\ d.start = (IF c.start >= t THEN c.start ELSE t + 1) /\ c.target < t
  BY DEF Ahead, Collected
<1>6. c.start - 1 \in {0} \cup Commits /\ c.start >= 1
  <2>1. c.start - 1 \in {0} \cup Commits
    BY DEF Place
  <2>2. \A x : x \in Commits => x \in Nat
    BY ConstantsAssumption
  <2>3. c.start - 1 = 0 \/ c.start - 1 \in Nat
    BY <2>1, <2>2
  <2> QED BY <1>1, <2>1, <2>3
<1>7. ASSUME Stuck(vs, c) PROVE FALSE
  <2>1. c.target = c.start /\ l.len # 0
    BY <1>7 DEF Stuck
  <2>2. l.end = c.start + 1
    BY <1>7, <2>1 DEF Place
  <2>3. c.target \in history[t]
    BY <1>1, <1>5, <1>6, <2>1
  <2>4. l.end <= s[1]
    BY <1>4 DEF Extended
  <2>5. PICK i \in 1..Len(s) : s[i] = c.target
    BY <1>1, <2>1, <2>3 DEF Ahead, Archives
  <2>6. s[1] <= s[i]
    BY DEF Ahead, Archives
  <2>7. s[1] \in Nat
    <3>1. s \in Seq(Entries) /\ Len(s) >= 1
      BY DEF Ahead, Archives
    <3>2. s[1] \in Entries
      BY <3>1
    <3> QED BY <3>2 DEF Entries
  <2> HIDE DEF l
  <2> QED BY <1>1, <2>1, <2>2, <2>4, <2>5, <2>6, <2>7
<1>8. k.len # 0 /\ k.end = t + 1
  <2>1. k.len = Len(b) + Len(s) /\ Len(b) \in Nat /\ Len(s) \in Nat /\ Len(s) >= 1
    BY <1>4 DEF Extended, Ahead, Archives
  <2> HIDE DEF k
  <2> QED BY <1>4, <2>1 DEF Extended
<1>9. CASE c.start < t
  <2>1. d.start = t + 1 /\ Joined(d) /\ ~ Stuck(vs, d)
    BY <1>1, <1>2, <1>5, <1>9 DEF Joined, Stuck
  <2>2. d.start - 1 = t
    BY <1>2, <2>1
  <2>3. ASSUME NEW v \in 1..n - 1 PROVE Covering(vs, d, v).end <= d.start
    <3>1. Covering(vs, c, v).end <= c.start
      BY DEF Place
    <3>2. v \in Volumes
      BY <1>1, ControlType
    <3>3. Covering(vs, c, v).end \in Nat
      BY <3>2, CoveringType
    <3> QED BY <1>1, <1>2, <1>3, <1>9, <2>1, <3>1, <3>3
  <2>4. Place(vs, d, as)
    BY <1>1, <1>8, <2>1, <2>2, <2>3 DEF Place
  <2> QED BY <1>7, <2>4 DEF Place
<1>10. CASE c.start = t
  <2>1. d.start = t /\ d.target = t
    BY <1>1, <1>2, <1>5, <1>10
  <2>2. Stuck(vs, d)
    BY <1>1, <1>8, <2>1 DEF Stuck
  <2>3. \A v \in 1..n - 1 : Covering(vs, d, v).end <= d.start
    BY <1>3, <1>10, <2>1 DEF Place
  <2>4. Place(vs, d, as)
    BY <1>1, <1>6, <1>8, <1>10, <2>1, <2>2, <2>3 DEF Place
  <2> QED BY <1>7, <2>4 DEF Place
<1>11. c.start < t \/ c.start = t
  BY <1>1, <1>2, <1>5
<1> QED BY <1>9, <1>10, <1>11

\* What archived commits need, the extended volume has: of what a commit that
\* comes to the volume needs, what was not in the suffix.
LEMMA AheadInherits ==
  ASSUME TreesGrow,
         NEW vs \in [Volumes -> Volume], NEW c \in StoreControl, NEW d \in StoreControl,
         NEW t \in Commits, NEW b, NEW s, NEW ar \in SUBSET Commits, NEW pre,
         Laid(vs, c), Place(vs, c, ar), Archive(vs, c, ar, pre), Ahead(vs, c, d, t, b, s),
         /\ vs[c.volumes].control.len = 0 /\ c.volumes # 1 /\ c.target # 0
         => \A x \in Snapshot(c.target) : \E i \in 1..Len(b) : b[i].off = x,
         NEW x \in history[t] \cap Commits, x >= c.start, NEW y \in Snapshot(x), y < c.start
  PROVE  /\ InOwn(vs, CoveringAll(vs, c, c.volumes), y)
         /\ Has(vs[c.volumes], Covering(vs, d, c.volumes).len, y)
<1> DEFINE n == c.volumes
           V == vs[n]
           l == Covering(vs, c, n)
           k == Covering(vs, d, n)
           cs == CoveringAll(vs, c, n)
           t0 == c.target
<1>1. n \in Nat \ {0} /\ c.start \in Nat /\ t0 \in Nat /\ t0 \in {0} \cup Commits /\ n \in 1..n
      /\ \A v \in 1..n : v \in Volumes
  BY ControlType
<1>2. y \in Nat \ {0} /\ x \in Nat
  BY SnapshotNat, CommitIs
<1>3. Extended(V, l, k, b, s, t)
  BY AheadCovering
<1>4. Joined(c) \/ Migrated(vs, c, ar)
  BY AheadPlace
<1>5. ~ Stuck(vs, c)
  BY AheadPlace
<1>6. Len(cs) = n /\ \A v \in 1..n : cs[v] = Covering(vs, c, v)
  BY <1>1 DEF CoveringAll
<1>7. Covers(vs, cs, ar)
  BY DEF Archive
<1>8. c.target \in {0} \cup history[t]
  BY DEF Ahead, Collected
<1> HIDE DEF cs
<1>9. CASE Joined(c)
  <2>1. t0 + 1 = c.start
    BY <1>9 DEF Joined
  <2>2. t0 # 0 /\ y <= t0 /\ t0 < x
    BY <1>1, <1>2, <2>1
  <2>3. t0 \in ar /\ t0 \in Commits /\ t0 \in history[t] \cap Commits
    <3>1. t0 \in ar
      BY <1>9, <2>2 DEF Archive
    <3> QED BY <1>8, <2>2, <3>1
  <2>4. y \in Snapshot(t0)
    BY <2>2, <2>3, Inherits
  <2>5. InOwn(vs, cs, y) /\ InOne(vs, cs, t0)
    BY <1>7, <2>3, <2>4 DEF Covers
  <2>6. PICK v \in 1..n : InRange(cs[v], t0) /\ Has(vs[v], cs[v].len, y)
    BY <1>6, <2>4, <2>5 DEF InOne
  <2>7. InRange(Covering(vs, c, v), t0) /\ Has(vs[v], Covering(vs, c, v).len, y)
    BY <1>6, <2>6
  <2>8. CASE l.len # 0
    <3>1. l.end = c.start /\ l.start < l.end
      BY <1>1, <1>5, <2>8 DEF Place, Laid
    <3>2. l.start \in Nat
      BY <1>1, CoveringType
    <3>3. InRange(Covering(vs, c, n), t0)
      BY <1>1, <2>1, <3>1, <3>2 DEF InRange
    <3>4. v = n
      BY <1>1, <2>7, <3>3, RangesApart
    <3>5. Has(V, l.len, y)
      BY <2>7, <3>4
    <3>6. Better(V, V, l, k)
      BY <1>3 DEF Extended
    <3> QED BY <2>5, <3>5, <3>6, BetterHas DEF cs
  <2>9. CASE l.len = 0
    <3>1. l = Nothing /\ V.control.len = 0
      BY <1>3, <2>9 DEF Extended
    <3>2. n # 1
      <4>1. CASE n = 1
        <5>1. v = n
          BY <4>1
        <5>2. InRange(l, t0)
          BY <2>7, <5>1
        <5> QED BY <1>1, <3>1, <5>2 DEF InRange, Nothing
      <4> QED BY <4>1
    <3>3. PICK i \in 1..Len(b) : b[i].off = y
      BY <2>2, <2>4, <3>1, <3>2
    <3>4. V.data[i] = y
      BY <3>3 DEF Ahead, Writing
    <3>5. k.len \in Nat /\ Straight(V, k.len) /\ i \in 1..k.len
      <4>1. k.len = Len(b) + Len(s) /\ Straight(V, k.len) /\ Len(b) \in Nat /\ Len(s) \in Nat
        BY <1>3 DEF Extended, Ahead, Archives
      <4> QED BY <4>1
    <3>6. k.len \in 0..k.len
      BY <3>5
    <3> HIDE DEF k, V
    <3>7. Has(V, k.len, y)
      BY <3>4, <3>5, <3>6, HasIs
    <3> QED BY <2>5, <3>7 DEF cs, k, V
  <2> QED BY <2>8, <2>9
<1>10. CASE Migrated(vs, c, ar)
  <2>1. n = 1
    BY <1>10 DEF Migrated
  <2>2. y \in 1..c.start - 1
    BY <1>1, <1>2
  <2>3. InRange(l, y) /\ Has(V, l.len, y)
    BY <1>10, <2>1, <2>2 DEF Migrated
  <2>4. Better(V, V, l, k)
    BY <1>3 DEF Extended
  <2>5. Has(V, k.len, y)
    BY <2>3, <2>4, BetterHas
  <2>6. InOwn(vs, cs, y)
    BY <1>1, <1>6, <2>3 DEF InOwn
  <2> QED BY <2>5, <2>6 DEF cs
<1> QED BY <1>4, <1>9, <1>10

LEMMA AheadArchive ==
  ASSUME TreesGrow,
         NEW vs \in [Volumes -> Volume], NEW c \in StoreControl, NEW d \in StoreControl,
         NEW t \in Commits, NEW b, NEW s, NEW ar \in SUBSET Commits, NEW pre,
         Laid(vs, c), Place(vs, c, ar), Archive(vs, c, ar, pre), Ahead(vs, c, d, t, b, s),
         /\ vs[c.volumes].control.len = 0 /\ c.volumes # 1 /\ c.target # 0
         => \A x \in Snapshot(c.target) : \E i \in 1..Len(b) : b[i].off = x,
         d.gen \in DOMAIN pre, pre[d.gen] = Sorted(Snapshot(t))
  PROVE  Archive(vs, d, ar \cup {x \in history[t] \cap Commits : x < d.start}, pre)
<1> DEFINE n == c.volumes
           V == vs[n]
           l == Covering(vs, c, n)
           k == Covering(vs, d, n)
           cs == CoveringAll(vs, c, n)
           ds == CoveringAll(vs, d, n)
           as == ar \cup {x \in history[t] \cap Commits : x < d.start}
<1>1. n \in Nat \ {0} /\ c.start \in Nat /\ c.target \in Nat /\ c.target \in {0} \cup Commits
      /\ n \in 1..n /\ (\A v \in 1..n : v \in Volumes) /\ d.start \in Nat
  BY ControlType
<1>2. t \in Nat \ {0} /\ t \in history[t] /\ \A x \in history[t] : x \in 1..t
  BY CommitIs, HistoryWithin
<1>3. Extended(V, l, k, b, s, t)
  BY AheadCovering
<1>4. \A v \in 1..n - 1 : Covering(vs, d, v) = Covering(vs, c, v)
  BY AheadCovering
<1>5. Joined(c) \/ Migrated(vs, c, ar)
  BY AheadPlace
<1>6. /\ Len(cs) = n /\ Len(ds) = n
      /\ \A v \in 1..n : cs[v] = Covering(vs, c, v) /\ ds[v] = Covering(vs, d, v)
  BY <1>1 DEF CoveringAll
<1>7. Covers(vs, cs, ar) /\ \A x \in ar : history[x] \cap Commits \subseteq ar
  BY DEF Archive
<1>8. /\ c.target \in {0} \cup history[t] /\ t >= c.start /\ d.target = t /\ d.volumes = n
      /\ d.start = (IF c.start >= t THEN c.start ELSE t + 1) /\ c.target < t
  BY DEF Ahead, Collected
<1> HIDE DEF cs, ds
<1>9. ASSUME NEW v \in 1..n PROVE Better(vs[v], vs[v], cs[v], ds[v])
  <2>1. CASE v = n
    BY <1>3, <1>6, <2>1 DEF Extended
  <2>2. CASE v # n
    <3>1. v \in 1..n - 1
      BY <1>1, <2>2
    <3>2. cs[v] = ds[v] /\ cs[v] = Covering(vs, c, v)
      BY <1>4, <1>6, <3>1
    <3>3. cs[v] \in VolumeControl /\ cs[v].len \in Nat /\ cs[v].start \in Nat /\ cs[v].end \in Nat
      BY <1>1, <3>2, CoveringType
    <3>4. (cs[v].len = 0 => cs[v] = Nothing) /\ Straight(vs[v], cs[v].len)
      BY <3>2 DEF Laid
    <3> QED BY <3>2, <3>3, <3>4 DEF Better, Older
  <2> QED BY <2>1, <2>2
<1>10. Covers(vs, ds, ar)
  <2>1. Len(cs) \in Nat /\ Len(ds) \in Nat /\ Len(cs) <= Len(ds)
    BY <1>1, <1>6
  <2>2. \A v \in 1..Len(cs) : Better(vs[v], vs[v], cs[v], ds[v])
    BY <1>6, <1>9
  <2> QED BY <1>7, <2>1, <2>2, CoversKept
<1>11. ASSUME NEW y \in history[t], y >= c.start
       PROVE  InRange(k, y) /\ Has(V, k.len, y) /\ InOwn(vs, ds, y)
  <2>1. PICK i \in 1..Len(s) : s[i] = y
    BY <1>11 DEF Ahead, Archives
  <2>2. s[1] <= y /\ s[1] \in Nat /\ i \in Nat
    <3>1. s \in Seq(Entries) /\ Len(s) >= 1 /\ s[1] <= s[i] /\ i \in Nat
      BY DEF Ahead, Archives
    <3>2. s[1] \in Entries
      BY <3>1
    <3> QED BY <2>1, <3>1, <3>2 DEF Entries
  <2>3. k.start <= s[1] /\ k.end = t + 1 /\ k.start \in Nat
    BY <1>3 DEF Extended, VolumeControl
  <2>4. y \in Nat /\ y <= t
    BY <1>2
  <2>5. InRange(k, y)
    <3> HIDE DEF k
    <3> QED BY <1>2, <2>2, <2>3, <2>4 DEF InRange
  <2>6. k.len \in Nat /\ Straight(V, k.len) /\ Len(b) + i \in 1..k.len /\ V.data[Len(b) + i] = y
    <3>1. k.len = Len(b) + Len(s) /\ Straight(V, k.len) /\ Len(b) \in Nat /\ Len(s) \in Nat
          /\ V.data[Len(b) + i] = s[i]
      BY <1>3 DEF Extended, Ahead, Archives
    <3> QED BY <2>1, <3>1
  <2>7. Has(V, k.len, y)
    <3>1. k.len \in 0..k.len
      BY <2>6
    <3> HIDE DEF V, k
    <3> QED BY <2>6, <3>1, HasIs
  <2>8. InOwn(vs, ds, y)
    BY <1>1, <1>6, <2>5, <2>7 DEF InOwn
  <2> QED BY <2>5, <2>7, <2>8
<1>12. ASSUME NEW x \in history[t] \cap Commits, x >= c.start
       PROVE  InOne(vs, ds, x) /\ \A y \in Snapshot(x) : InOwn(vs, ds, y)
  <2>1. \A y \in Snapshot(x) : y \in history[t] /\ y \in Nat
    BY HistoryDown, SnapshotNat
  <2>2. ASSUME NEW y \in Snapshot(x) PROVE Has(V, k.len, y) /\ InOwn(vs, ds, y)
    <3>1. CASE y >= c.start
      BY <1>11, <2>1, <3>1
    <3>2. CASE y < c.start
      <4>1. InOwn(vs, cs, y) /\ Has(V, k.len, y)
        BY <1>12, <3>2, AheadInherits DEF cs
      <4>2. PICK v \in 1..n : InRange(cs[v], y) /\ Has(vs[v], cs[v].len, y)
        BY <1>6, <4>1 DEF InOwn
      <4>3. Better(vs[v], vs[v], cs[v], ds[v])
        BY <1>9
      <4>4. InRange(ds[v], y) /\ Has(vs[v], ds[v].len, y)
        BY <2>1, <4>2, <4>3, BetterHas
      <4> QED BY <1>6, <4>1, <4>4 DEF InOwn
    <3>3. y >= c.start \/ y < c.start
      BY <1>1, <2>1
    <3> QED BY <3>1, <3>2, <3>3
  <2>3. InRange(k, x)
    BY <1>11, <1>12
  <2>4. InOne(vs, ds, x)
    BY <1>1, <1>6, <2>2, <2>3 DEF InOne
  <2> QED BY <2>2, <2>4
<1>13. ASSUME NEW x \in history[t] \cap Commits, x < c.start PROVE x \in ar
  <2>0. x \in Nat \ {0}
    BY CommitIs
  <2>1. CASE Joined(c)
    <3>1. c.target + 1 = c.start
      BY <2>1 DEF Joined
    <3>2. x <= c.target /\ c.target # 0
      BY <1>1, <1>13, <2>0, <3>1
    <3>3. c.target \in history[t] \cap Commits
      BY <1>1, <1>8, <3>2
    <3>4. x \in history[c.target]
      BY <3>2, <3>3, HistoryLine
    <3>5. c.target \in ar
      BY <2>1, <3>2 DEF Archive
    <3> QED BY <1>7, <3>4, <3>5
  <2>2. CASE Migrated(vs, c, ar)
    <3>1. x \in 1..c.start - 1
      BY <1>1, <1>13, <2>0
    <3> QED BY <2>2, <3>1 DEF Migrated
  <2> QED BY <1>5, <2>1, <2>2
<1>14. Covers(vs, ds, as)
  <2>1. ASSUME NEW x \in as
        PROVE  InOne(vs, ds, x) /\ \A y \in Snapshot(x) : InOwn(vs, ds, y)
    <3>1. CASE x \in ar
      BY <1>10, <3>1 DEF Covers
    <3>2. CASE x \in history[t] \cap Commits /\ x >= c.start
      BY <1>12, <3>2
    <3>3. CASE x \in history[t] \cap Commits /\ x < c.start
      BY <1>10, <1>13, <3>3 DEF Covers
    <3>4. x \in Commits => x \in Nat
      BY CommitIs
    <3> QED BY <1>1, <3>1, <3>2, <3>3, <3>4
  <2> HIDE DEF as
  <2> QED BY <2>1 DEF Covers
<1>15. ASSUME NEW x \in as, NEW e \in history[x] \cap Commits PROVE e \in as
  <2>1. CASE x \in ar
    BY <1>7, <2>1
  <2>2. CASE x \in history[t] \cap Commits /\ x < d.start
    <3>1. e \in history[t] \cap Commits
      BY <2>2, HistoryDown
    <3>2. e \in 1..x /\ x \in Nat
      BY <2>2, HistoryWithin, CommitIs
    <3>3. e < d.start
      BY <1>1, <2>2, <3>2
    <3> QED BY <3>1, <3>3
  <2> QED BY <2>1, <2>2
<1>16. Joined(d) => t \in as
  BY <1>2, <1>8 DEF Joined
<1> HIDE DEF as
<1>17. Archive(vs, d, as, pre)
  BY <1>8, <1>14, <1>15, <1>16 DEF Archive, ds
<1> QED BY <1>17 DEF as
-----------------------------------------------------------------------------
(* What the worker writes. *)

LEMMA OverwriteIs ==
  ASSUME NEW T, NEW old \in Seq(T), NEW n \in Nat, n <= Len(old), NEW s \in Seq(T)
  PROVE  /\ Overwrite(old, n, s) \in Seq(T)
         /\ Len(Overwrite(old, n, s)) \in Nat
         /\ Len(Overwrite(old, n, s)) >= n + Len(s) /\ Len(Overwrite(old, n, s)) >= Len(old)
         /\ \A i \in 1..n : Overwrite(old, n, s)[i] = old[i]
         /\ \A i \in 1..Len(s) : Overwrite(old, n, s)[n + i] = s[i]
<1> DEFINE l == Len(old)
           m == Len(s)
           p == SubSeq(old, 1, n)
           q == SubSeq(old, n + m + 1, l)
<1>1. l \in Nat /\ m \in Nat /\ n <= l
  OBVIOUS
<1>2. p \in Seq(T) /\ Len(p) = n /\ \A i \in 1..n : p[i] = old[i]
  <2>1. \A i \in 1..n : i \in 1..l
    BY <1>1
  <2>2. p = [i \in 1..n |-> old[i]]
    OBVIOUS
  <2>3. \A i \in 1..n : old[i] \in T
    BY <2>1
  <2> HIDE DEF p
  <2>4. p \in [1..n -> T]
    BY <2>2, <2>3
  <2> QED BY <2>2, <2>4
<1>3. q \in Seq(T) /\ Len(q) = IF n + m < l THEN l - n - m ELSE 0
  BY <1>1, SubSeqProperties
<1>4. Overwrite(old, n, s) = (p \o s) \o q
  BY DEF Overwrite
<1> HIDE DEF p, q, l, m
<1>5. p \o s \in Seq(T) /\ Len(p \o s) = n + m
      /\ (\A i \in 1..n : (p \o s)[i] = p[i]) /\ \A i \in 1..m : (p \o s)[n + i] = s[i]
  BY SMTT(30), <1>1, <1>2 DEF m
<1> DEFINE r == p \o s
<1>6. r \in Seq(T) /\ Len(r) = n + m
      /\ (\A i \in 1..n : r[i] = old[i]) /\ \A i \in 1..m : r[n + i] = s[i]
  BY <1>2, <1>5
<1> HIDE DEF r
<1>7. /\ r \o q \in Seq(T) /\ Len(r \o q) = n + m + Len(q)
      /\ \A i \in 1..n + m : (r \o q)[i] = r[i]
  <2>1. /\ r \o q \in Seq(T) /\ Len(r \o q) = Len(r) + Len(q)
        /\ \A i \in 1..Len(r) + Len(q) : (r \o q)[i] =
             IF i <= Len(r) THEN r[i] ELSE q[i - Len(r)]
    BY <1>3, <1>6, ConcatProperties
  <2>2. Len(q) \in Nat
    BY <1>3
  <2>3. \A i \in 1..n + m : i \in 1..n + m + Len(q) /\ i <= n + m
    BY <1>1, <2>2
  <2> QED BY <1>6, <2>1, <2>3
<1>8. (\A i \in 1..n : i \in 1..n + m) /\ \A i \in 1..m : n + i \in 1..n + m
  BY <1>1
<1>9. Overwrite(old, n, s) = r \o q
  BY <1>4 DEF r
<1>10. Len(r \o q) \in Nat /\ Len(r \o q) >= n + m /\ Len(r \o q) >= l
  BY <1>1, <1>3, <1>7
<1>11. \A i \in 1..n : (r \o q)[i] = old[i]
  BY <1>6, <1>7, <1>8
<1>12. \A i \in 1..m : (r \o q)[n + i] = s[i]
  BY <1>6, <1>7, <1>8
<1> QED BY <1>7, <1>9, <1>10, <1>11, <1>12 DEF l, m

MapEntry == [off : Entries, poff : Nat \ {0}]

LEMMA OverwriteMapping ==
  ASSUME NEW old \in Seq(MapEntry), NEW n \in Nat, n <= Len(old), NEW s \in Seq(MapEntry)
  PROVE  /\ Overwrite(old, n, s) \in Seq(MapEntry)
         /\ Len(Overwrite(old, n, s)) \in Nat
         /\ Len(Overwrite(old, n, s)) >= n + Len(s) /\ Len(Overwrite(old, n, s)) >= Len(old)
         /\ \A i \in 1..n : Overwrite(old, n, s)[i] = old[i]
         /\ \A i \in 1..Len(s) : Overwrite(old, n, s)[n + i] = s[i]
BY OverwriteIs

LEMMA VolumeIs ==
  ASSUME NEW V \in Volume
  PROVE  /\ V.mapping \in Seq(MapEntry) /\ V.data \in Seq(Entries)
         /\ V.control \in VolumeControl /\ V.tmp \in [Gens -> VolumeControl]
         /\ V.control.len \in Nat /\ V.control.start \in Nat /\ V.control.end \in Nat
         /\ Len(V.mapping) \in Nat /\ Len(V.data) \in Nat
<1>1. /\ V.mapping \in Seq(MapEntry) /\ V.data \in Seq(Entries)
      /\ V.control \in VolumeControl /\ V.tmp \in [Gens -> VolumeControl]
  BY DEF Volume, MapEntry
<1> QED BY <1>1 DEF VolumeControl

LEMMA BaseIs ==
  ASSUME NEW V \in Volume, Straight(V, V.control.len), NEW n \in Nat, NEW p \in Seq(Entries)
  PROVE  /\ BaseOf(V, n, p) \in Seq(MapEntry) /\ Len(BaseOf(V, n, p)) \in Nat
         /\ V.control.len # 0 =>
              /\ Len(BaseOf(V, n, p)) = V.control.len
              /\ \A i \in 1..V.control.len : BaseOf(V, n, p)[i] = V.mapping[i]
              /\ BaseOf(V, n, p) = SubSeq(V.mapping, 1, V.control.len)
         /\ V.control.len = 0 /\ n = 1 => BaseOf(V, n, p) = << >> /\ Len(BaseOf(V, n, p)) = 0
         /\ V.control.len = 0 /\ n # 1 =>
              /\ Len(BaseOf(V, n, p)) = Len(p)
              /\ \A i \in 1..Len(p) : BaseOf(V, n, p)[i] = [off |-> p[i], poff |-> i]
<1> DEFINE m == V.control.len
           f == V.mapping
<1>0. f \in Seq(MapEntry) /\ Len(f) \in Nat /\ m \in Nat /\ m <= Len(f)
  BY VolumeIs DEF Straight
<1> HIDE DEF f, m
<1>1. CASE m # 0
  <2>1. BaseOf(V, n, p) = SubSeq(f, 1, m)
    BY <1>1 DEF BaseOf, IsEmpty, f, m
  <2>2. SubSeq(f, 1, m) = [i \in 1..m |-> f[i]]
    BY <1>0
  <2>3. \A i \in 1..m : f[i] \in MapEntry
    BY <1>0
  <2>4. [i \in 1..m |-> f[i]] \in Seq(MapEntry) /\ Len([i \in 1..m |-> f[i]]) = m
    <3>1. [i \in 1..m |-> f[i]] \in [1..m -> MapEntry]
      BY <2>3
    <3> QED BY <1>0, <3>1
  <2>5. \A i \in 1..m : BaseOf(V, n, p)[i] = f[i]
    BY <2>1, <2>2
  <2>6. BaseOf(V, n, p) \in Seq(MapEntry) /\ Len(BaseOf(V, n, p)) = m
    BY <2>1, <2>2, <2>4
  <2> QED BY <1>0, <1>1, <2>1, <2>5, <2>6 DEF f, m
<1>2. CASE m = 0 /\ n = 1
  <2>1. BaseOf(V, n, p) = << >>
    BY <1>2 DEF BaseOf, IsEmpty, m
  <2>2. << >> \in Seq(MapEntry) /\ Len(<< >>) = 0
    OBVIOUS
  <2> QED BY <1>2, <2>1, <2>2 DEF m
<1>3. CASE m = 0 /\ n # 1
  <2>1. BaseOf(V, n, p) = [i \in 1..Len(p) |-> [off |-> p[i], poff |-> i]]
    BY <1>3 DEF BaseOf, IsEmpty, m
  <2>2. ASSUME NEW i \in 1..Len(p) PROVE [off |-> p[i], poff |-> i] \in MapEntry
    <3>1. p[i] \in Entries /\ i \in Nat \ {0}
      OBVIOUS
    <3> QED BY <3>1 DEF MapEntry
  <2>3. BaseOf(V, n, p) \in [1..Len(p) -> MapEntry] /\ Len(p) \in Nat
    BY <2>1, <2>2
  <2>4. BaseOf(V, n, p) \in Seq(MapEntry) /\ Len(BaseOf(V, n, p)) = Len(p)
    BY <2>3
  <2>5. \A i \in 1..Len(p) : BaseOf(V, n, p)[i] = [off |-> p[i], poff |-> i]
    BY <2>1
  <2> QED BY <1>3, <2>3, <2>4, <2>5 DEF m
<1> QED BY <1>1, <1>2, <1>3

LEMMA DataEndIs ==
  ASSUME NEW b \in Seq(MapEntry), \A i \in 1..Len(b) : b[i].poff = i
  PROVE  DataEnd(b) = Len(b)
<1>1. CASE b = << >>
  BY <1>1 DEF DataEnd
<1>2. CASE b # << >>
  <2>1. Len(b) \in 1..Len(b)
    BY <1>2
  <2> QED BY <1>2, <2>1 DEF DataEnd
<1> QED BY <1>1, <1>2

\* W has the control file of V and the places that it covers.
Kept(V, W) ==
  /\ W \in Volume /\ W.control = V.control /\ Straight(W, V.control.len)
  /\ \A i \in 1..V.control.len : W.data[i] = V.data[i]

LEMMA StageStart ==
  ASSUME NEW V \in Volume, Straight(V, V.control.len), NEW n \in Nat, NEW p \in Seq(Entries),
         NEW s, V.control.end <= s[1], NEW g, NEW W,
         W = IF IsEmpty(V.control) /\ n # 1
               THEN [V EXCEPT !.data = p, !.mapping = BaseOf(V, n, p)] ELSE V
  PROVE  /\ Kept(V, W) /\ W.tmp = V.tmp /\ BaseOf(W, n, p) = BaseOf(V, n, p)
         /\ Writing(W, BaseOf(V, n, p), s, g, "data")
<1> DEFINE b == BaseOf(V, n, p)
           m == V.control.len
<1>1. /\ b \in Seq(MapEntry) /\ Len(b) \in Nat
      /\ m # 0 => Len(b) = m /\ \A i \in 1..m : b[i] = V.mapping[i]
      /\ m = 0 /\ n = 1 => b = << >> /\ Len(b) = 0
      /\ m = 0 /\ n # 1 => Len(b) = Len(p) /\ \A i \in 1..Len(p) : b[i] = [off |-> p[i], poff |-> i]
  BY BaseIs
<1>2. m \in Nat
  BY VolumeIs
<1>3. CASE m = 0 /\ n # 1
  <2>1. W = [V EXCEPT !.data = p, !.mapping = b]
    BY <1>3 DEF IsEmpty
  <2> HIDE DEF b
  <2>2. W \in Volume /\ W.control = V.control /\ W.tmp = V.tmp /\ W.data = p /\ W.mapping = b
    BY <1>1, <2>1 DEF Volume, MapEntry
  <2>3. Straight(W, 0)
    BY <1>1, <2>2 DEF Straight
  <2>9. Len(b) = Len(p) /\ \A i \in 1..Len(p) : b[i] = [off |-> p[i], poff |-> i]
    BY <1>1, <1>3
  <2>10. ASSUME NEW i \in 1..Len(b) PROVE b[i].off = p[i] /\ b[i].poff = i
    <3>1. b[i] = [off |-> p[i], poff |-> i]
      BY <2>9
    <3> QED BY <3>1
  <2>5. \A i \in 1..Len(b) : b[i].off = W.data[i] /\ b[i].poff = i
    BY <2>2, <2>10
  <2>4. Straight(W, Len(b))
    <3>1. Len(b) <= Len(W.mapping) /\ Len(b) <= Len(W.data)
      BY <1>1, <2>2, <2>9
    <3> QED BY <2>2, <2>5, <3>1 DEF Straight
  <2>6. BaseOf(W, n, p) = b
    BY <1>3, <2>2 DEF BaseOf, IsEmpty, b
  <2>7. Kept(V, W)
    BY <1>3, <2>2, <2>3 DEF Kept
  <2>8. Writing(W, b, s, g, "data")
    BY <2>2, <2>4, <2>5 DEF Writing
  <2> QED BY <2>2, <2>6, <2>7, <2>8 DEF b
<1>4. CASE m # 0 \/ n = 1
  <2>1. W = V
    BY <1>4 DEF IsEmpty
  <2>2. Len(b) = m
    BY <1>1, <1>4
  <2>3. \A i \in 1..Len(b) : b[i] = V.mapping[i]
    BY <1>1, <1>4, <2>2
  <2>4. \A i \in 1..Len(b) : b[i].off = V.data[i] /\ b[i].poff = i
    BY <2>2, <2>3 DEF Straight
  <2> HIDE DEF b
  <2>5. Kept(V, W)
    BY <2>1 DEF Kept
  <2>6. Writing(W, b, s, g, "data")
    BY <2>1, <2>2, <2>4 DEF Writing
  <2> QED BY <2>1, <2>5, <2>6 DEF b
<1> QED BY <1>3, <1>4

LEMMA StageData ==
  ASSUME NEW V \in Volume, Straight(V, V.control.len), NEW n \in Nat, NEW p \in Seq(Entries),
         NEW s \in Seq(Entries), NEW g, Writing(V, BaseOf(V, n, p), s, g, "data"), NEW W,
         W = [V EXCEPT !.data = Overwrite(V.data, DataEnd(BaseOf(V, n, p)), s)]
  PROVE  /\ Kept(V, W) /\ W.tmp = V.tmp /\ BaseOf(W, n, p) = BaseOf(V, n, p)
         /\ Writing(W, BaseOf(V, n, p), s, g, "mapping")
<1> DEFINE b == BaseOf(V, n, p)
           m == V.control.len
           new == Overwrite(V.data, Len(b), s)
<1>1. /\ b \in Seq(MapEntry) /\ Len(b) \in Nat /\ (m # 0 => Len(b) = m)
  BY BaseIs
<1>2. m \in Nat /\ V.data \in Seq(Entries)
  BY VolumeIs
<1>3. /\ V.control.end <= s[1] /\ Straight(V, Len(b))
      /\ \A i \in 1..Len(b) : b[i].off = V.data[i] /\ b[i].poff = i
  BY DEF Writing
<1>4. BaseOf(V, n, p) = b
  OBVIOUS
<1> HIDE DEF b, m
<1>5. W = [V EXCEPT !.data = new]
  BY <1>1, <1>3, <1>4, DataEndIs
<1>6. Len(b) <= Len(V.data) /\ Len(b) <= Len(V.mapping)
  BY <1>3 DEF Straight
<1>7. /\ new \in Seq(Entries) /\ Len(new) \in Nat
      /\ Len(new) >= Len(b) + Len(s) /\ Len(new) >= Len(V.data)
      /\ \A i \in 1..Len(b) : new[i] = V.data[i]
      /\ \A i \in 1..Len(s) : new[Len(b) + i] = s[i]
  BY SMTT(30), <1>1, <1>2, <1>6, OverwriteIs
<1> HIDE DEF new
<1>8. W \in Volume /\ W.control = V.control /\ W.tmp = V.tmp /\ W.data = new /\ W.mapping = V.mapping
  BY <1>5, <1>7 DEF Volume
<1>9. Straight(W, Len(b))
  <2>1. Len(b) <= Len(new)
    <3>1. Len(V.data) \in Nat
      BY <1>2
    <3> QED BY <1>1, <1>6, <1>7, <3>1
  <2> QED BY <1>3, <1>6, <1>7, <1>8, <2>1 DEF Straight
<1>10. \A i \in 1..m : i \in 1..Len(b)
  BY <1>1, <1>2
<1>11. Straight(W, m)
  <2>1. m <= Len(b)
    BY <1>1, <1>2
  <2>2. Len(W.mapping) \in Nat /\ Len(W.data) \in Nat
    BY <1>8, VolumeIs
  <2>3. Len(b) <= Len(W.mapping) /\ Len(b) <= Len(W.data)
    BY <1>9 DEF Straight
  <2>4. m <= Len(W.mapping) /\ m <= Len(W.data)
    BY <1>1, <1>2, <2>1, <2>2, <2>3
  <2> QED BY <1>9, <1>10, <2>4 DEF Straight
<1>12. Kept(V, W)
  BY <1>7, <1>8, <1>10, <1>11 DEF Kept, m
<1>13. BaseOf(W, n, p) = b
  BY <1>4, <1>8 DEF BaseOf
<1>14. Follows(W.data, Len(b), s)
  <2>1. Len(b) + Len(s) <= Len(new)
    <3>1. Len(s) \in Nat
      OBVIOUS
    <3> QED BY <1>1, <1>7, <3>1
  <2> QED BY <1>7, <1>8, <2>1 DEF Follows
<1>15. Writing(W, b, s, g, "mapping")
  <2>1. \A i \in 1..Len(b) : b[i].off = W.data[i] /\ b[i].poff = i
    BY <1>3, <1>7, <1>8
  <2> QED BY <1>3, <1>8, <1>9, <1>14, <2>1 DEF Writing
<1> QED BY <1>4, <1>8, <1>12, <1>13, <1>15

LEMMA StageMapping ==
  ASSUME NEW V \in Volume, Straight(V, V.control.len), NEW n \in Nat, NEW p \in Seq(Entries),
         NEW s \in Seq(Entries), NEW g, Writing(V, BaseOf(V, n, p), s, g, "mapping"), NEW W,
         W = [V EXCEPT !.mapping = Overwrite(V.mapping, Len(BaseOf(V, n, p)),
                [i \in 1..Len(s) |-> [off |-> s[i], poff |-> DataEnd(BaseOf(V, n, p)) + i]])]
  PROVE  /\ Kept(V, W) /\ W.tmp = V.tmp /\ BaseOf(W, n, p) = BaseOf(V, n, p)
         /\ Writing(W, BaseOf(V, n, p), s, g, "control")
<1> DEFINE b == BaseOf(V, n, p)
           m == V.control.len
           a == [i \in 1..Len(s) |-> [off |-> s[i], poff |-> Len(b) + i]]
           new == Overwrite(V.mapping, Len(b), a)
<1>1. /\ b \in Seq(MapEntry) /\ Len(b) \in Nat
      /\ m # 0 => Len(b) = m /\ b = SubSeq(V.mapping, 1, m)
  BY BaseIs
<1>2. m \in Nat /\ V.mapping \in Seq(MapEntry) /\ Len(s) \in Nat /\ Len(V.mapping) \in Nat
      /\ Len(V.data) \in Nat
  BY VolumeIs
<1>3. /\ V.control.end <= s[1] /\ Straight(V, Len(b)) /\ Follows(V.data, Len(b), s)
      /\ \A i \in 1..Len(b) : b[i].off = V.data[i] /\ b[i].poff = i
  BY DEF Writing
<1>4. BaseOf(V, n, p) = b
  OBVIOUS
<1> HIDE DEF b, m
<1>5. W = [V EXCEPT !.mapping = new]
  <2>1. DataEnd(b) = Len(b)
    BY <1>1, <1>3, DataEndIs
  <2> QED BY <1>4, <2>1
<1>6. Len(b) <= Len(V.data) /\ Len(b) <= Len(V.mapping)
  BY <1>3 DEF Straight
<1>7. a \in Seq(MapEntry) /\ Len(a) = Len(s)
  <2>1. ASSUME NEW i \in 1..Len(s) PROVE [off |-> s[i], poff |-> Len(b) + i] \in MapEntry
    <3>1. s[i] \in Entries /\ Len(b) + i \in Nat \ {0}
      BY <1>1
    <3> QED BY <3>1 DEF MapEntry
  <2>2. a \in [1..Len(s) -> MapEntry]
    BY <2>1
  <2> QED BY <1>2, <2>2
<1>8. \A i \in 1..Len(s) : a[i].off = s[i] /\ a[i].poff = Len(b) + i
  OBVIOUS
<1> HIDE DEF a
<1>9. /\ new \in Seq(MapEntry) /\ Len(new) \in Nat
      /\ Len(new) >= Len(b) + Len(s) /\ Len(new) >= Len(V.mapping)
      /\ \A i \in 1..Len(b) : new[i] = V.mapping[i]
      /\ \A i \in 1..Len(s) : new[Len(b) + i] = a[i]
  <2>1. /\ Overwrite(V.mapping, Len(b), a) \in Seq(MapEntry)
        /\ Len(Overwrite(V.mapping, Len(b), a)) \in Nat
        /\ Len(Overwrite(V.mapping, Len(b), a)) >= Len(b) + Len(a)
        /\ Len(Overwrite(V.mapping, Len(b), a)) >= Len(V.mapping)
        /\ \A i \in 1..Len(b) : Overwrite(V.mapping, Len(b), a)[i] = V.mapping[i]
        /\ \A i \in 1..Len(a) : Overwrite(V.mapping, Len(b), a)[Len(b) + i] = a[i]
    <3>1. V.mapping \in Seq(MapEntry) /\ Len(b) \in Nat /\ Len(b) <= Len(V.mapping)
          /\ a \in Seq(MapEntry)
      BY <1>1, <1>2, <1>6, <1>7
    <3> QED BY <3>1, OverwriteMapping
  <2> QED BY <1>7, <2>1
<1> HIDE DEF new
<1>10. W \in Volume /\ W.control = V.control /\ W.tmp = V.tmp /\ W.data = V.data /\ W.mapping = new
  BY <1>5, <1>9 DEF Volume, MapEntry
<1>11. Len(b) + Len(s) <= Len(V.data) /\ \A i \in 1..Len(s) : V.data[Len(b) + i] = s[i]
  BY <1>3 DEF Follows
<1>12. ASSUME NEW i \in 1..Len(b) + Len(s) PROVE new[i].off = V.data[i] /\ new[i].poff = i
  <2>1. CASE i <= Len(b)
    <3>1. i \in 1..Len(b)
      BY <2>1
    <3> QED BY <1>3, <1>9, <3>1 DEF Straight
  <2>2. CASE i > Len(b)
    <3>1. i - Len(b) \in 1..Len(s) /\ Len(b) + (i - Len(b)) = i
      BY <1>1, <1>2, <2>2
    <3>2. new[i] = a[i - Len(b)] /\ V.data[i] = s[i - Len(b)]
      BY <1>9, <1>11, <3>1
    <3> QED BY <1>8, <3>1, <3>2
  <2> QED BY <1>1, <2>1, <2>2
<1>13. ASSUME NEW k \in Nat, k <= Len(b) + Len(s) PROVE Straight(W, k)
  <2>1. \A i \in 1..k : i \in 1..Len(b) + Len(s)
    BY <1>1, <1>2, <1>13
  <2>2. k <= Len(new) /\ k <= Len(V.data)
    BY <1>1, <1>2, <1>9, <1>11, <1>13
  <2> QED BY <1>10, <1>12, <2>1, <2>2 DEF Straight
<1>14. m <= Len(b) + Len(s) /\ Len(b) <= Len(b) + Len(s) /\ Len(b) + Len(s) \in Nat
  BY <1>1, <1>2
<1>15. Kept(V, W)
  BY <1>2, <1>10, <1>13, <1>14 DEF Kept, m
<1>16. BaseOf(W, n, p) = b
  <2>1. CASE m # 0
    <3>1. BaseOf(W, n, p) = SubSeq(new, 1, m)
      BY <1>10, <2>1 DEF BaseOf, IsEmpty, m
    <3>2. b = SubSeq(V.mapping, 1, m) /\ \A i \in 1..m : new[i] = V.mapping[i]
      BY <1>1, <1>9, <2>1
    <3>3. SubSeq(new, 1, m) = [i \in 1..m |-> new[i]]
          /\ SubSeq(V.mapping, 1, m) = [i \in 1..m |-> V.mapping[i]]
      BY <1>2, <1>9
    <3> QED BY <3>1, <3>2, <3>3
  <2>2. CASE m = 0
    BY <1>4, <1>10, <2>2 DEF BaseOf, IsEmpty, m
  <2> QED BY <2>1, <2>2
<1>17. Writing(W, b, s, g, "control")
  <2>1. Len(b) \in Nat /\ Len(b) + Len(s) <= Len(b) + Len(s)
    BY <1>1, <1>14
  <2>2. Straight(W, Len(b)) /\ Straight(W, Len(b) + Len(s))
    BY <1>13, <1>14, <2>1, Zenon
  <2> QED BY <1>3, <1>10, <2>2 DEF Writing
<1> QED BY <1>4, <1>10, <1>15, <1>16, <1>17

LEMMA StageControl ==
  ASSUME NEW V \in Volume, Straight(V, V.control.len), NEW n \in Nat, NEW p \in Seq(Entries),
         NEW s \in Seq(Entries), Len(s) >= 1, NEW g \in Gens,
         Writing(V, BaseOf(V, n, p), s, g, "control"), NEW W,
         W = [V EXCEPT !.tmp[g] = NewControl(V, BaseOf(V, n, p), s)]
  PROVE  /\ Kept(V, W) /\ (\A h \in Gens : h # g => W.tmp[h] = V.tmp[h])
         /\ BaseOf(W, n, p) = BaseOf(V, n, p)
         /\ Writing(W, BaseOf(V, n, p), s, g, "done")
<1> DEFINE b == BaseOf(V, n, p)
           k == NewControl(V, b, s)
<1>1. b \in Seq(MapEntry) /\ Len(b) \in Nat
  BY BaseIs
<1>2. V.control.start \in Nat /\ V.tmp \in [Gens -> VolumeControl]
  BY VolumeIs
<1>3. s[1] \in Nat /\ s[Len(s)] + 1 \in Nat /\ Len(s) \in Nat
  <2>1. s[1] \in Entries /\ s[Len(s)] \in Entries /\ Len(s) \in Nat
    OBVIOUS
  <2>2. \A x \in Entries : x \in Nat
    BY DEF Entries
  <2> QED BY <2>1, <2>2
<1> HIDE DEF b
<1>4. k \in VolumeControl
  BY <1>1, <1>2, <1>3 DEF NewControl, VolumeControl
<1> HIDE DEF k
<1>5. W = [V EXCEPT !.tmp = [V.tmp EXCEPT ![g] = k]]
  BY DEF b, k, Volume
<1>6. [V.tmp EXCEPT ![g] = k] \in [Gens -> VolumeControl]
  BY <1>2, <1>4
<1>7. /\ W \in Volume /\ W.control = V.control /\ W.data = V.data /\ W.mapping = V.mapping
      /\ W.tmp = [V.tmp EXCEPT ![g] = k]
  BY <1>5, <1>6 DEF Volume
<1>8. W.tmp[g] = k /\ \A h \in Gens : h # g => W.tmp[h] = V.tmp[h]
  BY <1>2, <1>7
<1>9. \A x : Straight(V, x) => Straight(W, x)
  BY <1>7 DEF Straight
<1>10. Kept(V, W)
  BY <1>7, <1>9 DEF Kept
<1>11. BaseOf(W, n, p) = b
  BY <1>7 DEF BaseOf, b
<1>12. NewControl(W, b, s) = k
  BY <1>7 DEF NewControl, k
<1>13. Writing(V, b, s, g, "control")
  BY DEF b
<1>14. Writing(W, b, s, g, "done")
  BY <1>7, <1>8, <1>9, <1>12, <1>13 DEF Writing
<1> QED BY <1>8, <1>10, <1>11, <1>14 DEF b

\* A write that keeps what the control file of the last volume covers.
LEMMA KeptKeeps ==
  ASSUME NEW vs \in [Volumes -> Volume], NEW ws, NEW c \in StoreControl, Laid(vs, c),
         vs[c.volumes].tmp[c.gen] = Nothing, ws[c.volumes].tmp[c.gen] = Nothing,
         NEW W, ws = [vs EXCEPT ![c.volumes] = W], Kept(vs[c.volumes], W)
  PROVE  ws \in [Volumes -> Volume] /\ Keeps(vs, ws, c) /\ ws[c.volumes] = W
         /\ \A v \in Volumes : v # c.volumes => ws[v] = vs[v]
<1> DEFINE n == c.volumes
           V == vs[n]
<1>1. n \in Volumes /\ n \in 1..n /\ c.gen \in Gens /\ \A v \in 1..n : v \in Volumes
  BY ControlType
<1>2. W \in Volume /\ W.control = V.control /\ Straight(W, V.control.len)
      /\ \A i \in 1..V.control.len : W.data[i] = V.data[i]
  BY DEF Kept
<1>3. ws \in [Volumes -> Volume] /\ ws[n] = W /\ \A v \in Volumes : v # n => ws[v] = vs[v]
  BY <1>1, <1>2
<1>4. Covering(vs, c, n) = V.control
  <2>1. V \in Volume /\ V.tmp[c.gen] = Nothing
    BY <1>1
  <2> HIDE DEF V
  <2>2. Clean(V, c.gen) = V
    BY <1>1, <2>1, CleanIs
  <2> QED BY <2>2 DEF Covering, V
<1>5. Covering(ws, c, n) = V.control
  <2>1. Clean(W, c.gen) = W
    BY <1>1, <1>2, <1>3, CleanIs
  <2> QED BY <1>2, <1>3, <2>1 DEF Covering
<1>6. ASSUME NEW v \in 1..n
      PROVE  /\ Covering(ws, c, v) = Covering(vs, c, v)
             /\ Straight(ws[v], Covering(vs, c, v).len)
             /\ \A i \in 1..Covering(vs, c, v).len : ws[v].data[i] = vs[v].data[i]
  <2>1. CASE v = n
    BY <1>2, <1>3, <1>4, <1>5, <2>1
  <2>2. CASE v # n
    <3>1. ws[v] = vs[v]
      BY <1>1, <1>3, <2>2
    <3> QED BY <2>2, <3>1 DEF Covering, Laid
  <2> QED BY <2>1, <2>2
<1>7. Older(ws[n].control, Covering(vs, c, n))
  BY <1>2, <1>3 DEF Laid
<1> QED BY <1>3, <1>6, <1>7 DEF Keeps

\* A cleanup keeps it too.
CleanLast(vs, c) == [vs EXCEPT ![c.volumes] = Clean(vs[c.volumes], c.gen)]

LEMMA CleanKeeps ==
  ASSUME NEW vs \in [Volumes -> Volume], NEW ws, NEW c \in StoreControl, Laid(vs, c),
         ws = CleanLast(vs, c)
  PROVE  ws \in [Volumes -> Volume] /\ Keeps(vs, ws, c) /\ ws[c.volumes].tmp[c.gen] = Nothing
         /\ ws[c.volumes].control = Covering(vs, c, c.volumes)
         /\ (\A v \in Volumes : v # c.volumes => ws[v] = vs[v])
         /\ \A v \in Volumes : \A g \in Gens : g # c.gen => ws[v].tmp[g] = vs[v].tmp[g]
<1> DEFINE n == c.volumes
           V == vs[n]
           W == Clean(V, c.gen)
<1>1. n \in Volumes /\ n \in 1..n /\ c.gen \in Gens /\ \A v \in 1..n : v \in Volumes
  BY ControlType
<1>2. V \in Volume
  BY <1>1
<1>3. /\ W \in Volume /\ W.mapping = V.mapping /\ W.data = V.data /\ W.tmp[c.gen] = Nothing
      /\ \A h \in Gens : h # c.gen => W.tmp[h] = V.tmp[h]
  BY <1>1, <1>2, CleanIs
<1>4. Clean(W, c.gen) = W
  <2> HIDE DEF W
  <2> QED BY <1>1, <1>3, CleanIs
<1>5. ws \in [Volumes -> Volume] /\ ws[n] = W /\ \A v \in Volumes : v # n => ws[v] = vs[v]
  <2>1. ws = [vs EXCEPT ![n] = W]
    BY DEF CleanLast
  <2> HIDE DEF W
  <2> QED BY <1>1, <1>3, <2>1
<1>6. Covering(vs, c, n) = W.control
  BY DEF Covering
<1> HIDE DEF W
<1>7. Covering(ws, c, n) = W.control
  BY <1>4, <1>5 DEF Covering
<1>8. ASSUME NEW v \in 1..n
      PROVE  /\ Covering(ws, c, v) = Covering(vs, c, v)
             /\ Straight(ws[v], Covering(vs, c, v).len)
             /\ \A i \in 1..Covering(vs, c, v).len : ws[v].data[i] = vs[v].data[i]
  <2>0. Straight(vs[v], Covering(vs, c, v).len)
    BY DEF Laid
  <2>1. CASE v = n
    <3>1. ws[v].data = vs[v].data /\ ws[v].mapping = vs[v].mapping
      BY <1>3, <1>5, <2>1
    <3> QED BY <1>6, <1>7, <2>0, <2>1, <3>1 DEF Straight
  <2>2. CASE v # n
    <3>1. ws[v] = vs[v]
      BY <1>1, <1>5, <2>2
    <3> QED BY <2>0, <2>2, <3>1 DEF Covering
  <2> QED BY <2>1, <2>2
<1>9. Older(W.control, W.control)
  <2>1. W.control.len = 0 => W.control = Nothing
    BY <1>1, <1>6 DEF Laid
  <2>2. W.control.len \in Nat /\ W.control.end \in Nat
    BY <1>3, VolumeIs
  <2> QED BY <2>1, <2>2 DEF Older
<1>10. Keeps(vs, ws, c)
  BY <1>5, <1>6, <1>8, <1>9 DEF Keeps
<1>11. \A v \in Volumes : \A g \in Gens : g # c.gen => ws[v].tmp[g] = vs[v].tmp[g]
  BY <1>1, <1>3, <1>5
<1> QED BY <1>3, <1>5, <1>6, <1>10, <1>11
-----------------------------------------------------------------------------
(* The steps of the main process and of its worker. *)

LEMMA Links ==
  /\ Base = BaseOf(volumes[control.volumes], control.volumes, PrefixOf(prefixes, control.gen))
  /\ ToArchive = ArchiveOf(target, control.start)
  /\ Appendable = control.volumes /\ NextGen = control.gen + 1
  /\ Appendable' = control'.volumes /\ NextGen' = control'.gen + 1
  /\ \A v : CleanVolume(v) = Clean(volumes[v], control.gen)
BY DEF Base, BaseOf, PrefixOf, Prefix, ToArchive, ArchiveOf, Appendable, NextGen, CleanVolume, Clean

LEMMA ArchiveIsOf ==
  ASSUME NEW start \in Nat, NEW t \in Commits, t >= start
  PROVE  Archives(ArchiveOf(t, start), t, start)
<1>1. /\ ArchiveOf(t, start) \in Seq(Entries)
      /\ \A x : x \in history[t] /\ x >= start
                <=> \E i \in 1..Len(ArchiveOf(t, start)) : ArchiveOf(t, start)[i] = x
      /\ t >= start =>
           /\ Len(ArchiveOf(t, start)) >= 1 /\ ArchiveOf(t, start)[1] >= start
           /\ ArchiveOf(t, start)[Len(ArchiveOf(t, start))] = t
           /\ \A i \in 1..Len(ArchiveOf(t, start)) : ArchiveOf(t, start)[1] <= ArchiveOf(t, start)[i]
  BY ArchiveIs
<1> QED BY <1>1 DEF Archives

LEMMA Facts ==
  ASSUME RwInv
  PROVE  /\ control \in StoreControl /\ volumes \in [Volumes -> Volume] /\ archived \in SUBSET Commits
         /\ control.gen \in Gens /\ control.gen \in Nat /\ control.start \in Nat
         /\ control.target \in Nat /\ control.volumes \in Volumes /\ control.volumes \in Nat \ {0}
         /\ Laid(volumes, control) /\ Place(volumes, control, archived)
         /\ Archive(volumes, control, archived, prefixes)
         /\ PrefixOf(prefixes, control.gen) \in Seq(Entries)
         /\ volumes[control.volumes] \in Volume
<1>1. control \in StoreControl /\ volumes \in [Volumes -> Volume] /\ archived \in SUBSET Commits
  BY DEF RwInv, RwType
<1>2. /\ control.gen \in Gens /\ control.gen \in Nat /\ control.start \in Nat
      /\ control.target \in Nat /\ control.volumes \in Volumes /\ control.volumes \in Nat \ {0}
  BY <1>1, ControlType
<1>3. PrefixOf(prefixes, control.gen) \in Seq(Entries)
  <2>1. << >> \in Seq(Entries)
    OBVIOUS
  <2> QED BY <2>1 DEF RwInv, RwType, PrefixOf
<1> QED BY <1>1, <1>2, <1>3 DEF RwInv, Files

LEMMA GenBound ==
  ASSUME RwInv
  PROVE  control.gen <= gcs + 1 /\ gcs \in Nat
<1>1. control.gen \in Nat /\ gcs \in Nat
  BY Facts, ConstantsAssumption DEF RwInv, RwType
<1>2. gcPc = "none" => control.gen + 0 <= gcs + 1
  BY DEF RwInv, Shape
<1>3. gcPc # "none" => control.gen + 1 <= gcs + 1
  BY DEF RwInv, Shape
<1> QED BY <1>1, <1>2, <1>3

\* While a collection is under way.
LEMMA GcFacts ==
  ASSUME RwInv, gcPc # "none"
  PROVE  /\ pc = "ready" /\ target \in Commits /\ target \in Nat
         /\ control.gen + 1 \in Gens /\ control.gen + 1 # control.gen
         /\ volumes[control.volumes].tmp[control.gen] = Nothing
         /\ Covering(volumes, control, control.volumes) = volumes[control.volumes].control
         /\ Straight(volumes[control.volumes], volumes[control.volumes].control.len)
<1>1. pc = "ready" /\ target \in Commits /\ control.gen + 1 <= gcs + 1
  BY DEF RwInv, Shape
<1>2. target \in Nat
  BY <1>1, CommitIs
<1>3. control.gen + 1 \in Gens /\ control.gen + 1 # control.gen
  <2>1. gcs \in 0..MaxGcs /\ control.gen \in Nat /\ MaxGcs \in Nat
    BY Facts, ConstantsAssumption DEF RwInv, RwType
  <2> QED BY <1>1, <2>1 DEF Gens
<1>4. volumes[control.volumes].tmp[control.gen] = Nothing
  BY <1>1, Links DEF RwInv, Temporary
<1>5. Covering(volumes, control, control.volumes) = volumes[control.volumes].control
  <2>1. Clean(volumes[control.volumes], control.gen) = volumes[control.volumes]
    BY <1>4, Facts, CleanIs
  <2> QED BY <2>1 DEF Covering
<1>6. Straight(volumes[control.volumes], volumes[control.volumes].control.len)
  <2>1. control.volumes \in 1..control.volumes
    BY Facts
  <2> QED BY <1>5, <2>1, Facts DEF Laid
<1> QED BY <1>1, <1>2, <1>3, <1>4, <1>5, <1>6

\* A step that keeps the control files too.
Same(vs, ws, c) ==
  /\ Keeps(vs, ws, c) /\ \A v \in Volumes : ws[v].control = vs[v].control
  /\ ws[c.volumes].tmp[c.gen] = Nothing

\* A step of the worker in the last volume.
LEMMA WorkerWrites ==
  ASSUME RwInv, gcPc # "none", NEW W, volumes' = [volumes EXCEPT ![control.volumes] = W],
         Kept(volumes[control.volumes], W),
         \A h \in Gens : h # control.gen + 1 => W.tmp[h] = volumes[control.volumes].tmp[h],
         gcPc' \in {"refused", "data", "mapping", "control", "done"},
         gcPc' \in {"data", "mapping", "control"} => target >= control.start,
         Working(gcPc', target, control, prefixes, W),
         UNCHANGED <<control, prefixes, volumeNames, rwVars, target, boundVars, archived>>
  PROVE  RwInv' /\ Same(volumes, volumes', control)
<1> DEFINE n == control.volumes
           V == volumes[n]
<1>1. /\ control' = control /\ prefixes' = prefixes /\ volumeNames' = volumeNames
      /\ pc' = pc /\ loaded' = loaded /\ target' = target /\ entries' = entries /\ gcs' = gcs
      /\ crashes' = crashes /\ archived' = archived
  BY DEF rwVars, boundVars
<1>2. /\ pc = "ready" /\ target \in Commits /\ control.gen + 1 \in Gens /\ control.gen + 1 # control.gen
      /\ V.tmp[control.gen] = Nothing
  BY GcFacts
<1>3. W.tmp[control.gen] = Nothing
  BY <1>2, Facts
<1>4. volumes'[n] = W
  BY Facts
<1>5. /\ volumes' \in [Volumes -> Volume] /\ Keeps(volumes, volumes', control)
      /\ \A v \in Volumes : v # n => volumes'[v] = volumes[v]
  BY <1>2, <1>3, <1>4, Facts, KeptKeeps
<1>6. RwType'
  BY <1>1, <1>5 DEF RwInv, RwType
<1>7. Shape'
  <2>1. \A v \in Volumes : v > n => volumes'[v] = NewVolume
    <3>1. \A v \in Volumes : v > n => volumes[v] = NewVolume
      BY Links DEF RwInv, Shape
    <3>2. \A v \in Volumes : v > n => v # n
      BY Facts
    <3> QED BY <1>5, <3>1, <3>2
  <2> QED BY <1>1, <1>2, <2>1, Links DEF RwInv, Shape
<1>8. Temporary'
  <2>1. ASSUME NEW v \in Volumes, NEW g \in Gens, g > control.gen + 1
        PROVE  volumes'[v].tmp[g] = Nothing
    <3>1. volumes[v].tmp[g] = Nothing /\ g # control.gen + 1
      BY <2>1, Facts, Links DEF RwInv, Temporary, Gens
    <3> QED BY <1>4, <1>5, <3>1
  <2> QED BY <1>1, <1>3, <1>4, <2>1, Links DEF Temporary
<1>9. Files'
  <2>1. /\ volumes \in [Volumes -> Volume] /\ control \in StoreControl /\ archived \in SUBSET Commits
        /\ Laid(volumes, control) /\ Place(volumes, control, archived)
        /\ Archive(volumes, control, archived, prefixes)
    BY Facts
  <2>2. control.target # 0 => control.gen \in DOMAIN prefixes
                              /\ prefixes[control.gen] = prefixes[control.gen]
    BY <2>1 DEF Archive
  <2>3. Laid(volumes', control) /\ Place(volumes', control, archived)
        /\ Archive(volumes', control, archived, prefixes)
    BY <1>5, <2>1, <2>2, QuietStep
  <2> QED BY <1>1, <2>3 DEF Files
<1>10. Work'
  BY <1>1, <1>4, Links DEF Work
<1>11. Same(volumes, volumes', control)
  <2>1. \A v \in Volumes : volumes'[v].control = volumes[v].control
    BY <1>4, <1>5 DEF Kept
  <2> QED BY <1>3, <1>4, <1>5, <2>1 DEF Same
<1> QED BY <1>6, <1>7, <1>8, <1>9, <1>10, <1>11 DEF RwInv

LEMMA WorkerArchivesStep ==
  ASSUME RwInv, WorkerArchives
  PROVE  RwInv' /\ Same(volumes, volumes', control)
<1> DEFINE n == control.volumes
           V == volumes[n]
           p == PrefixOf(prefixes, control.gen)
           s == ArchiveOf(target, control.start)
           W == IF gcPc' = "data" /\ IsEmpty(V.control) /\ n # 1
                  THEN [V EXCEPT !.data = p, !.mapping = BaseOf(V, n, p)] ELSE V
<1>1. gcPc = "archive" /\ gcPc # "none"
  BY DEF WorkerArchives
<1>2. /\ target \in Commits /\ target \in Nat /\ V \in Volume
      /\ Straight(V, V.control.len) /\ n \in Nat /\ n \in Volumes /\ p \in Seq(Entries)
      /\ volumes \in [Volumes -> Volume] /\ control.start \in Nat
  BY <1>1, GcFacts, Facts
<1>3. /\ gcPc' = IF s = << >> THEN "done"
                 ELSE IF V.control.end > s[1] THEN "refused" ELSE "data"
      /\ IF gcPc' = "data" /\ IsEmpty(V.control) /\ n # 1
           THEN volumes' = [volumes EXCEPT ![n].data = p, ![n].mapping = BaseOf(V, n, p)]
           ELSE volumes' = volumes
      /\ UNCHANGED <<control, prefixes, volumeNames, rwVars, target, boundVars, archived>>
  <2>1. Prefix(control.gen) = p
    BY DEF Prefix, PrefixOf
  <2> QED BY <2>1, Links DEF WorkerArchives
<1>4. Working("archive", target, control, prefixes, V)
  BY <1>1, Links DEF RwInv, Work
<1>5. V.control.end \in Nat
  BY <1>2, VolumeIs
<1>6. target >= control.start => s # << >> /\ s[1] \in Nat
  <2> SUFFICES ASSUME target >= control.start PROVE s # << >> /\ s[1] \in Nat
    OBVIOUS
  <2>1. s \in Seq(Entries) /\ Len(s) >= 1
    BY <1>2, ArchiveIsOf DEF Archives
  <2>2. s[1] \in Entries
    BY <2>1
  <2> QED BY <2>1, <2>2 DEF Entries
<1>7. target < control.start => s = << >>
  BY <1>2, ArchiveIs
<1> HIDE DEF p, s
<1>8. volumes' = [volumes EXCEPT ![n] = W]
  <2>1. CASE gcPc' = "data" /\ IsEmpty(V.control) /\ n # 1
    <3>1. volumes' = [volumes EXCEPT ![n].data = p, ![n].mapping = BaseOf(V, n, p)]
      BY <1>3, <2>1
    <3>2. [volumes EXCEPT ![n].data = p, ![n].mapping = BaseOf(V, n, p)]
          = [volumes EXCEPT ![n] = [V EXCEPT !.data = p, !.mapping = BaseOf(V, n, p)]]
      BY <1>2 DEF Volume
    <3>3. W = [V EXCEPT !.data = p, !.mapping = BaseOf(V, n, p)]
      BY <2>1
    <3> HIDE DEF W
    <3> QED BY <3>1, <3>2, <3>3
  <2>2. CASE ~ (gcPc' = "data" /\ IsEmpty(V.control) /\ n # 1)
    <3>1. volumes' = volumes /\ W = V
      BY <1>3, <2>2
    <3> HIDE DEF W
    <3> QED BY <1>2, <3>1
  <2> QED BY <2>1, <2>2
<1>9. Straight(V, V.control.len) /\ Kept(V, V)
  BY <1>2 DEF Kept
<1>10. CASE gcPc' = "data"
  <2>1. target >= control.start
    BY <1>2, <1>3, <1>7, <1>10
  <2>2. V.control.end <= s[1]
    BY <1>3, <1>5, <1>6, <1>10, <2>1
  <2>3. W = IF IsEmpty(V.control) /\ n # 1
              THEN [V EXCEPT !.data = p, !.mapping = BaseOf(V, n, p)] ELSE V
    BY <1>10
  <2> HIDE DEF W, V
  <2>4. /\ Kept(V, W) /\ W.tmp = V.tmp /\ BaseOf(W, n, p) = BaseOf(V, n, p)
        /\ Writing(W, BaseOf(V, n, p), s, control.gen + 1, "data")
    <3>1. V \in Volume /\ Straight(V, V.control.len) /\ n \in Nat /\ p \in Seq(Entries)
      BY <1>2
    <3> HIDE DEF n
    <3> QED BY ZenonT(40), <3>1, <2>2, <2>3, StageStart
  <2>5. Working("data", target, control, prefixes, W)
    BY <1>2, <1>4, <2>1, <2>4 DEF Working, p, s
  <2> QED BY <1>1, <1>3, <1>8, <1>10, <2>1, <2>4, <2>5, WorkerWrites DEF V
<1>11. CASE gcPc' # "data"
  <2>1. gcPc' = "refused" \/ (gcPc' = "done" /\ s = << >>)
    BY <1>3, <1>11
  <2>2. W = V
    BY <1>11
  <2> HIDE DEF W, V
  <2>3. Working(gcPc', target, control, prefixes, W)
    <3>1. ~ (target >= control.start /\ gcPc' \in {"data", "mapping", "control", "done"})
      BY <1>6, <2>1
    <3> QED BY <1>4, <2>2, <3>1 DEF Working
  <2> QED BY <1>1, <1>3, <1>8, <1>9, <2>1, <2>2, <2>3, WorkerWrites DEF V
<1> QED BY <1>10, <1>11

LEMMA WorkerDataStep ==
  ASSUME RwInv, WorkerData
  PROVE  RwInv' /\ Same(volumes, volumes', control)
<1> DEFINE n == control.volumes
           V == volumes[n]
           p == PrefixOf(prefixes, control.gen)
           s == ArchiveOf(target, control.start)
           b == BaseOf(V, n, p)
           W == [V EXCEPT !.data = Overwrite(V.data, DataEnd(b), s)]
<1>1. gcPc = "data" /\ gcPc # "none"
  BY DEF WorkerData
<1>2. /\ target \in Commits /\ V \in Volume /\ Straight(V, V.control.len)
      /\ n \in Nat /\ n \in Volumes /\ p \in Seq(Entries)
      /\ volumes \in [Volumes -> Volume] /\ control.start \in Nat
  BY <1>1, GcFacts, Facts
<1>3. target >= control.start
  BY <1>1 DEF RwInv, Shape
<1>4. s \in Seq(Entries)
  BY <1>2, <1>3, ArchiveIsOf DEF Archives
<1>5. /\ volumes' = [volumes EXCEPT ![n].data = Overwrite(@, DataEnd(b), s)]
      /\ gcPc' = "mapping"
      /\ UNCHANGED <<control, prefixes, volumeNames, rwVars, target, boundVars, archived>>
  BY Links DEF WorkerData
<1>6. Working("data", target, control, prefixes, V)
  BY <1>1, Links DEF RwInv, Work
<1>7. Writing(V, b, s, control.gen + 1, "data")
  BY <1>3, <1>6 DEF Working
<1> HIDE DEF p, s
<1>8. volumes' = [volumes EXCEPT ![n] = W]
  BY <1>2, <1>5
<1>9. /\ Kept(V, W) /\ W.tmp = V.tmp /\ BaseOf(W, n, p) = b
      /\ Writing(W, b, s, control.gen + 1, "mapping")
  <2> HIDE DEF V
  <2> QED BY <1>2, <1>4, <1>7, StageData
<1> HIDE DEF W, V
<1>10. Working("mapping", target, control, prefixes, W)
  BY <1>6, <1>9 DEF Working, p, s
<1> QED BY <1>1, <1>3, <1>5, <1>8, <1>9, <1>10, WorkerWrites DEF V

LEMMA WorkerMappingStep ==
  ASSUME RwInv, WorkerMapping
  PROVE  RwInv' /\ Same(volumes, volumes', control)
<1> DEFINE n == control.volumes
           V == volumes[n]
           p == PrefixOf(prefixes, control.gen)
           s == ArchiveOf(target, control.start)
           b == BaseOf(V, n, p)
           a == [i \in 1..Len(s) |-> [off |-> s[i], poff |-> DataEnd(b) + i]]
           W == [V EXCEPT !.mapping = Overwrite(V.mapping, Len(b), a)]
<1>1. gcPc = "mapping" /\ gcPc # "none"
  BY DEF WorkerMapping
<1>2. /\ target \in Commits /\ V \in Volume /\ Straight(V, V.control.len)
      /\ n \in Nat /\ n \in Volumes /\ p \in Seq(Entries)
      /\ volumes \in [Volumes -> Volume] /\ control.start \in Nat
  BY <1>1, GcFacts, Facts
<1>3. target >= control.start
  BY <1>1 DEF RwInv, Shape
<1>4. s \in Seq(Entries)
  BY <1>2, <1>3, ArchiveIsOf DEF Archives
<1>5. /\ volumes' = [volumes EXCEPT ![n].mapping = Overwrite(@, Len(b), a)]
      /\ gcPc' = "control"
      /\ UNCHANGED <<control, prefixes, volumeNames, rwVars, target, boundVars, archived>>
  BY Links DEF WorkerMapping
<1>6. Working("mapping", target, control, prefixes, V)
  BY <1>1, Links DEF RwInv, Work
<1>7. Writing(V, b, s, control.gen + 1, "mapping")
  BY <1>3, <1>6 DEF Working
<1> HIDE DEF p, s
<1>8. volumes' = [volumes EXCEPT ![n] = W]
  <2> HIDE DEF a
  <2> QED BY <1>2, <1>5
<1>9. /\ Kept(V, W) /\ W.tmp = V.tmp /\ BaseOf(W, n, p) = b
      /\ Writing(W, b, s, control.gen + 1, "control")
  <2> HIDE DEF V
  <2> QED BY <1>2, <1>4, <1>7, StageMapping
<1> HIDE DEF W, V
<1>10. Working("control", target, control, prefixes, W)
  BY <1>6, <1>9 DEF Working, p, s
<1> QED BY <1>1, <1>3, <1>5, <1>8, <1>9, <1>10, WorkerWrites DEF V

LEMMA WorkerControlStep ==
  ASSUME RwInv, WorkerControl
  PROVE  RwInv' /\ Same(volumes, volumes', control)
<1> DEFINE n == control.volumes
           V == volumes[n]
           p == PrefixOf(prefixes, control.gen)
           s == ArchiveOf(target, control.start)
           b == BaseOf(V, n, p)
           g == control.gen + 1
           W == [V EXCEPT !.tmp[g] = NewControl(V, b, s)]
<1>1. gcPc = "control" /\ gcPc # "none"
  BY DEF WorkerControl
<1>2. /\ target \in Commits /\ V \in Volume /\ Straight(V, V.control.len)
      /\ n \in Nat /\ n \in Volumes /\ p \in Seq(Entries)
      /\ volumes \in [Volumes -> Volume] /\ control.start \in Nat /\ g \in Gens
  BY <1>1, GcFacts, Facts
<1>3. target >= control.start
  BY <1>1 DEF RwInv, Shape
<1>4. s \in Seq(Entries) /\ Len(s) >= 1
  BY <1>2, <1>3, ArchiveIsOf DEF Archives
<1>5. /\ volumes' = [volumes EXCEPT ![n].tmp[g] = NewControl(V, b, s)]
      /\ gcPc' = "done"
      /\ UNCHANGED <<control, prefixes, volumeNames, rwVars, target, boundVars, archived>>
  BY Links DEF WorkerControl, NewControl
<1>6. Working("control", target, control, prefixes, V)
  BY <1>1, Links DEF RwInv, Work
<1>7. Writing(V, b, s, g, "control")
  BY <1>3, <1>6 DEF Working
<1> HIDE DEF p, s
<1>8. volumes' = [volumes EXCEPT ![n] = W]
  BY <1>2, <1>5 DEF Volume
<1>9. /\ Kept(V, W) /\ (\A h \in Gens : h # g => W.tmp[h] = V.tmp[h]) /\ BaseOf(W, n, p) = b
      /\ Writing(W, b, s, g, "done")
  <2> HIDE DEF V, g
  <2> QED BY <1>2, <1>4, <1>7, StageControl
<1> HIDE DEF W, V
<1>10. Working("done", target, control, prefixes, W)
  <2>1. ~ (target < control.start)
    <3>1. target \in Nat
      BY <1>2, CommitIs
    <3> QED BY <1>2, <1>3, <3>1
  <2> QED BY <1>3, <1>6, <1>9, <2>1 DEF Working, p, s
<1> QED BY <1>1, <1>3, <1>5, <1>8, <1>9, <1>10, WorkerWrites DEF V

LEMMA SnapshotSorted ==
  ASSUME NEW t \in Commits
  PROVE  /\ Sorted(Snapshot(t)) \in Seq(Entries)
         /\ \A x \in Snapshot(t) : \E i \in 1..Len(Sorted(Snapshot(t))) : Sorted(Snapshot(t))[i] = x
<1>1. t \in Nat /\ Snapshot(t) \subseteq 1..t /\ Snapshot(t) \subseteq Entries
  BY SnapshotNat, CommitIs
<1>2. /\ Sorted(Snapshot(t)) \in Seq(Snapshot(t))
      /\ \A x : x \in Snapshot(t) <=> \E i \in 1..Len(Sorted(Snapshot(t))) : Sorted(Snapshot(t))[i] = x
  BY <1>1, SortedIs
<1>3. Sorted(Snapshot(t)) \in Seq(Entries)
  BY <1>1, <1>2
<1> QED BY <1>2, <1>3

\* A step of the main process that writes no file.
LEMMA NoFile ==
  ASSUME RwInv, UNCHANGED <<control, prefixes, volumes, archived>>
  PROVE  Files'
BY DEF RwInv, Files

LEMMA CommitStep ==
  ASSUME RwInv, Commit
  PROVE  RwInv'
<1>1. /\ UNCHANGED <<control, prefixes, volumes, volumeNames, pc, loaded, gcPc, target, gcs, crashes,
                     archived>>
      /\ entries' \in Commits
  BY DEF Commit, storeVars, rwVars, gcVars
<1>2. RwType' /\ Shape' /\ Temporary' /\ Work'
  BY <1>1 DEF RwInv, RwType, Shape, Temporary, Work, Appendable, NextGen
<1> QED BY <1>1, <1>2, NoFile DEF RwInv

LEMMA StartGcStep ==
  ASSUME RwInv, Never({"forked", "staleControl"}), NEW c \in Commits, StartGc(c)
  PROVE  RwInv'
<1>1. /\ UNCHANGED <<control, prefixes, volumes, volumeNames, pc, loaded, entries, crashes, archived>>
      /\ pc = "ready" /\ gcPc = "none" /\ gcs < MaxGcs /\ gcPc' = "prefix" /\ target' = c
      /\ gcs' = gcs + 1 /\ control.target < c
  BY DEF StartGc, storeVars, rwVars
<1>2. gcs \in Nat /\ MaxGcs \in Nat
  BY ConstantsAssumption DEF RwInv, RwType
<1>3. RwType'
  BY <1>1, <1>2 DEF RwInv, RwType
<1>4. Shape'
  <2>1. control.gen + 1 <= gcs' + 1
    BY <1>1, <1>2, Facts DEF RwInv, Shape
  <2> QED BY <1>1, <2>1 DEF RwInv, Shape, Appendable
<1>5. Temporary'
  BY <1>1 DEF RwInv, Temporary, Appendable, NextGen
<1>6. Work'
  <2>1. control.target \in {0} \cup history[c]
    BY DEF StartGc, Never
  <2>2. c < control.start => volumes[Appendable].tmp[control.gen + 1] = Nothing
    <3>1. c >= control.start \/ volumes[Appendable].tmp[control.gen + 1] = Nothing
      BY Links DEF StartGc, Never
    <3>2. c \in Nat /\ control.start \in Nat
      BY CommitIs, Facts
    <3> QED BY <3>1, <3>2
  <2>3. Working("prefix", c, control, prefixes, volumes[Appendable])
    BY <1>1, <2>1, <2>2 DEF Working
  <2> QED BY <1>1, <2>3 DEF Work, Appendable
<1> QED BY <1>1, <1>3, <1>4, <1>5, <1>6, NoFile DEF RwInv

LEMMA AddCreatesStep ==
  ASSUME RwInv, Never({"addBehind"}), AddCreates
  PROVE  RwInv'
<1>1. /\ UNCHANGED <<control, prefixes, volumes, gcPc, target, entries, gcs, crashes, archived>>
      /\ pc = "ready" /\ gcPc = "none" /\ pc' = "adding" /\ loaded' = Append(loaded, Nothing)
      /\ volumeNames' = volumeNames \cup {Len(loaded) + 1} /\ Len(loaded) < MaxVolumes
  BY DEF AddCreates, gcVars, boundVars
<1>2. Joined(control)
  BY DEF AddCreates, Never, Joined
<1>3. loaded \in Seq(VolumeControl) /\ Len(loaded) = control.volumes
  BY <1>1, Links DEF RwInv, RwType, Shape
<1>4. Len(loaded) + 1 \in Volumes
  BY <1>1, <1>3, Facts, ConstantsAssumption DEF Volumes
<1>5. loaded' \in Seq(VolumeControl) /\ Len(loaded') = control.volumes + 1
  BY <1>1, <1>3, NothingIs
<1>6. RwType'
  BY <1>1, <1>4, <1>5 DEF RwInv, RwType
<1>7. Shape'
  BY <1>1, <1>2, <1>3, <1>4, <1>5, Links DEF RwInv, Shape
<1>8. Temporary' /\ Work'
  BY <1>1 DEF RwInv, Temporary, Work, Working, Appendable, NextGen
<1> QED BY <1>1, <1>6, <1>7, <1>8, NoFile DEF RwInv

LEMMA AddCountsStep ==
  ASSUME RwInv, AddCounts
  PROVE  RwInv'
<1> DEFINE n == control.volumes
<1>1. /\ UNCHANGED <<prefixes, volumes, volumeNames, loaded, gcPc, target, entries, gcs, crashes,
                     archived>>
      /\ pc = "adding" /\ pc' = "ready" /\ control' = [control EXCEPT !.volumes = Len(loaded)]
  BY DEF AddCounts, gcVars, boundVars
<1>2. Len(loaded) = n + 1 /\ n + 1 \in Volumes /\ Joined(control) /\ gcPc = "none"
  BY <1>1, Links DEF RwInv, Shape
<1>3. /\ control' \in StoreControl /\ control'.volumes = n + 1 /\ control'.gen = control.gen
      /\ control'.start = control.start /\ control'.target = control.target
  <2>1. control \in StoreControl
    BY Facts
  <2> QED BY <1>1, <1>2, <2>1 DEF StoreControl
<1>4. volumes[n + 1] = NewVolume /\ \A v \in Volumes : v > n + 1 => volumes[v] = NewVolume
  <2>1. n + 1 > n /\ n \in Nat /\ \A v \in Volumes : v > n + 1 => v > n
    BY Facts DEF Volumes
  <2> QED BY <1>2, <2>1, Links DEF RwInv, Shape
<1>5. volumes[n].tmp[control.gen] = Nothing
  BY <1>1, Links DEF RwInv, Temporary
<1>6. RwType'
  BY <1>1, <1>3 DEF RwInv, RwType
<1>7. Shape'
  BY <1>1, <1>2, <1>3, <1>4, Links DEF RwInv, Shape
<1>8. Temporary'
  <2>1. NewVolume.tmp[control.gen] = Nothing
    BY Facts, NothingIs
  <2> QED BY <1>1, <1>3, <1>4, <2>1, Links DEF RwInv, Temporary
<1>9. Files'
  <2>0. /\ volumes \in [Volumes -> Volume] /\ control \in StoreControl /\ archived \in SUBSET Commits
        /\ Laid(volumes, control) /\ Place(volumes, control, archived)
        /\ Archive(volumes, control, archived, prefixes)
    BY Facts
  <2>1. Laid(volumes, control') /\ Place(volumes, control', archived)
        /\ Archive(volumes, control', archived, prefixes)
    BY <1>2, <1>3, <1>4, <1>5, <2>0, GrowStep
  <2> QED BY <1>1, <2>1 DEF Files
<1>10. Work'
  BY <1>1, <1>2 DEF Work, Working
<1> QED BY <1>6, <1>7, <1>8, <1>9, <1>10 DEF RwInv

LEMMA WorkerPrefixStep ==
  ASSUME RwInv, WorkerPrefix
  PROVE  RwInv'
<1> DEFINE g == control.gen + 1
<1>1. /\ UNCHANGED <<control, volumes, volumeNames, pc, loaded, target, entries, gcs, crashes, archived>>
      /\ gcPc = "prefix" /\ gcPc' = "archive"
      /\ prefixes' = [h \in DOMAIN prefixes \cup {g} |->
                        IF h = g THEN Sorted(Snapshot(target)) ELSE prefixes[h]]
  BY Links DEF WorkerPrefix, rwVars, boundVars
<1>2. target \in Commits /\ g \in Gens /\ g # control.gen
  BY <1>1, GcFacts
<1>3. Sorted(Snapshot(target)) \in Seq(Entries)
  BY <1>2, SnapshotSorted
<1> HIDE DEF g
<1>4. /\ g \in DOMAIN prefixes' /\ prefixes'[g] = Sorted(Snapshot(target))
      /\ control.gen \in DOMAIN prefixes =>
           control.gen \in DOMAIN prefixes' /\ prefixes'[control.gen] = prefixes[control.gen]
  BY <1>1, <1>2
<1>5. RwType'
  <2>1. DOMAIN prefixes' \subseteq Gens
    BY <1>1, <1>2 DEF RwInv, RwType
  <2>2. \A h \in DOMAIN prefixes' : prefixes'[h] \in Seq(Entries)
    BY <1>1, <1>3 DEF RwInv, RwType
  <2> QED BY <1>1, <2>1, <2>2 DEF RwInv, RwType
<1>6. Shape' /\ Temporary'
  BY <1>1 DEF RwInv, Shape, Temporary, Appendable, NextGen
<1>7. Files'
  <2>1. Archive(volumes, control, archived, prefixes)
    BY Facts
  <2>2. Archive(volumes, control, archived, prefixes')
    BY <1>4, <2>1 DEF Archive
  <2> QED BY <1>1, <2>2 DEF RwInv, Files
<1>8. Work'
  <2>1. Working("prefix", target, control, prefixes, volumes[Appendable])
    BY <1>1 DEF RwInv, Work
  <2>2. Working("archive", target, control, prefixes', volumes[Appendable])
    BY <1>4, <2>1 DEF Working, g
  <2> QED BY <1>1, <2>2 DEF Work, Appendable
<1> QED BY <1>5, <1>6, <1>7, <1>8 DEF RwInv

\* The cleanup of the last volume.
LEMMA CleanStep ==
  ASSUME RwInv,
         volumes' = CleanLast(volumes, control),
         UNCHANGED <<control, volumeNames, boundVars, archived>>,
         DOMAIN prefixes' \subseteq DOMAIN prefixes,
         \A g \in DOMAIN prefixes' : prefixes'[g] = prefixes[g],
         control.gen \in DOMAIN prefixes => control.gen \in DOMAIN prefixes',
         gcPc' = "none", target' \in {0} \cup Commits,
         pc' \in {"ready", "unlinking"},
         loaded' \in Seq(VolumeControl), Len(loaded') = control.volumes
  PROVE  RwInv'
<1> DEFINE n == control.volumes
<1>1. /\ control' = control /\ volumeNames' = volumeNames /\ entries' = entries /\ gcs' = gcs
      /\ crashes' = crashes /\ archived' = archived
  BY DEF boundVars
<1>2. /\ volumes \in [Volumes -> Volume] /\ control \in StoreControl /\ archived \in SUBSET Commits
      /\ Laid(volumes, control) /\ Place(volumes, control, archived)
      /\ Archive(volumes, control, archived, prefixes) /\ control.gen \in Nat /\ control.gen \in Gens
  BY Facts
<1>3. /\ volumes' \in [Volumes -> Volume] /\ Keeps(volumes, volumes', control)
      /\ volumes'[n].tmp[control.gen] = Nothing
      /\ (\A v \in Volumes : v # n => volumes'[v] = volumes[v])
      /\ \A v \in Volumes : \A g \in Gens : g # control.gen => volumes'[v].tmp[g] = volumes[v].tmp[g]
  <2>1. volumes \in [Volumes -> Volume] /\ control \in StoreControl /\ Laid(volumes, control)
    BY <1>2
  <2> QED BY <2>1, CleanKeeps
<1>4. RwType'
  <2>1. DOMAIN prefixes' \subseteq Gens /\ \A g \in DOMAIN prefixes' : prefixes'[g] \in Seq(Entries)
    BY DEF RwInv, RwType
  <2> QED BY <1>1, <1>3, <2>1 DEF RwInv, RwType
<1>5. Shape'
  <2>1. \A v \in Volumes : v > n => volumes'[v] = NewVolume
    <3>1. \A v \in Volumes : v > n => volumes[v] = NewVolume
      BY Links DEF RwInv, Shape
    <3>2. \A v \in Volumes : v > n => v # n
      BY Facts
    <3> QED BY <1>3, <3>1, <3>2
  <2>2. control.gen + 0 <= gcs + 1
    BY <1>2, GenBound
  <2> QED BY <1>1, <2>1, <2>2, Links DEF Shape
<1>6. Temporary'
  <2>1. ASSUME NEW v \in Volumes, NEW g \in Gens, g > control.gen + 1
        PROVE  volumes'[v].tmp[g] = Nothing
    <3>1. volumes[v].tmp[g] = Nothing
      BY <2>1, Links DEF RwInv, Temporary
    <3>2. g # control.gen
      BY <1>2, <2>1 DEF Gens
    <3> QED BY <1>3, <3>1, <3>2
  <2> QED BY <1>1, <1>3, <2>1, Links DEF Temporary
<1>7. Files'
  <2>1. control.target # 0 => control.gen \in DOMAIN prefixes'
                              /\ prefixes'[control.gen] = prefixes[control.gen]
    BY <1>2 DEF Archive
  <2>2. Laid(volumes', control) /\ Place(volumes', control, archived)
        /\ Archive(volumes', control, archived, prefixes')
    <3>1. /\ volumes \in [Volumes -> Volume] /\ control \in StoreControl /\ archived \in SUBSET Commits
          /\ Laid(volumes, control) /\ Place(volumes, control, archived)
          /\ Archive(volumes, control, archived, prefixes)
          /\ volumes' \in [Volumes -> Volume] /\ Keeps(volumes, volumes', control)
      BY <1>2, <1>3
    <3> QED BY <2>1, <3>1, QuietStep
  <2> QED BY <1>1, <2>2 DEF Files
<1>8. Work'
  BY DEF Work, Working
<1> QED BY <1>4, <1>5, <1>6, <1>7, <1>8 DEF RwInv

LEMMA CleanupIs ==
  ASSUME Cleanup, control' = control
  PROVE  /\ volumes' = CleanLast(volumes, control)
         /\ DOMAIN prefixes' \subseteq DOMAIN prefixes
         /\ \A g \in DOMAIN prefixes' : prefixes'[g] = prefixes[g]
         /\ control.gen \in DOMAIN prefixes => control.gen \in DOMAIN prefixes'
<1>1. prefixes' = [g \in {control.gen} \cap DOMAIN prefixes |-> prefixes[g]]
  BY DEF Cleanup, Restrict
<1>2. volumes' = CleanLast(volumes, control)
  BY Links DEF Cleanup, CleanLast
<1> QED BY <1>1, <1>2

LEMMA AbortStep ==
  ASSUME RwInv, Abort
  PROVE  RwInv'
<1>1. /\ UNCHANGED <<control, volumeNames, boundVars, archived, pc, loaded>>
      /\ pc = "ready" /\ Cleanup /\ gcPc' = "none" /\ target' = 0
  BY DEF Abort, rwVars
<1>2. loaded \in Seq(VolumeControl) /\ Len(loaded) = control.volumes
  BY <1>1, Links DEF RwInv, RwType, Shape
<1>3. control' = control
  BY <1>1
<1> QED BY <1>1, <1>2, <1>3, CleanupIs, CleanStep

LEMMA OpenCleansStep ==
  ASSUME RwInv, OpenCleans
  PROVE  RwInv'
<1>1. /\ UNCHANGED <<control, volumeNames, boundVars, archived, gcPc, target, loaded>>
      /\ pc = "opening" /\ pc' = "ready" /\ Cleanup
  BY DEF OpenCleans, gcVars
<1>2. loaded \in Seq(VolumeControl) /\ Len(loaded) = control.volumes /\ gcPc = "none"
      /\ target \in {0} \cup Commits
  BY <1>1, Links DEF RwInv, RwType, Shape
<1>3. control' = control
  BY <1>1
<1> QED BY <1>1, <1>2, <1>3, CleanupIs, CleanStep

LEMMA SwapVolumeStep ==
  ASSUME RwInv, SwapVolume
  PROVE  RwInv'
<1>1. /\ UNCHANGED <<control, prefixes, volumeNames, boundVars, archived, gcPc, target>>
      /\ pc = "swapped" /\ pc' = "unlinking"
      /\ volumes' = CleanLast(volumes, control)
      /\ loaded' = [v \in 1..control.volumes |-> volumes'[v].control]
  BY Links DEF SwapVolume, gcVars, CleanLast
<1>2. gcPc = "none" /\ target \in {0} \cup Commits
  BY <1>1 DEF RwInv, RwType, Shape
<1>3. volumes' \in [Volumes -> Volume]
  BY <1>1, Facts, CleanKeeps
<1>4. loaded' \in Seq(VolumeControl) /\ Len(loaded') = control.volumes
  <2>1. ASSUME NEW v \in 1..control.volumes PROVE volumes'[v].control \in VolumeControl
    <3>1. v \in Volumes
      BY Facts, ControlType
    <3> QED BY <1>3, <3>1, VolumeIs
  <2>2. loaded' \in [1..control.volumes -> VolumeControl]
    BY <1>1, <2>1
  <2>3. control.volumes \in Nat
    BY Facts
  <2> QED BY <2>2, <2>3
<1> QED BY <1>1, <1>2, <1>4, CleanStep

LEMMA UnlinkStep ==
  ASSUME RwInv, Unlink
  PROVE  RwInv'
<1>1. /\ UNCHANGED <<control, volumes, volumeNames, loaded, gcPc, target, entries, gcs, crashes, archived>>
      /\ pc = "unlinking" /\ pc' = "ready"
      /\ prefixes' = [g \in DOMAIN prefixes \ {control.gen - 1} |-> prefixes[g]]
  BY DEF Unlink, Restrict, gcVars, boundVars
<1>2. /\ control.gen \in DOMAIN prefixes =>
           control.gen \in DOMAIN prefixes' /\ prefixes'[control.gen] = prefixes[control.gen]
  BY <1>1, Facts
<1>3. RwType'
  <2>1. DOMAIN prefixes' \subseteq Gens /\ \A g \in DOMAIN prefixes' : prefixes'[g] \in Seq(Entries)
    BY <1>1 DEF RwInv, RwType
  <2> QED BY <1>1, <2>1 DEF RwInv, RwType
<1>4. gcPc = "none"
  BY <1>1 DEF RwInv, Shape
<1>5. Shape' /\ Temporary' /\ Work'
  BY <1>1, <1>4 DEF RwInv, Shape, Temporary, Work, Working, Appendable, NextGen
<1>6. Files'
  <2>1. Archive(volumes, control, archived, prefixes)
    BY Facts
  <2>2. Archive(volumes, control, archived, prefixes')
    BY <1>2, <2>1 DEF Archive
  <2> QED BY <1>1, <2>2 DEF RwInv, Files
<1> QED BY <1>3, <1>5, <1>6 DEF RwInv

LEMMA CrashStep ==
  ASSUME RwInv, Crash
  PROVE  RwInv'
<1>1. /\ UNCHANGED <<control, prefixes, volumes, volumeNames, entries, gcs, archived>>
      /\ pc' = "down" /\ crashes' = crashes + 1 /\ crashes < MaxCrashes
      /\ loaded' = << >> /\ gcPc' = "none" /\ target' = 0
  BY DEF Crash, storeVars
<1>2. crashes' \in 0..MaxCrashes /\ loaded' \in Seq(VolumeControl)
  <2>1. crashes \in 0..MaxCrashes /\ MaxCrashes \in Nat
    BY ConstantsAssumption DEF RwInv, RwType
  <2> QED BY <1>1, <2>1
<1>3. RwType'
  BY <1>1, <1>2 DEF RwInv, RwType
<1>4. Shape'
  <2>1. control.gen + 0 <= gcs + 1
    BY GenBound, Facts
  <2> QED BY <1>1, <2>1 DEF RwInv, Shape, Appendable
<1>5. Temporary' /\ Work'
  BY <1>1 DEF RwInv, Temporary, Work, Working, Appendable, NextGen
<1> QED BY <1>1, <1>3, <1>4, <1>5, NoFile DEF RwInv

LEMMA OpenLoadsStep ==
  ASSUME RwInv, OpenLoads
  PROVE  RwInv'
<1>1. /\ UNCHANGED <<control, prefixes, volumes, volumeNames, gcPc, target, entries, gcs, crashes, archived>>
      /\ pc = "down" /\ pc' = "opening" /\ loaded' = [v \in 1..control.volumes |-> volumes[v].control]
  BY Links DEF OpenLoads, storeVars, gcVars, boundVars, Load
<1>2. loaded' \in Seq(VolumeControl) /\ Len(loaded') = control.volumes
  <2>1. ASSUME NEW v \in 1..control.volumes PROVE volumes[v].control \in VolumeControl
    <3>1. v \in Volumes
      BY Facts, ControlType
    <3> QED BY <3>1, Facts, VolumeIs
  <2>2. loaded' \in [1..control.volumes -> VolumeControl]
    BY <1>1, <2>1
  <2>3. control.volumes \in Nat
    BY Facts
  <2> QED BY <2>2, <2>3
<1>3. RwType'
  BY <1>1, <1>2 DEF RwInv, RwType
<1>4. gcPc = "none"
  BY <1>1 DEF RwInv, Shape
<1>5. Shape' /\ Temporary' /\ Work'
  BY <1>1, <1>2, <1>4, Links DEF RwInv, Shape, Temporary, Work, Working, Appendable, NextGen
<1> QED BY <1>1, <1>3, <1>5, NoFile DEF RwInv

\* Step 2 of a swap.
LEMMA SwapControlStep ==
  ASSUME RwInv, TreesGrow, SwapControl
  PROVE  RwInv'
<1> DEFINE n == control.volumes
           V == volumes[n]
           p == PrefixOf(prefixes, control.gen)
           t == target
           s == ArchiveOf(t, control.start)
           b == BaseOf(V, n, p)
           g == control.gen + 1
           new == {x \in history[t] \cap Commits : x < control'.start}
<1>1. /\ UNCHANGED <<prefixes, volumes, volumeNames, loaded, entries, gcs, crashes>>
      /\ pc = "ready" /\ gcPc = "done" /\ gcPc # "none" /\ pc' = "swapped" /\ gcPc' = "none" /\ target' = 0
      /\ control' = [control EXCEPT !.gen = g, !.start = NewStart, !.target = t]
      /\ archived' = archived \cup {x \in history[t] \cap Commits : x < NewStart}
  BY DEF SwapControl, boundVars
<1>2. /\ t \in Commits /\ t \in Nat /\ g \in Gens /\ g # control.gen
      /\ V.tmp[control.gen] = Nothing /\ Straight(V, V.control.len)
  BY <1>1, GcFacts
<1>3. /\ volumes \in [Volumes -> Volume] /\ control \in StoreControl /\ archived \in SUBSET Commits
      /\ control.gen \in Nat /\ control.start \in Nat /\ n \in Nat /\ n \in Volumes
      /\ Laid(volumes, control) /\ Place(volumes, control, archived)
      /\ Archive(volumes, control, archived, prefixes)
      /\ p \in Seq(Entries) /\ V \in Volume
  BY Facts
<1>4. NewStart = (IF control.start >= t THEN control.start ELSE t + 1) /\ NewStart \in Nat
  BY <1>2, <1>3 DEF NewStart
<1>5. /\ control' \in StoreControl /\ control'.gen = g /\ control'.start = NewStart
      /\ control'.target = t /\ control'.volumes = n
  BY <1>1, <1>2, <1>3, <1>4 DEF StoreControl
<1>6. archived' = archived \cup new /\ archived' \in SUBSET Commits
  BY <1>1, <1>3, <1>5
<1>7. Working("done", t, control, prefixes, V)
  BY <1>1, Links DEF RwInv, Work
<1>8. /\ g \in DOMAIN prefixes /\ prefixes[g] = Sorted(Snapshot(t))
      /\ control.target < t /\ control.target \in {0} \cup history[t]
      /\ t < control.start => V.tmp[g] = Nothing
      /\ t >= control.start => Writing(V, b, s, g, "done")
  BY <1>7 DEF Working
<1>9. Collected(control, control', t)
  BY <1>4, <1>5, <1>8 DEF Collected
<1> HIDE DEF new, g
<1>10. Laid(volumes, control') /\ Place(volumes, control', archived')
       /\ Archive(volumes, control', archived', prefixes)
  <2>1. CASE t < control.start
    <3>1. /\ Laid(volumes, control') /\ Place(volumes, control', archived)
          /\ Archive(volumes, control', archived, prefixes)
          /\ {x \in history[t] \cap Commits : x < control'.start} \subseteq archived
      BY <1>2, <1>3, <1>5, <1>8, <1>9, <2>1, SwapBehind
    <3>2. archived' = archived
      BY <1>6, <3>1 DEF new
    <3> QED BY <3>1, <3>2
  <2>2. CASE t >= control.start
    <3>1. Len(b) \in Nat /\ (V.control.len # 0 => Len(b) = V.control.len)
      BY ZenonT(40), <1>2, <1>3, BaseIs
    <3>2. ASSUME V.control.len = 0, n # 1, control.target # 0, NEW x \in Snapshot(control.target)
          PROVE  \E i \in 1..Len(b) : b[i].off = x
      <4>1. p = Sorted(Snapshot(control.target)) /\ control.target \in Commits
        BY <1>3, <3>2, ControlType DEF Archive, PrefixOf
      <4>2. PICK i \in 1..Len(p) : p[i] = x
        BY <3>2, <4>1, SnapshotSorted
      <4>3. Len(b) = Len(p) /\ \A j \in 1..Len(p) : b[j] = [off |-> p[j], poff |-> j]
        <5>1. V \in Volume /\ Straight(V, V.control.len) /\ n \in Nat /\ p \in Seq(Entries)
          BY <1>2, <1>3
        <5> HIDE DEF V, p, n
        <5> QED BY SMTT(30), <3>2, <5>1, BaseIs
      <4>4. b[i] = [off |-> p[i], poff |-> i] /\ i \in 1..Len(b)
        BY <4>3
      <4> QED BY <4>2, <4>4
    <3>3. Archives(s, t, control.start)
      BY <1>2, <1>3, <2>2, ArchiveIsOf
    <3> HIDE DEF b, s, V, p
    <3>4. Ahead(volumes, control, control', t, b, s)
      BY <1>2, <1>5, <1>8, <1>9, <2>2, <3>1, <3>3 DEF Ahead, V
    <3>5. /\ volumes[control.volumes].control.len = 0 /\ control.volumes # 1 /\ control.target # 0
          => \A x \in Snapshot(control.target) : \E i \in 1..Len(b) : b[i].off = x
      BY <3>2 DEF V
    <3>6. Laid(volumes, control')
      BY <1>2, <1>3, <1>5, <3>4, AheadLaid
    <3>7. Place(volumes, control', archived')
      BY <1>2, <1>3, <1>5, <1>6, <3>4, AheadPlace
    <3>8. Archive(volumes, control', archived \cup {x \in history[t] \cap Commits : x < control'.start},
                  prefixes)
      BY <1>2, <1>3, <1>5, <1>8, <3>4, <3>5, AheadArchive
    <3> QED BY <1>6, <3>6, <3>7, <3>8 DEF new
  <2> QED BY <1>2, <1>3, <2>1, <2>2
<1>11. Files'
  BY <1>1, <1>10 DEF Files
<1>12. RwType'
  BY <1>1, <1>5, <1>6 DEF RwInv, RwType
<1>13. Shape'
  <2>1. g + 0 <= gcs + 1
    <3>1. control.gen + 1 <= gcs + 1
      BY <1>1 DEF RwInv, Shape
    <3> QED BY <1>3, <3>1 DEF g
  <2> QED BY <1>1, <1>5, <2>1, Links DEF RwInv, Shape
<1>14. Temporary'
  <2>1. ASSUME NEW v \in Volumes, NEW h \in Gens, h > g + 1 PROVE volumes[v].tmp[h] = Nothing
    <3>1. h > control.gen + 1
      BY <1>3, <2>1 DEF Gens, g
    <3> QED BY <3>1, Links DEF RwInv, Temporary
  <2> QED BY <1>1, <1>5, <2>1, Links DEF Temporary
<1>15. Work'
  BY <1>1 DEF Work, Working
<1> QED BY <1>11, <1>12, <1>13, <1>14, <1>15 DEF RwInv

\* A store that is migrated: its entries are in the first volume, in order.
LEMMA MigratedIs ==
  ASSUME NEW m \in Commits
  PROVE  /\ MigratedVolume(m) \in Volume /\ MigratedVolume(m).tmp = NewVolume.tmp
         /\ MigratedVolume(m).control = [start |-> 0, end |-> m + 1, len |-> m]
         /\ MigratedVolume(m).control \in VolumeControl
         /\ Straight(MigratedVolume(m), m)
         /\ \A o \in 1..m : Has(MigratedVolume(m), m, o)
<1> DEFINE V == MigratedVolume(m)
           f == [i \in 1..m |-> [off |-> i, poff |-> i]]
           h == [i \in 1..m |-> i]
           k == [start |-> 0, end |-> m + 1, len |-> m]
<1>1. m \in Nat \ {0} /\ 1..m \subseteq Entries
  <2>1. m \in Nat \ {0} /\ m \in 1..MaxEntry /\ MaxEntry \in Nat
    BY CommitIs, LastCommit
  <2> QED BY <2>1 DEF Entries
<1>2. f \in Seq([off : Entries, poff : Nat \ {0}]) /\ Len(f) = m
  <2>1. f \in [1..m -> [off : Entries, poff : Nat \ {0}]]
    BY <1>1
  <2> QED BY <1>1, <2>1
<1>3. h \in Seq(Entries) /\ Len(h) = m
  <2>1. h \in [1..m -> Entries]
    BY <1>1
  <2> QED BY <1>1, <2>1
<1>4. \A i \in 1..m : f[i].off = h[i] /\ f[i].poff = i /\ h[i] = i
  OBVIOUS
<1>5. k \in VolumeControl
  BY <1>1 DEF VolumeControl
<1>6. V = [NewVolume EXCEPT !.mapping = f, !.data = h, !.control = k]
  BY DEF MigratedVolume
<1> HIDE DEF V, f, h, k
<1>7. V.mapping = f /\ V.data = h /\ V.control = k /\ V.tmp = NewVolume.tmp
  BY <1>6, NothingIs DEF NewVolume
<1>8. V \in Volume
  BY <1>2, <1>3, <1>5, <1>6, NothingIs DEF Volume
<1>9. Straight(V, m)
  BY <1>1, <1>2, <1>3, <1>4, <1>7 DEF Straight
<1>10. ASSUME NEW o \in 1..m PROVE Has(V, m, o)
  <2>1. V.data[o] = o /\ m \in 0..m /\ m \in Nat
    BY <1>1, <1>4, <1>7
  <2> QED BY <1>9, <2>1, HasIs
<1>11. V.control \in VolumeControl
  BY <1>5, <1>7
<1> QED BY <1>7, <1>8, <1>9, <1>10, <1>11 DEF V, k

LEMMA InitFiles ==
  ASSUME NEW m \in {0} \cup Commits,
         NEW vs \in [Volumes -> Volume], vs[1] = IF m > 0 THEN MigratedVolume(m) ELSE NewVolume,
         NEW c \in StoreControl, c.volumes = 1, c.target = 0, c.start = m + 1, NEW pre
  PROVE  /\ Laid(vs, c) /\ Place(vs, c, Commits \cap 1..m)
         /\ Archive(vs, c, Commits \cap 1..m, pre)
<1> DEFINE V == vs[1]
           ar == Commits \cap 1..m
           k == Covering(vs, c, 1)
<1>0. 1 \in Volumes /\ c.gen \in Gens
  BY ControlType, ConstantsAssumption DEF Volumes
<1>1. m \in Nat
  <2>1. \A x : x \in Commits => x \in Nat
    BY ConstantsAssumption
  <2>2. m = 0 \/ m \in Commits
    OBVIOUS
  <2> QED BY <2>1, <2>2
<1>2. 1..c.volumes = {1} /\ 1..c.volumes - 1 = {}
  OBVIOUS
<1>3. ASSUME NEW W \in Volume, W.tmp = NewVolume.tmp PROVE Clean(W, c.gen) = W
  BY <1>0, <1>3, NothingIs, CleanIs
<1>4. CASE m = 0
  <2>1. V = NewVolume
    BY <1>4
  <2>2. k = Nothing
    BY <1>3, <2>1, NothingIs DEF Covering
  <2>3. Nothing.len = 0
    BY DEF Nothing
  <2>4. Straight(V, 0)
    BY <2>1 DEF Straight, NewVolume
  <2>5. Older(vs[1].control, k)
    BY <2>1, NothingIs DEF Older
  <2> HIDE DEF k
  <2>6. Laid(vs, c)
    BY <1>2, <2>2, <2>3, <2>4, <2>5 DEF Laid, k
  <2>7. ar = {}
    BY <1>4
  <2>8. Joined(c) /\ c.start - 1 = 0
    BY <1>4 DEF Joined
  <2>9. Place(vs, c, ar)
    BY <1>2, <2>2, <2>3, <2>8 DEF Place, k
  <2>10. Archive(vs, c, ar, pre)
    BY <2>7 DEF Archive, Covers
  <2> QED BY <2>6, <2>9, <2>10
<1>5. CASE m # 0
  <2>1. m \in Commits /\ m > 0
    BY <1>1, <1>5
  <2>2. V = MigratedVolume(m)
    BY <2>1
  <2>3. /\ V \in Volume /\ V.tmp = NewVolume.tmp
        /\ V.control = [start |-> 0, end |-> m + 1, len |-> m]
        /\ Straight(V, m) /\ \A o \in 1..m : Has(V, m, o)
    BY <2>1, <2>2, MigratedIs
  <2> HIDE DEF V
  <2>4. k = [start |-> 0, end |-> m + 1, len |-> m]
    BY <1>3, <2>3 DEF Covering, V
  <2> HIDE DEF k
  <2>5. k.start = 0 /\ k.end = m + 1 /\ k.len = m /\ k.len # 0 /\ k = V.control
    BY <1>5, <2>3, <2>4
  <2>6. Older(V.control, k)
    BY <1>1, <2>5 DEF Older
  <2>7. Laid(vs, c)
    <3>1. k.start < k.end /\ Straight(V, k.len)
      BY <1>1, <2>3, <2>5
    <3> QED BY <1>2, <2>5, <2>6, <3>1 DEF Laid, k, V
  <2>8. ASSUME NEW o \in 1..m PROVE InRange(k, o) /\ Has(V, k.len, o)
    BY <1>1, <2>3, <2>5 DEF InRange
  <2>9. c.start - 1 = m /\ ~ Stuck(vs, c) /\ ~ Joined(c)
    BY <1>1, <1>5 DEF Stuck, Joined
  <2>10. Migrated(vs, c, ar)
    BY <1>1, <2>8, <2>9 DEF Migrated, k, V
  <2>11. Place(vs, c, ar)
    BY <1>2, <2>1, <2>5, <2>9, <2>10 DEF Place, k
  <2>12. Covers(vs, CoveringAll(vs, c, 1), ar)
    <3> DEFINE cs == CoveringAll(vs, c, 1)
    <3>1. Len(cs) = 1 /\ cs[1] = k
      BY DEF CoveringAll, k
    <3> HIDE DEF cs
    <3>2. ASSUME NEW x \in ar PROVE Snapshot(x) \subseteq 1..m /\ x \in 1..m
      <4>1. Snapshot(x) \subseteq 1..x /\ x \in 1..m
        BY SnapshotNat
      <4> QED BY <1>1, <4>1
    <3>3. 1 \in 1..Len(cs)
      BY <3>1
    <3>4. ASSUME NEW x \in ar PROVE InOne(vs, cs, x)
      <4>1. InRange(cs[1], x) /\ \A d \in Snapshot(x) : Has(vs[1], cs[1].len, d)
        BY <2>8, <3>1, <3>2 DEF V
      <4> QED BY <3>3, <4>1 DEF InOne
    <3>5. ASSUME NEW x \in ar, NEW d \in Snapshot(x) PROVE InOwn(vs, cs, d)
      <4>1. InRange(cs[1], d) /\ Has(vs[1], cs[1].len, d)
        BY <2>8, <3>1, <3>2 DEF V
      <4> QED BY <3>3, <4>1 DEF InOwn
    <3> HIDE DEF ar
    <3>6. Covers(vs, cs, ar)
      BY <3>4, <3>5 DEF Covers
    <3> QED BY <3>6 DEF cs, ar
  <2>13. ASSUME NEW d \in ar PROVE history[d] \cap Commits \subseteq ar
    <3>1. history[d] \subseteq 1..d /\ d \in 1..m
      BY HistoryWithin
    <3>2. \A x \in 1..d : x \in 1..m
      BY <1>1, <3>1
    <3> QED BY <3>1, <3>2
  <2>14. Archive(vs, c, ar, pre)
    BY <2>9, <2>12, <2>13 DEF Archive
  <2> QED BY <2>7, <2>11, <2>14
<1> QED BY <1>4, <1>5

LEMMA InitInv ==
  ASSUME Init
  PROVE  IInv
<1>1. PICK m \in Migrations :
        /\ entries = m
        /\ control = [gen |-> IF m = 0 THEN 0 ELSE 1, start |-> m + 1, target |-> 0, volumes |-> 1]
        /\ prefixes = [g \in 1..(IF m = 0 THEN 0 ELSE 1) |-> << >>]
        /\ volumes = [v \in Volumes |-> IF v = 1 /\ m > 0 THEN MigratedVolume(m) ELSE NewVolume]
        /\ volumeNames = {1}
        /\ pc = "ready"
        /\ loaded = << IF m > 0 THEN MigratedVolume(m).control ELSE Nothing >>
        /\ gcPc = "none" /\ target = 0
        /\ gcs = 0 /\ crashes = 0
        /\ roPc = "closed" /\ roControl = control
        /\ roPrefix = << >> /\ roLoaded = << >>
        /\ archived = Commits \cap 1..m /\ roArchived = {}
  BY DEF Init
<1>2. m \in {0} \cup Commits
  BY ConstantsAssumption
<1>3. m \in Nat /\ (m > 0 => m \in Commits)
  <2>1. \A x : x \in Commits => x \in Nat
    BY ConstantsAssumption
  <2>2. m = 0 \/ m \in Commits
    BY <1>2
  <2> QED BY <2>1, <2>2
<1>4. 1 \in Volumes /\ 0 \in Gens /\ 1 \in Gens /\ MaxGcs \in Nat /\ MaxCrashes \in Nat
  BY ConstantsAssumption DEF Volumes, Gens
<1>5. /\ control \in StoreControl /\ control.gen \in {0, 1} /\ control.start = m + 1
      /\ control.target = 0 /\ control.volumes = 1
  BY <1>1, <1>3, <1>4 DEF StoreControl
<1>6. volumes \in [Volumes -> Volume]
  <2>1. ASSUME NEW v \in Volumes
        PROVE  (IF v = 1 /\ m > 0 THEN MigratedVolume(m) ELSE NewVolume) \in Volume
    BY <1>3, NothingIs, MigratedIs
  <2> QED BY <1>1, <2>1
<1>7. volumes[1] = IF m > 0 THEN MigratedVolume(m) ELSE NewVolume
  BY <1>1, <1>4
<1>8. loaded \in Seq(VolumeControl) /\ Len(loaded) = 1
  <2>1. (IF m > 0 THEN MigratedVolume(m).control ELSE Nothing) \in VolumeControl
    BY <1>3, NothingIs, MigratedIs
  <2> QED BY <1>1, <2>1
<1>9. DOMAIN prefixes \subseteq Gens /\ \A g \in DOMAIN prefixes : prefixes[g] \in Seq(Entries)
  <2>1. << >> \in Seq(Entries) /\ DOMAIN prefixes \subseteq {1}
    BY <1>1
  <2> QED BY <1>1, <1>4, <2>1
<1>10. RwType
  BY <1>1, <1>2, <1>4, <1>5, <1>6, <1>8, <1>9 DEF RwType
<1>11. Shape
  <2>1. \A v \in Volumes : v > 1 => volumes[v] = NewVolume
    BY <1>1
  <2>2. control.gen + 0 <= gcs + 1
    BY <1>1, <1>5
  <2> QED BY <1>1, <1>5, <1>8, <2>1, <2>2, Links DEF Shape
<1>12. Temporary
  <2>1. ASSUME NEW v \in Volumes, NEW g \in Gens PROVE volumes[v].tmp[g] = Nothing
    <3>1. volumes[v].tmp = NewVolume.tmp
      BY <1>1, <1>3, MigratedIs
    <3> QED BY <3>1, NothingIs
  <2> QED BY <1>4, <1>5, <2>1, Links DEF Temporary
<1>13. Files
  BY <1>1, <1>2, <1>5, <1>6, <1>7, InitFiles DEF Files
<1>14. Work
  BY <1>1 DEF Work, Working
<1>15. RoType
  <2>1. << >> \in Seq(VolumeControl) /\ << >> \in Seq(Entries)
    OBVIOUS
  <2> QED BY <1>1, <1>5, <2>1 DEF RoType
<1> QED BY <1>10, <1>11, <1>12, <1>13, <1>14, <1>15 DEF IInv, RwInv

\* The reader changes nothing of the others.
LEMMA ReaderStep ==
  ASSUME RwInv, UNCHANGED <<storeVars, rwVars, gcVars, boundVars, archived>>
  PROVE  RwInv'
<1>1. UNCHANGED <<control, prefixes, volumes, volumeNames, pc, loaded, gcPc, target, entries, gcs,
                  crashes, archived>>
  BY DEF storeVars, rwVars, gcVars, boundVars
<1> QED BY <1>1 DEF RwInv, RwType, Shape, Temporary, Files, Work, Appendable, NextGen

LEMMA LoadIs ==
  ASSUME RwInv, NEW n \in Volumes
  PROVE  /\ Load(n) \in Seq(VolumeControl) /\ Len(Load(n)) = n
         /\ \A v \in 1..n : Load(n)[v] = volumes[v].control /\ v \in Volumes
<1>1. n \in Nat /\ \A v \in 1..n : v \in Volumes
  BY ConstantsAssumption DEF Volumes
<1>2. ASSUME NEW v \in 1..n PROVE volumes[v].control \in VolumeControl
  BY <1>1, Facts, VolumeIs
<1>3. Load(n) = [v \in 1..n |-> volumes[v].control]
  BY DEF Load
<1>4. Load(n) \in [1..n -> VolumeControl]
  BY <1>2, <1>3
<1> QED BY <1>1, <1>3, <1>4

\* No other step changes what the reader has.
LEMMA RoSteps ==
  ASSUME [Next]_vars
  PROVE  RoReadsControl \/ RoLoads \/ UNCHANGED roVars
<1>1. CASE Commit \/ (\E c \in Commits : StartGc(c)) \/ AddCreates \/ AddCounts
  BY <1>1 DEF Commit, StartGc, AddCreates, AddCounts
<1>2. CASE WorkerPrefix \/ WorkerArchives \/ WorkerData \/ WorkerMapping \/ WorkerControl
  BY <1>2 DEF WorkerPrefix, WorkerArchives, WorkerData, WorkerMapping, WorkerControl
<1>3. CASE Abort \/ SwapControl \/ SwapVolume \/ Unlink
  BY <1>3 DEF Abort, SwapControl, SwapVolume, Unlink
<1>4. CASE Crash \/ OpenLoads \/ OpenCleans
  BY <1>4 DEF Crash, OpenLoads, OpenCleans
<1>5. CASE UNCHANGED vars
  BY <1>5 DEF vars, roVars
<1> QED BY <1>1, <1>2, <1>3, <1>4, <1>5 DEF Next

LEMMA RoTypeStep ==
  ASSUME IInv, [Next]_vars
  PROVE  RoType'
<1>1. CASE RoReadsControl
  <2>1. control \in StoreControl /\ archived \in SUBSET Commits
    BY Facts DEF IInv
  <2> QED BY <1>1, <2>1 DEF IInv, RoType, RoReadsControl
<1>2. CASE RoLoads
  <2>1. roControl.volumes \in Volumes
    BY DEF IInv, RoType, StoreControl
  <2>2. Load(roControl.volumes) \in Seq(VolumeControl)
    BY <2>1, LoadIs DEF IInv
  <2>3. Prefix(roControl.gen) \in Seq(Entries)
    <3>1. << >> \in Seq(Entries)
      OBVIOUS
    <3> QED BY <3>1 DEF IInv, RwInv, RwType, Prefix
  <2>4. << >> \in Seq(VolumeControl) /\ << >> \in Seq(Entries)
    OBVIOUS
  <2> QED BY <1>2, <2>2, <2>3, <2>4 DEF IInv, RoType, RoLoads
<1>3. CASE UNCHANGED roVars
  BY <1>3 DEF IInv, RoType, roVars
<1>4. RoReadsControl \/ RoLoads \/ UNCHANGED roVars
  BY RoSteps
<1> QED BY <1>1, <1>2, <1>3, <1>4

\* The files and the main process keep the invariant.
LEMMA Step ==
  ASSUME IInv, TreesGrow, Never({"addBehind", "forked", "staleControl"}), [Next]_vars
  PROVE  IInv'
<1>1. RwInv
  BY DEF IInv
<1>2. Never({"addBehind"}) /\ Never({"forked", "staleControl"})
  BY DEF Never
<1>3. CASE Commit
  BY <1>1, <1>3, CommitStep, RoTypeStep DEF IInv
<1>4. CASE \E c \in Commits : StartGc(c)
  BY <1>1, <1>2, <1>4, StartGcStep, RoTypeStep DEF IInv
<1>5. CASE AddCreates
  BY <1>1, <1>2, <1>5, AddCreatesStep, RoTypeStep DEF IInv
<1>6. CASE AddCounts
  BY <1>1, <1>6, AddCountsStep, RoTypeStep DEF IInv
<1>7. CASE WorkerPrefix
  BY <1>1, <1>7, WorkerPrefixStep, RoTypeStep DEF IInv
<1>8. CASE WorkerArchives
  BY <1>1, <1>8, WorkerArchivesStep, RoTypeStep DEF IInv
<1>9. CASE WorkerData
  BY <1>1, <1>9, WorkerDataStep, RoTypeStep DEF IInv
<1>10. CASE WorkerMapping
  BY <1>1, <1>10, WorkerMappingStep, RoTypeStep DEF IInv
<1>11. CASE WorkerControl
  BY <1>1, <1>11, WorkerControlStep, RoTypeStep DEF IInv
<1>12. CASE Abort
  BY <1>1, <1>12, AbortStep, RoTypeStep DEF IInv
<1>13. CASE SwapControl
  BY <1>1, <1>13, SwapControlStep, RoTypeStep DEF IInv
<1>14. CASE SwapVolume
  BY <1>1, <1>14, SwapVolumeStep, RoTypeStep DEF IInv
<1>15. CASE Unlink
  BY <1>1, <1>15, UnlinkStep, RoTypeStep DEF IInv
<1>16. CASE Crash
  BY <1>1, <1>16, CrashStep, RoTypeStep DEF IInv
<1>17. CASE OpenLoads
  BY <1>1, <1>17, OpenLoadsStep, RoTypeStep DEF IInv
<1>18. CASE OpenCleans
  BY <1>1, <1>18, OpenCleansStep, RoTypeStep DEF IInv
<1>19. CASE RoReadsControl \/ RoLoads
  <2>1. UNCHANGED <<storeVars, rwVars, gcVars, boundVars, archived>>
    BY <1>19 DEF RoReadsControl, RoLoads
  <2> QED BY <1>1, <2>1, ReaderStep, RoTypeStep DEF IInv
<1>20. CASE UNCHANGED vars
  <2>1. UNCHANGED <<storeVars, rwVars, gcVars, boundVars, archived>>
    BY <1>20 DEF vars
  <2> QED BY <1>1, <2>1, ReaderStep, RoTypeStep DEF IInv
<1> QED BY <1>3, <1>4, <1>5, <1>6, <1>7, <1>8, <1>9, <1>10, <1>11, <1>12, <1>13, <1>14, <1>15,
           <1>16, <1>17, <1>18, <1>19, <1>20 DEF Next
-----------------------------------------------------------------------------
(* What is read. *)

Apart(cs) ==
  \A v, w \in 1..Len(cs) : \A o \in Nat : InRange(cs[v], o) /\ InRange(cs[w], o) => v = w

\* What the control files of volumes cover is read, by them alone.
LEMMA CoversReads ==
  ASSUME NEW cs, Len(cs) \in Nat, NEW S, S \subseteq Commits, Covers(volumes, cs, S), Apart(cs),
         NEW c \in S, NEW k, NEW pre
  PROVE  /\ CanReadCommit(k, pre, cs, c)
         /\ Holders(cs, c) # {}
         /\ \A d \in Snapshot(c) : InVolume(Holder(cs, c), cs[Holder(cs, c)].len, d)
<1>0. \A v, len, o : InVolume(v, len, o) <=> Has(volumes[v], len, o)
  BY DEF InVolume, Has
<1>1. ASSUME NEW o \in Nat, NEW v \in 1..Len(cs), InRange(cs[v], o)
      PROVE  Holders(cs, o) # {} /\ Holder(cs, o) = v
  <2>1. Holders(cs, o) = {v}
    BY <1>1 DEF Holders, InRange, Apart
  <2> QED BY <2>1 DEF Holder
<1>2. c \in Nat /\ Snapshot(c) \subseteq Nat /\ c \in Snapshot(c)
  BY SnapshotNat, CommitIs
<1>3. \A d \in Snapshot(c) : CanRead(k, pre, cs, d)
  <2> SUFFICES ASSUME NEW d \in Snapshot(c) PROVE CanRead(k, pre, cs, d)
    OBVIOUS
  <2>1. PICK v \in 1..Len(cs) : InRange(cs[v], d) /\ Has(volumes[v], cs[v].len, d)
    BY DEF Covers, InOwn
  <2>2. Holders(cs, d) # {} /\ Holder(cs, d) = v
    BY <1>1, <1>2, <2>1
  <2> QED BY <1>0, <2>1, <2>2 DEF CanRead
<1>4. PICK v \in 1..Len(cs) :
        InRange(cs[v], c) /\ \A d \in Snapshot(c) : Has(volumes[v], cs[v].len, d)
  BY DEF Covers, InOne
<1>5. Holders(cs, c) # {} /\ Holder(cs, c) = v
  BY <1>1, <1>2, <1>4
<1>6. Direct(c) \subseteq Snapshot(c)
  BY DEF Snapshot
<1>7. \A d \in Snapshot(c) : InVolume(Holder(cs, c), cs[Holder(cs, c)].len, d)
  BY <1>0, <1>4, <1>5
<1>8. CanReadCommit(k, pre, cs, c)
  BY <1>2, <1>3, <1>6, <1>7 DEF CanReadCommit
<1> QED BY <1>5, <1>7, <1>8

\* The control files that cover the volumes have ranges that are apart.
LEMMA CoveringApart ==
  ASSUME NEW vs \in [Volumes -> Volume], NEW c \in StoreControl, Laid(vs, c)
  PROVE  Apart(CoveringAll(vs, c, c.volumes)) /\ Len(CoveringAll(vs, c, c.volumes)) = c.volumes
<1>1. c.volumes \in Nat
  BY ControlType
<1>2. Len(CoveringAll(vs, c, c.volumes)) = c.volumes
      /\ \A v \in 1..c.volumes : CoveringAll(vs, c, c.volumes)[v] = Covering(vs, c, v)
  BY <1>1 DEF CoveringAll
<1> QED BY <1>2, RangesApart DEF Apart

LEMMA RecoverableIs ==
  ASSUME RwInv
  PROVE  Recoverable
<1> DEFINE cs == CoveringAll(volumes, control, control.volumes)
           ds == [v \in 1..Appendable |->
                    IF v = Appendable THEN CleanVolume(v).control ELSE volumes[v].control]
<1>1. ds = cs
  BY Links DEF CoveringAll, Covering
<1>2. Covers(volumes, cs, archived) /\ Apart(cs) /\ Len(cs) \in Nat /\ archived \subseteq Commits
  <2>1. /\ volumes \in [Volumes -> Volume] /\ control \in StoreControl /\ archived \in SUBSET Commits
        /\ Laid(volumes, control) /\ Archive(volumes, control, archived, prefixes)
        /\ control.volumes \in Nat
    BY Facts
  <2> QED BY <2>1, CoveringApart DEF Archive
<1> HIDE DEF cs, ds
<1>3. \A c \in archived : CanReadCommit(control, Prefix(control.gen), ds, c)
  BY <1>1, <1>2, CoversReads
<1> QED BY <1>3 DEF Recoverable, ds

LEMMA SelfContainedIs ==
  ASSUME RwInv
  PROVE  SelfContained
<1> DEFINE cs == CoveringAll(volumes, control, control.volumes)
<1> SUFFICES ASSUME pc = "ready",  NEW c \in archived
             PROVE  LET ds == Load(Appendable)
                    IN  /\ Holders(ds, c) # {}
                        /\ \A d \in Snapshot(c) : InVolume(Holder(ds, c), ds[Holder(ds, c)].len, d)
  BY DEF SelfContained
<1>1. Load(Appendable) = cs
  <2>1. volumes[control.volumes].tmp[control.gen] = Nothing
    BY Links DEF RwInv, Temporary
  <2>2. Clean(volumes[control.volumes], control.gen) = volumes[control.volumes]
    BY <2>1, Facts, CleanIs
  <2>3. ASSUME NEW v \in 1..control.volumes
        PROVE  volumes[v].control = Covering(volumes, control, v)
    BY <2>2 DEF Covering
  <2> QED BY <2>3, Links DEF Load, CoveringAll
<1>2. Covers(volumes, cs, archived) /\ Apart(cs) /\ Len(cs) \in Nat /\ archived \subseteq Commits
  <2>1. /\ volumes \in [Volumes -> Volume] /\ control \in StoreControl /\ archived \in SUBSET Commits
        /\ Laid(volumes, control) /\ Archive(volumes, control, archived, prefixes)
        /\ control.volumes \in Nat
    BY Facts
  <2> QED BY <2>1, CoveringApart DEF Archive
<1> HIDE DEF cs
<1> QED BY <1>1, <1>2, CoversReads

LEMMA TypeIs ==
  ASSUME IInv
  PROVE  TypeOK
<1>1. ASSUME NEW v \in Volumes
      PROVE  /\ volumes[v].mapping \in Seq([off : Entries, poff : Nat \ {0}])
             /\ volumes[v].data \in Seq(Entries)
             /\ volumes[v].control \in VolumeControl
             /\ volumes[v].tmp \in [Gens -> VolumeControl]
  BY DEF IInv, RwInv, RwType, Volume
<1> QED BY <1>1 DEF IInv, RwInv, RwType, RoType, TypeOK
-----------------------------------------------------------------------------
(* No collection is refused. *)

\* With an object in each commit, the last target is not where the suffix starts.
LEMMA NeverStuck ==
  ASSUME RwInv, ObjectsAdded
  PROVE  ~ Stuck(volumes, control)
<1> SUFFICES ASSUME control.target = control.start PROVE FALSE
  BY DEF Stuck
<1>1. control.start \in Nat /\ control.target \in {0} \cup Commits
  BY Facts, ControlType
<1>2. control.start - 1 \in {0} \cup Commits
  BY Facts DEF Place
<1>3. CASE control.start = 0
  <2>1. control.start - 1 \notin Nat
    BY <1>3
  <2> QED BY <1>2, <2>1, CommitIs
<1>4. CASE control.start \in Commits
  BY <1>2, <1>4 DEF ObjectsAdded
<1> QED BY <1>1, <1>3, <1>4

LEMMA AcceptedStep ==
  ASSUME RwInv, ObjectsAdded, ArchiveAccepted, [Next]_vars
  PROVE  ArchiveAccepted'
<1>1. CASE WorkerArchives
  <2> DEFINE n == control.volumes
             k == volumes[n].control
             s == ArchiveOf(target, control.start)
  <2>1. gcPc = "archive" /\ gcPc # "none"
    BY <1>1 DEF WorkerArchives
  <2>2. target \in Commits /\ target \in Nat /\ control.start \in Nat /\ n \in 1..n
        /\ Covering(volumes, control, n) = k /\ Laid(volumes, control)
        /\ Place(volumes, control, archived) /\ k.end \in Nat
    BY <2>1, GcFacts, Facts, VolumeIs
  <2>3. k.end <= control.start
    <3>1. CASE k.len = 0
      BY <2>2, <3>1 DEF Laid, Nothing
    <3>2. CASE k.len # 0
      BY <2>2, <3>2, NeverStuck DEF Place
    <3> QED BY <3>1, <3>2
  <2>4. CASE target < control.start
    <3>1. s = << >>
      BY <2>2, <2>4, ArchiveIs
    <3> QED BY <1>1, <3>1, Links DEF WorkerArchives, ArchiveAccepted
  <2>5. CASE target >= control.start
    <3>1. s \in Seq(Entries) /\ Len(s) >= 1 /\ s[1] >= control.start
      BY <2>2, <2>5, ArchiveIsOf DEF Archives
    <3>2. s[1] \in Nat
      <4>1. s[1] \in Entries
        BY <3>1
      <4> QED BY <4>1 DEF Entries
    <3>3. ~ (k.end > s[1])
      BY <2>2, <2>3, <3>1, <3>2
    <3> HIDE DEF s, k
    <3>4. ~ (volumes[Appendable].control.end > ToArchive[1])
      BY <3>3, Links DEF s, k
    <3> QED BY <1>1, <3>4 DEF WorkerArchives, ArchiveAccepted
  <2> QED BY <2>2, <2>4, <2>5
<1>2. CASE Commit \/ (\E c \in Commits : StartGc(c)) \/ AddCreates \/ AddCounts
  BY <1>2 DEF Commit, StartGc, AddCreates, AddCounts, ArchiveAccepted, gcVars
<1>3. CASE WorkerPrefix \/ WorkerData \/ WorkerMapping \/ WorkerControl
  BY <1>3 DEF WorkerPrefix, WorkerData, WorkerMapping, WorkerControl, ArchiveAccepted
<1>4. CASE Abort \/ SwapControl \/ SwapVolume \/ Unlink
  BY <1>4 DEF Abort, SwapControl, SwapVolume, Unlink, ArchiveAccepted, gcVars
<1>5. CASE Crash \/ OpenLoads \/ OpenCleans
  BY <1>5 DEF Crash, OpenLoads, OpenCleans, ArchiveAccepted, gcVars
<1>6. CASE RoReadsControl \/ RoLoads \/ UNCHANGED vars
  BY <1>6 DEF RoReadsControl, RoLoads, vars, ArchiveAccepted, gcVars
<1> QED BY <1>1, <1>2, <1>3, <1>4, <1>5, <1>6 DEF Next
-----------------------------------------------------------------------------
(* What the main process and a reader have in memory. *)

\* Newer control files cover what older ones did.
LEMMA OlderThan ==
  ASSUME NEW k \in VolumeControl, NEW l \in VolumeControl, NEW m \in VolumeControl,
         Older(k, l), Older(l, m)
  PROVE  Older(k, m)
<1>1. k.len \in Nat /\ l.len \in Nat /\ m.len \in Nat /\ k.end \in Nat /\ l.end \in Nat
      /\ m.end \in Nat
  BY DEF VolumeControl
<1>2. CASE k = Nothing
  BY <1>2 DEF Older
<1>3. CASE k # Nothing
  <2>1. k.len # 0 /\ k.start = l.start /\ k.end <= l.end /\ k.len <= l.len
    BY <1>3 DEF Older
  <2>2. l # Nothing
    BY <1>1, <2>1 DEF Nothing
  <2>3. l.start = m.start /\ l.end <= m.end /\ l.len <= m.len
    BY <2>2 DEF Older
  <2> QED BY <1>1, <2>1, <2>3 DEF Older
<1> QED BY <1>2, <1>3

LEMMA OlderLength ==
  ASSUME NEW k \in VolumeControl, NEW l \in VolumeControl, Older(k, l)
  PROVE  k.len \in Nat /\ l.len \in Nat /\ k.len <= l.len /\ Older(k, k)
<1>1. k.len \in Nat /\ l.len \in Nat /\ k.end \in Nat
  BY DEF VolumeControl
<1>2. CASE k = Nothing
  BY <1>1, <1>2 DEF Older, Nothing
<1>3. CASE k # Nothing
  BY <1>1, <1>3 DEF Older
<1> QED BY <1>2, <1>3

\* The control file of a volume does not change; the one of the store does.
LEMMA GrowsSame ==
  ASSUME NEW vs \in [Volumes -> Volume], NEW c \in StoreControl, NEW d \in StoreControl,
         Laid(vs, c), Laid(vs, d), c.volumes <= d.volumes, vs[c.volumes].tmp[c.gen] = Nothing,
         NEW v \in 1..c.volumes
  PROVE  Better(vs[v], vs[v], Covering(vs, c, v), Covering(vs, d, v))
<1> DEFINE n == c.volumes
           k == Covering(vs, c, v)
           l == Covering(vs, d, v)
<1>1. n \in Nat /\ n \in Volumes /\ c.gen \in Gens /\ v \in Volumes /\ d.volumes \in Nat
  BY ControlType
<1>2. v \in 1..d.volumes
  BY <1>1
<1>3. k \in VolumeControl /\ l \in VolumeControl /\ k.len \in Nat /\ k.end \in Nat
  BY <1>1, CoveringType
<1>4. k = vs[v].control
  <2>1. Clean(vs[n], c.gen) = vs[n]
    BY <1>1, CleanIs
  <2> QED BY <2>1 DEF Covering
<1>5. Straight(vs[v], k.len) /\ Straight(vs[v], l.len) /\ (k.len = 0 => k = Nothing)
  BY <1>2 DEF Laid
<1>6. Older(k, l)
  <2>1. CASE v = d.volumes
    BY <1>4, <2>1 DEF Laid
  <2>2. CASE v # d.volumes
    <3>1. l = k
      BY <1>4, <2>2 DEF Covering
    <3> HIDE DEF k, l
    <3> QED BY <1>3, <1>5, <3>1 DEF Older
  <2> QED BY <2>1, <2>2
<1> HIDE DEF k, l
<1>7. Better(vs[v], vs[v], k, l)
  BY <1>3, <1>5, <1>6 DEF Better
<1> QED BY <1>7 DEF k, l

\* A reader keeps what it covers when the volumes have more.
LEMMA ReaderKept ==
  ASSUME NEW vs \in [Volumes -> Volume], NEW ws, NEW c \in StoreControl, NEW d \in StoreControl,
         \A v \in 1..c.volumes : Better(vs[v], ws[v], Covering(vs, c, v), Covering(ws, d, v)),
         c.volumes <= d.volumes, c.gen <= d.gen,
         d.gen = c.gen => d.start = c.start /\ d.target = c.target,
         NEW r \in StoreControl, NEW rpc, NEW rl \in Seq(VolumeControl), NEW ra \in SUBSET Commits,
         Reader(vs, c, r, rpc, rl, ra)
  PROVE  Reader(ws, d, r, rpc, rl, ra)
<1>1. /\ c.volumes \in Nat /\ d.volumes \in Nat /\ r.volumes \in Nat /\ c.gen \in Nat /\ d.gen \in Nat
      /\ r.gen \in Nat
  BY ControlType
<1>2. r.volumes <= d.volumes /\ r.gen <= d.gen /\ (r.gen = d.gen => r.gen = c.gen)
  BY <1>1 DEF Reader
<1>3. r.gen = d.gen => r.start = d.start /\ r.target = d.target
  BY <1>2 DEF Reader
<1>4. ASSUME rpc = "loading" PROVE Covers(ws, CoveringAll(ws, d, r.volumes), ra)
  <2> DEFINE cs == CoveringAll(vs, c, r.volumes)
             ds == CoveringAll(ws, d, r.volumes)
  <2>1. Len(cs) = r.volumes /\ Len(ds) = r.volumes
        /\ \A v \in 1..r.volumes : cs[v] = Covering(vs, c, v) /\ ds[v] = Covering(ws, d, v)
    BY <1>1 DEF CoveringAll
  <2>2. Covers(vs, cs, ra)
    BY <1>4 DEF Reader
  <2>3. \A v \in 1..r.volumes : v \in 1..c.volumes
    BY <1>1 DEF Reader
  <2> HIDE DEF cs, ds
  <2>4. Len(cs) \in Nat /\ Len(ds) \in Nat /\ Len(cs) <= Len(ds)
        /\ \A v \in 1..Len(cs) : Better(vs[v], ws[v], cs[v], ds[v])
    BY <1>1, <2>1, <2>3
  <2>5. Covers(ws, ds, ra)
    BY <2>2, <2>4, CoversKept
  <2> QED BY <2>5 DEF ds
<1>5. ASSUME rpc = "ready"
      PROVE  /\ Len(rl) <= d.volumes
             /\ \A v \in 1..Len(rl) : Older(rl[v], Covering(ws, d, v))
             /\ Covers(ws, rl, ra)
  <2>1. Len(rl) <= c.volumes /\ Len(rl) \in Nat /\ Covers(vs, rl, ra)
        /\ \A v \in 1..Len(rl) : Older(rl[v], Covering(vs, c, v))
    BY <1>5 DEF Reader
  <2>2. ASSUME NEW v \in 1..Len(rl)
        PROVE  Better(vs[v], ws[v], rl[v], rl[v]) /\ Older(rl[v], Covering(ws, d, v))
    <3> DEFINE k == rl[v]
               l == Covering(vs, c, v)
               m == Covering(ws, d, v)
    <3>1. v \in 1..c.volumes
      BY <1>1, <2>1
    <3>2. Better(vs[v], ws[v], l, m)
      BY <3>1
    <3>3. k \in VolumeControl /\ Older(k, l)
      BY <2>1
    <3> HIDE DEF k, l, m
    <3>4. l \in VolumeControl /\ m \in VolumeControl /\ Older(l, m)
      BY <3>2 DEF Better
    <3>5. Older(k, m)
      BY <3>3, <3>4, OlderThan
    <3>6. k.len \in Nat /\ k.len <= l.len /\ l.len \in Nat /\ m.len \in Nat /\ Older(k, k)
          /\ l.len <= m.len
      BY <3>3, <3>4, OlderLength
    <3>7. Straight(vs[v], l.len) /\ Straight(ws[v], m.len)
          /\ \A i \in 1..l.len : ws[v].data[i] = vs[v].data[i]
      BY <3>2 DEF Better
    <3>8. Straight(vs[v], k.len) /\ Straight(ws[v], k.len)
      <4>1. \A i \in 1..k.len : i \in 1..l.len /\ i \in 1..m.len
        BY <3>6
      <4>2. /\ k.len <= Len(vs[v].mapping) /\ k.len <= Len(vs[v].data)
            /\ k.len <= Len(ws[v].mapping) /\ k.len <= Len(ws[v].data)
        <5>1. /\ Len(vs[v].mapping) \in Nat /\ Len(vs[v].data) \in Nat
          <6>1. v \in Volumes
            BY <3>1, ControlType
          <6> QED BY <6>1, VolumeIs
        <5> QED BY SMTT(30), <3>6, <3>7, <5>1 DEF Straight
      <4> QED BY <3>7, <4>1, <4>2 DEF Straight
    <3>9. \A i \in 1..k.len : ws[v].data[i] = vs[v].data[i]
      BY <3>6, <3>7
    <3>10. Better(vs[v], ws[v], k, k)
      BY <3>3, <3>6, <3>8, <3>9 DEF Better
    <3> QED BY <3>5, <3>10 DEF k, m
  <2>3. Covers(ws, rl, ra)
    <3>1. Len(rl) <= Len(rl)
      BY <2>1
    <3> QED BY <2>1, <2>2, <3>1, CoversKept
  <2>4. Len(rl) <= d.volumes
    BY <1>1, <2>1
  <2> QED BY <2>2, <2>3, <2>4
<1> QED BY <1>2, <1>3, <1>4, <1>5 DEF Reader

\* A step in which no file changes, or the worker writes.
LEMMA SameGrows ==
  ASSUME RwInv, control' = control, volumes' = volumes \/ Same(volumes, volumes', control),
         NEW v \in 1..control.volumes
  PROVE  Better(volumes[v], volumes'[v], Covering(volumes, control, v),
                Covering(volumes', control', v))
<1>1. volumes \in [Volumes -> Volume] /\ control \in StoreControl /\ Laid(volumes, control)
      /\ control.volumes \in 1..control.volumes
  BY Facts
<1>2. CASE volumes' = volumes
  <2>1. Keeps(volumes, volumes, control)
    BY <1>1 DEF Keeps, Laid
  <2> QED BY <1>1, <1>2, <2>1, KeepsBetter
<1>3. CASE Same(volumes, volumes', control)
  <2>1. Keeps(volumes, volumes', control)
    BY <1>3 DEF Same
  <2> QED BY <1>1, <2>1, KeepsBetter
<1> QED BY <1>2, <1>3

\* Without a death in the middle of a swap, there is nothing to clean.
LEMMA CleanupDoesNothing ==
  ASSUME RwInv, Known, pc # "swapped", Cleanup
  PROVE  volumes' = volumes
<1>1. volumes \in [Volumes -> Volume] /\ control.gen \in Gens /\ control.volumes \in Volumes
  BY Facts
<1>2. volumes[control.volumes].tmp[control.gen] = Nothing
  BY Links DEF Known
<1>3. Clean(volumes[control.volumes], control.gen) = volumes[control.volumes]
  BY <1>1, <1>2, CleanIs
<1>4. volumes' = [volumes EXCEPT ![control.volumes] = Clean(volumes[control.volumes], control.gen)]
  BY Links DEF Cleanup
<1> QED BY <1>1, <1>3, <1>4

\* How the steps change the files.
LEMMA FileSteps ==
  ASSUME RwInv, Known, Never({"crashSwapped"}), [Next]_vars
  PROVE  \/ /\ control' = control
            /\ volumes' = volumes \/ (pc = "ready" /\ Same(volumes, volumes', control))
            /\ pc' = "swapped" => pc = "swapped"
            /\ pc = "swapped" => pc' = "swapped"
            /\ pc' = "adding" => AddCreates \/ pc = "adding"
            /\ pc' \notin {"swapped", "down"} =>
                 OpenLoads \/ AddCreates \/ (pc \notin {"swapped", "down"} /\ loaded' = loaded)
         \/ AddCounts \/ SwapControl \/ SwapVolume
<1>1. CASE Commit \/ (\E c \in Commits : StartGc(c)) \/ AddCreates \/ WorkerPrefix
  BY <1>1 DEF Commit, StartGc, AddCreates, WorkerPrefix, storeVars, rwVars
<1>2. CASE WorkerArchives \/ WorkerData \/ WorkerMapping \/ WorkerControl
  <2>1. Same(volumes, volumes', control)
    BY <1>2, WorkerArchivesStep, WorkerDataStep, WorkerMappingStep, WorkerControlStep
  <2>2. control' = control /\ pc' = pc /\ loaded' = loaded
    BY <1>2 DEF WorkerArchives, WorkerData, WorkerMapping, WorkerControl, rwVars
  <2>3. pc = "ready"
    <3>1. gcPc # "none"
      BY <1>2 DEF WorkerArchives, WorkerData, WorkerMapping, WorkerControl
    <3> QED BY <3>1, GcFacts
  <2> QED BY <2>1, <2>2, <2>3
<1>3. CASE Abort \/ OpenCleans
  <2>1. control' = control /\ Cleanup /\ pc \in {"ready", "opening"} /\ pc' = "ready" /\ loaded' = loaded
    BY <1>3 DEF Abort, OpenCleans, rwVars
  <2>2. volumes' = volumes
    BY <2>1, CleanupDoesNothing
  <2> QED BY <2>1, <2>2
<1>4. CASE Unlink \/ OpenLoads
  BY <1>4 DEF Unlink, OpenLoads, storeVars
<1>5. CASE Crash
  BY <1>5 DEF Crash, storeVars, Never
<1>6. CASE RoReadsControl \/ RoLoads \/ UNCHANGED vars
  BY <1>6 DEF RoReadsControl, RoLoads, vars, storeVars, rwVars
<1> QED BY <1>1, <1>2, <1>3, <1>4, <1>5, <1>6 DEF Next

LEMMA KnownStep ==
  ASSUME RwInv, Known, Never({"crashSwapped"}), [Next]_vars
  PROVE  Known'
<1> DEFINE n == control.volumes
<1>0. /\ volumes \in [Volumes -> Volume] /\ control \in StoreControl /\ n \in Volumes
      /\ n \in Nat \ {0} /\ control.gen \in Gens /\ Appendable = n /\ Appendable' = control'.volumes
      /\ \A v \in 1..n : v \in Volumes
  BY Facts, Links, ControlType
<1>1. CASE AddCounts
  <2>1. /\ control' = [control EXCEPT !.volumes = Len(loaded)] /\ volumes' = volumes
        /\ loaded' = loaded /\ pc = "adding" /\ pc' = "ready"
    BY <1>1 DEF AddCounts
  <2>2. Len(loaded) = n + 1 /\ n + 1 \in Volumes
    BY <1>0, <2>1 DEF RwInv, Shape
  <2>3. control'.volumes = n + 1 /\ control'.gen = control.gen
    BY <1>0, <2>1, <2>2 DEF StoreControl
  <2>4. volumes[n + 1] = NewVolume
    <3>1. n + 1 > n
      BY <1>0
    <3> QED BY <1>0, <2>2, <3>1 DEF RwInv, Shape
  <2>5. \A v \in 1..n + 1 : loaded[v] = volumes[v].control
    <3>1. \A v \in 1..n : loaded[v] = volumes[v].control
      BY <1>0, <2>1 DEF Known
    <3>2. loaded[n + 1] = volumes[n + 1].control
      BY <1>0, <2>1, <2>4, NothingIs DEF Known
    <3>3. \A v \in 1..n + 1 : v \in 1..n \/ v = n + 1
      BY <1>0
    <3> QED BY <3>1, <3>2, <3>3
  <2>6. volumes[n + 1].tmp[control.gen] = Nothing
    BY <1>0, <2>4, NothingIs
  <2> QED BY <1>0, <2>1, <2>3, <2>5, <2>6 DEF Known
<1>2. CASE SwapControl
  BY <1>2 DEF SwapControl, Known
<1>3. CASE SwapVolume
  <2>1. /\ control' = control /\ pc' = "unlinking" /\ volumes' = CleanLast(volumes, control)
        /\ loaded' = [v \in 1..n |-> volumes'[v].control]
    BY <1>3, Links DEF SwapVolume, CleanLast
  <2>2. volumes'[n].tmp[control.gen] = Nothing
    BY <2>1, Facts, CleanKeeps
  <2> QED BY <1>0, <2>1, <2>2 DEF Known
<1>4. CASE /\ control' = control
           /\ volumes' = volumes \/ (pc = "ready" /\ Same(volumes, volumes', control))
           /\ pc' = "swapped" => pc = "swapped"
           /\ pc = "swapped" => pc' = "swapped"
           /\ pc' = "adding" => AddCreates \/ pc = "adding"
           /\ pc' \notin {"swapped", "down"} =>
                OpenLoads \/ AddCreates \/ (pc \notin {"swapped", "down"} /\ loaded' = loaded)
  <2>1. \A v \in Volumes : volumes'[v].control = volumes[v].control
    BY <1>4 DEF Same
  <2>2. pc' # "swapped" => volumes'[n].tmp[control.gen] = Nothing
    BY <1>0, <1>4 DEF Same, Known
  <2>3. CASE OpenLoads
    BY <1>0, <2>1, <2>2, <2>3, <1>4 DEF OpenLoads, Load, Known
  <2>4. CASE AddCreates
    <3>1. pc = "ready" /\ pc' = "adding" /\ loaded' = Append(loaded, Nothing)
      BY <2>4 DEF AddCreates
    <3>2. loaded \in Seq(VolumeControl) /\ Len(loaded) = n
      BY <1>0, <3>1 DEF RwInv, RwType, Shape
    <3>3. loaded'[n + 1] = Nothing /\ \A v \in 1..n : loaded'[v] = loaded[v]
      BY <3>1, <3>2, NothingIs
    <3>4. \A v \in 1..n : loaded[v] = volumes[v].control
      BY <1>0, <3>1 DEF Known
    <3>5. \A v \in 1..n : loaded'[v] = volumes'[v].control
      BY <1>0, <2>1, <3>3, <3>4
    <3> QED BY <1>0, <1>4, <2>2, <3>1, <3>3, <3>5 DEF Known
  <2>5. CASE pc' \in {"swapped", "down"}
    BY <1>0, <1>4, <2>2, <2>5 DEF Known
  <2>6. CASE pc \notin {"swapped", "down"} /\ loaded' = loaded /\ ~ AddCreates
    <3>1. \A v \in 1..n : loaded'[v] = volumes'[v].control
      BY <1>0, <2>1, <2>6 DEF Known
    <3>2. pc' = "adding" => loaded'[n + 1] = Nothing
      BY <1>0, <1>4, <2>6 DEF Known
    <3> QED BY <1>0, <1>4, <2>2, <3>1, <3>2 DEF Known
  <2> QED BY <1>4, <2>3, <2>4, <2>5, <2>6
<1> QED BY <1>1, <1>2, <1>3, <1>4, FileSteps

\* The main process and the files change under a reader.
LEMMA RoInvOthers ==
  ASSUME IInv, RwInv', Known, RoInv, Never({"crashSwapped"}), [Next]_vars, UNCHANGED roVars
  PROVE  RoInv'
<1>0. RwInv /\ UNCHANGED <<roPc, roControl, roPrefix, roLoaded, roArchived>>
  BY DEF IInv, roVars
<1>1. /\ volumes \in [Volumes -> Volume] /\ control \in StoreControl /\ Laid(volumes, control)
      /\ control.volumes \in Nat /\ control.gen \in Nat
  BY <1>0, Facts
<1>2. /\ volumes' \in [Volumes -> Volume] /\ control' \in StoreControl /\ Laid(volumes', control')
  BY DEF RwInv, RwType, Files
<1>3. /\ roControl \in StoreControl /\ roLoaded \in Seq(VolumeControl)
      /\ roArchived \in SUBSET Commits
      /\ Reader(volumes, control, roControl, roPc, roLoaded, roArchived)
  BY DEF IInv, RoType, RoInv
<1>4. ASSUME \A v \in 1..control.volumes :
               Better(volumes[v], volumes'[v], Covering(volumes, control, v),
                      Covering(volumes', control', v)),
             control.volumes <= control'.volumes, control.gen <= control'.gen,
             control'.gen = control.gen =>
               control'.start = control.start /\ control'.target = control.target
      PROVE  Reader(volumes, control, roControl, roPc, roLoaded, roArchived)'
  <2>1. Reader(volumes', control', roControl, roPc, roLoaded, roArchived)
    BY <1>1, <1>2, <1>3, <1>4, ReaderKept
  <2> QED BY <1>0, <2>1
<1>5. CASE AddCounts
  <2>1. volumes' = volumes /\ pc = "adding" /\ pc' = "ready"
        /\ control' = [control EXCEPT !.volumes = Len(loaded)]
    BY <1>5 DEF AddCounts
  <2>2. Len(loaded) = control.volumes + 1
    BY <1>0, <2>1, Links DEF RwInv, Shape
  <2>3. /\ control'.volumes = control.volumes + 1 /\ control'.gen = control.gen
        /\ control'.start = control.start /\ control'.target = control.target
    BY <1>1, <2>1, <2>2 DEF StoreControl
  <2>4. volumes[control.volumes].tmp[control.gen] = Nothing /\ control.volumes <= control'.volumes
    BY <1>1, <2>1, <2>3, Links DEF Known
  <2>5. \A v \in 1..control.volumes :
          Better(volumes[v], volumes[v], Covering(volumes, control, v), Covering(volumes, control', v))
    <3>1. Laid(volumes, control')
      BY <1>2, <2>1
    <3> QED BY <1>1, <1>2, <2>4, <3>1, GrowsSame
  <2>6. Reader(volumes, control, roControl, roPc, roLoaded, roArchived)'
    <3>1. control.gen <= control'.gen
      BY <1>1, <2>3
    <3> QED BY <1>4, <2>1, <2>3, <2>4, <2>5, <3>1
  <2> QED BY <2>1, <2>6 DEF RoInv
<1>6. CASE SwapControl
  <2>1. volumes' = volumes /\ pc = "ready" /\ pc' = "swapped"
        /\ control' = [control EXCEPT !.gen = @ + 1, !.start = NewStart, !.target = target]
    BY <1>6 DEF SwapControl
  <2>2. control'.volumes = control.volumes /\ control'.gen = control.gen + 1
    BY <1>1, <2>1 DEF StoreControl
  <2>3. volumes[control.volumes].tmp[control.gen] = Nothing
    BY <2>1, Links DEF Known
  <2>4. \A v \in 1..control.volumes :
          Better(volumes[v], volumes[v], Covering(volumes, control, v), Covering(volumes, control', v))
    <3>1. Laid(volumes, control') /\ control.volumes <= control'.volumes
      BY <1>1, <1>2, <2>1, <2>2
    <3> QED BY <1>1, <1>2, <2>3, <3>1, GrowsSame
  <2>5. Reader(volumes, control, roControl, roPc, roLoaded, roArchived)'
    <3>1. /\ control.gen <= control'.gen /\ control'.gen # control.gen
          /\ control.volumes <= control'.volumes
      BY <1>1, <2>2
    <3> QED BY <1>4, <2>1, <2>4, <3>1
  <2>6. roPc = "loading" => Covers(volumes, Load(roControl.volumes), roArchived)
    <3>1. ASSUME NEW v \in 1..roControl.volumes
          PROVE  Covering(volumes, control, v) = volumes[v].control
      <4>1. Clean(volumes[control.volumes], control.gen) = volumes[control.volumes]
        BY <1>0, <2>3, Facts, CleanIs
      <4> QED BY <4>1 DEF Covering
    <3>2. CoveringAll(volumes, control, roControl.volumes) = Load(roControl.volumes)
      BY <3>1 DEF CoveringAll, Load
    <3> QED BY <1>3, <3>2 DEF Reader
  <2>7. Load(roControl.volumes)' = Load(roControl.volumes)
    BY <1>0, <2>1 DEF Load
  <2> QED BY <1>0, <2>1, <2>5, <2>6, <2>7 DEF RoInv
<1>7. CASE SwapVolume
  <2>1. control' = control /\ pc' = "unlinking" /\ volumes' = CleanLast(volumes, control)
    BY <1>7, Links DEF SwapVolume, CleanLast
  <2>2. Keeps(volumes, volumes', control)
    BY <1>1, <2>1, CleanKeeps
  <2>3. \A v \in 1..control.volumes :
          Better(volumes[v], volumes'[v], Covering(volumes, control, v),
                 Covering(volumes', control', v))
    BY <1>1, <2>1, <2>2, KeepsBetter
  <2>4. control.gen <= control'.gen /\ control.volumes <= control'.volumes
    BY <1>1, <2>1
  <2>5. Reader(volumes, control, roControl, roPc, roLoaded, roArchived)'
    BY <1>4, <2>1, <2>3, <2>4
  <2> QED BY <2>1, <2>5 DEF RoInv
<1>8. CASE /\ control' = control
           /\ volumes' = volumes \/ (pc = "ready" /\ Same(volumes, volumes', control))
           /\ pc' = "swapped" => pc = "swapped"
  <2>1. \A v \in 1..control.volumes :
          Better(volumes[v], volumes'[v], Covering(volumes, control, v),
                 Covering(volumes', control', v))
    BY <1>0, <1>8, SameGrows
  <2>2. control.gen <= control'.gen /\ control.volumes <= control'.volumes
    BY <1>1, <1>8
  <2>3. Reader(volumes, control, roControl, roPc, roLoaded, roArchived)'
    BY <1>4, <1>8, <2>1, <2>2
  <2>4. ASSUME pc' = "swapped" PROVE volumes' = volumes /\ pc = "swapped"
    BY <1>8, <2>4
  <2>5. volumes' = volumes => Load(roControl.volumes)' = Load(roControl.volumes)
    BY <1>0 DEF Load
  <2> QED BY <1>0, <1>8, <2>3, <2>4, <2>5 DEF RoInv
<1> QED BY <1>0, <1>5, <1>6, <1>7, <1>8, FileSteps

\* The reader reads the control file.
LEMMA RoInvReads ==
  ASSUME IInv, RoInv, RoReadsControl
  PROVE  RoInv'
<1>0. RwInv
  BY DEF IInv
<1>1. control \in StoreControl /\ control.gen \in Nat /\ control.volumes \in Nat
      /\ Archive(volumes, control, archived, prefixes)
  BY <1>0, Facts
<1>2. /\ control' = control /\ volumes' = volumes /\ roControl' = control /\ roArchived' = archived
      /\ roLoaded' = roLoaded
      /\ roPc' = IF roPc = "ready" /\ roControl.gen = control.gen
                      /\ roControl.volumes = control.volumes
                 THEN "ready" ELSE "loading"
      /\ roPc = "ready" => roControl # control
  BY DEF RoReadsControl, storeVars
<1>3. ~ (roPc = "ready" /\ roControl.gen = control.gen /\ roControl.volumes = control.volumes)
  <2> SUFFICES ASSUME roPc = "ready", roControl.gen = control.gen,
                      roControl.volumes = control.volumes
               PROVE  FALSE
    OBVIOUS
  <2>1. roControl.start = control.start /\ roControl.target = control.target
    BY DEF RoInv, Reader
  <2>2. roControl \in StoreControl
    BY DEF IInv, RoType
  <2>3. roControl = control
    BY <1>1, <2>1, <2>2 DEF StoreControl
  <2> QED BY <1>2, <2>3
<1>4. roPc' = "loading"
  BY <1>2, <1>3
<1>5. Covers(volumes, CoveringAll(volumes, control, control.volumes), archived)
  BY <1>1 DEF Archive
<1>6. Reader(volumes, control, control, "loading", roLoaded, archived)
  BY <1>1, <1>5 DEF Reader
<1> QED BY <1>2, <1>4, <1>6 DEF RoInv

\* The reader loads the volumes.
LEMMA RoInvLoads ==
  ASSUME IInv, Known, RoInv, Never({"loadSwapped"}), RoLoads
  PROVE  RoInv'
<1> DEFINE m == roControl.volumes
<1>0. RwInv /\ control' = control /\ volumes' = volumes /\ roControl' = roControl /\ roPc = "loading"
  BY DEF IInv, RoLoads, storeVars
<1>1. /\ volumes \in [Volumes -> Volume] /\ control \in StoreControl /\ Laid(volumes, control)
      /\ control.volumes \in Nat /\ control.volumes \in 1..control.volumes
  BY <1>0, Facts
<1>2. Reader(volumes, control, roControl, "loading", roLoaded, roArchived)
  BY <1>0 DEF RoInv
<1>3. CASE roPc' = "closed"
  <2>1. Reader(volumes, control, roControl, "closed", roLoaded', roArchived')
    BY <1>2 DEF Reader
  <2> QED BY <1>0, <1>3, <2>1 DEF RoInv
<1>4. CASE roPc' # "closed"
  <2>1. roPc' = "ready" /\ roLoaded' = Load(m) /\ roArchived' = roArchived
    BY <1>4 DEF RoLoads
  <2>2. ~ (pc = "swapped" /\ roControl.gen = control.gen)
    BY DEF RoLoads, Never
  <2>3. m \in Nat /\ m \in Volumes /\ m <= control.volumes
    BY <1>2, ControlType DEF IInv, RoType, Reader
  <2>4. Len(Load(m)) = m /\ \A v \in 1..m : Load(m)[v] = volumes[v].control
    BY <1>0, <2>3, LoadIs
  <2>5. ASSUME pc # "swapped", NEW v \in 1..m
        PROVE  Covering(volumes, control, v) = volumes[v].control
    <3>1. volumes[control.volumes].tmp[control.gen] = Nothing
      BY <2>5, Links DEF Known
    <3>2. Clean(volumes[control.volumes], control.gen) = volumes[control.volumes]
      BY <1>0, <3>1, Facts, CleanIs
    <3> QED BY <3>2 DEF Covering
  <2>6. Covers(volumes, Load(m), roArchived)
    <3>1. CASE pc = "swapped"
      BY <1>0, <2>2, <3>1 DEF RoInv
    <3>2. CASE pc # "swapped"
      <4>1. CoveringAll(volumes, control, m) = Load(m)
        BY <2>5, <3>2 DEF CoveringAll, Load
      <4> QED BY <1>2, <4>1 DEF Reader
    <3> QED BY <3>1, <3>2
  <2>7. ASSUME NEW v \in 1..m PROVE Older(Load(m)[v], Covering(volumes, control, v))
    <3>1. v \in 1..control.volumes /\ Load(m)[v] = volumes[v].control
      BY <1>1, <2>3, <2>4
    <3>2. CASE v = control.volumes
      BY <3>1, <3>2, <1>1 DEF Laid
    <3>3. CASE v # control.volumes
      <4> DEFINE k == Covering(volumes, control, v)
      <4>1. k = volumes[v].control
        BY <3>3 DEF Covering
      <4>2. k \in VolumeControl /\ (k.len = 0 => k = Nothing)
        <5>1. v \in Volumes
          BY <1>1, <3>1, ControlType
        <5> QED BY <1>1, <3>1, <5>1, CoveringType DEF Laid
      <4> HIDE DEF k
      <4>3. Older(k, k)
        BY <4>2 DEF Older, VolumeControl
      <4> QED BY <3>1, <4>1, <4>3 DEF k
    <3> QED BY <3>2, <3>3
  <2>8. Reader(volumes, control, roControl, "ready", Load(m), roArchived)
    <3> DEFINE l == Load(m)
    <3>1. Len(l) <= control.volumes
      BY <2>3, <2>4
    <3>2. \A v \in 1..Len(l) : Older(l[v], Covering(volumes, control, v))
      BY <2>4, <2>7
    <3>3. Covers(volumes, l, roArchived)
      BY <2>6
    <3> HIDE DEF l
    <3>4. Reader(volumes, control, roControl, "ready", l, roArchived)
      BY <1>2, <3>1, <3>2, <3>3 DEF Reader
    <3> QED BY <3>4 DEF l
  <2> QED BY <1>0, <2>1, <2>8 DEF RoInv
<1> QED BY <1>3, <1>4

LEMMA ReaderInit ==
  ASSUME Init
  PROVE  Known /\ RoInv /\ ArchiveAccepted
<1>1. PICK m \in Migrations :
        /\ control = [gen |-> IF m = 0 THEN 0 ELSE 1, start |-> m + 1, target |-> 0, volumes |-> 1]
        /\ volumes = [v \in Volumes |-> IF v = 1 /\ m > 0 THEN MigratedVolume(m) ELSE NewVolume]
        /\ pc = "ready"
        /\ loaded = << IF m > 0 THEN MigratedVolume(m).control ELSE Nothing >>
        /\ gcPc = "none" /\ roPc = "closed" /\ roControl = control
  BY DEF Init
<1>2. 1 \in Volumes /\ (IF m = 0 THEN 0 ELSE 1) \in Gens
  BY ConstantsAssumption DEF Volumes, Gens
<1>3. control.gen = (IF m = 0 THEN 0 ELSE 1) /\ control.volumes = 1 /\ control.gen \in Nat
  BY <1>1
<1>4. volumes[1] = IF m > 0 THEN MigratedVolume(m) ELSE NewVolume
  BY <1>1, <1>2
<1>5. NewVolume.control = Nothing /\ MigratedVolume(m).tmp = NewVolume.tmp
      /\ NewVolume.tmp[control.gen] = Nothing
  BY <1>2, <1>3, NothingIs DEF MigratedVolume, NewVolume
<1>6. loaded[1] = volumes[1].control /\ volumes[1].tmp[control.gen] = Nothing
  BY <1>1, <1>4, <1>5
<1>7. Known
  <2>1. Appendable = 1 /\ \A v \in 1..1 : v = 1
    BY <1>3, Links
  <2> QED BY <1>1, <1>6, <2>1 DEF Known
<1>8. RoInv
  BY <1>1, <1>3 DEF RoInv, Reader
<1> QED BY <1>1, <1>7, <1>8 DEF ArchiveAccepted

LEMMA ReaderSteps ==
  ASSUME IInv, RwInv', Known, RoInv, Never({"crashSwapped", "loadSwapped"}), [Next]_vars
  PROVE  Known' /\ RoInv'
<1>1. RwInv /\ Never({"crashSwapped"}) /\ Never({"loadSwapped"})
  BY DEF IInv, Never
<1>2. Known'
  BY <1>1, KnownStep
<1>3. RoInv'
  BY <1>1, RoSteps, RoInvOthers, RoInvReads, RoInvLoads
<1> QED BY <1>2, <1>3

LEMMA RwReadsIs ==
  ASSUME RwInv, Known
  PROVE  RwReads
<1> SUFFICES ASSUME pc = "ready", NEW c \in archived
             PROVE  CanReadCommit(control, Prefix(control.gen), loaded, c)
  BY DEF RwReads
<1> DEFINE n == control.volumes
           cs == CoveringAll(volumes, control, n)
<1>1. /\ volumes \in [Volumes -> Volume] /\ control \in StoreControl /\ archived \in SUBSET Commits
      /\ Laid(volumes, control) /\ Archive(volumes, control, archived, prefixes) /\ n \in Nat
  BY Facts
<1>2. loaded \in Seq(VolumeControl) /\ Len(loaded) = n
  BY Links DEF RwInv, RwType, Shape
<1>3. ASSUME NEW v \in 1..n PROVE loaded[v] = Covering(volumes, control, v)
  <2>1. volumes[n].tmp[control.gen] = Nothing /\ loaded[v] = volumes[v].control
    BY Links DEF Known
  <2>2. Clean(volumes[n], control.gen) = volumes[n]
    BY <2>1, Facts, CleanIs
  <2> QED BY <2>1, <2>2 DEF Covering
<1>4. loaded = cs
  <2>1. loaded = [v \in 1..n |-> loaded[v]]
    BY <1>2
  <2> QED BY <1>3, <2>1 DEF CoveringAll
<1>5. Covers(volumes, cs, archived) /\ Apart(cs) /\ Len(cs) \in Nat
  BY <1>1, CoveringApart DEF Archive
<1> HIDE DEF cs
<1> QED BY <1>1, <1>4, <1>5, CoversReads

LEMMA RoReadsIs ==
  ASSUME IInv, RoInv
  PROVE  RoReads
<1> SUFFICES ASSUME roPc = "ready", NEW c \in roArchived
             PROVE  CanReadCommit(roControl, roPrefix, roLoaded, c)
  BY DEF RoReads
<1>1. /\ volumes \in [Volumes -> Volume] /\ control \in StoreControl /\ Laid(volumes, control)
      /\ control.volumes \in Nat
  BY Facts DEF IInv
<1>2. roLoaded \in Seq(VolumeControl) /\ roArchived \subseteq Commits
  BY DEF IInv, RoType
<1>3. /\ Len(roLoaded) <= control.volumes /\ Len(roLoaded) \in Nat
      /\ \A v \in 1..Len(roLoaded) : Older(roLoaded[v], Covering(volumes, control, v))
      /\ Covers(volumes, roLoaded, roArchived)
  BY <1>2 DEF RoInv, Reader
<1>4. ASSUME NEW v \in 1..Len(roLoaded), NEW o \in Nat, InRange(roLoaded[v], o)
      PROVE  v \in 1..control.volumes /\ InRange(Covering(volumes, control, v), o)
  <2> DEFINE k == roLoaded[v]
             l == Covering(volumes, control, v)
  <2>1. v \in 1..control.volumes /\ v \in Volumes
    BY <1>1, <1>3, ControlType
  <2>2. k \in VolumeControl /\ l \in VolumeControl /\ Older(k, l)
    BY <1>1, <1>2, <1>3, <2>1, CoveringType
  <2>3. InRange(k, o)
    BY <1>4
  <2> HIDE DEF k, l
  <2>4. InRange(l, o)
    BY <2>2, <2>3 DEF InRange, Older, Nothing, VolumeControl
  <2> QED BY <2>1, <2>4 DEF l
<1>5. Apart(roLoaded)
  BY <1>1, <1>4, RangesApart DEF Apart
<1> QED BY <1>2, <1>3, <1>5, CoversReads
-----------------------------------------------------------------------------
(* What follows from the invariants. *)

\* The type invariant.
THEOREM TypeCorrect ==
  ASSUME TreesGrow, Never({"addBehind", "forked", "staleControl"})
  PROVE  Spec => []TypeOK
<1>1. Init => IInv
  BY InitInv
<1>2. IInv /\ [Next]_vars => IInv'
  BY Step
<1>3. IInv => TypeOK
  BY TypeIs
<1> QED BY <1>1, <1>2, <1>3, PTL DEF Spec

\* At every instant, even in the middle of a swap, the files are enough to read
\* every archived commit, its tree and its parent: whatever collections, aborts,
\* deaths and new volumes came before.
THEOREM FilesRecover ==
  ASSUME TreesGrow, Never({"addBehind", "forked", "staleControl"})
  PROVE  Spec => []Recoverable
<1>1. Init => IInv
  BY InitInv
<1>2. IInv /\ [Next]_vars => IInv'
  BY Step
<1>3. IInv => Recoverable
  BY RecoverableIs DEF IInv
<1> QED BY <1>1, <1>2, <1>3, PTL DEF Spec

\* lower_layer.md: a volume is self-contained: it has the tree and the parent of
\* each commit in its range.
THEOREM VolumesSelfContained ==
  ASSUME TreesGrow, Never({"addBehind", "forked", "staleControl"})
  PROVE  Spec => []SelfContained
<1>1. Init => IInv
  BY InitInv
<1>2. IInv /\ [Next]_vars => IInv'
  BY Step
<1>3. IInv => SelfContained
  BY SelfContainedIs DEF IInv
<1> QED BY <1>1, <1>2, <1>3, PTL DEF Spec

\* lower_layer.md, Validations: the last volume never has history that is newer
\* than what a collection archives, so that each one can end.
THEOREM NoneRefused ==
  ASSUME TreesGrow, ObjectsAdded, Never({"addBehind", "forked", "staleControl"})
  PROVE  Spec => []ArchiveAccepted
<1> DEFINE I == IInv /\ ArchiveAccepted
<1>1. Init => I
  BY InitInv, ReaderInit
<1>2. I /\ [Next]_vars => I'
  BY Step, AcceptedStep DEF IInv
<1> QED BY <1>1, <1>2, PTL DEF Spec

\* The main process between two operations, and a reader at any time, read every
\* commit that was archived, its tree and its parent, from the volumes that each
\* has in memory: the worker of the next collection, aborts and later swaps
\* write to these volumes meanwhile.
THEOREM BothRead ==
  ASSUME TreesGrow, Allowed = {}
  PROVE  Spec => []ArchivedReads
<1> DEFINE I == IInv /\ Known /\ RoInv
<1>0. /\ Never({"addBehind", "forked", "staleControl"})
      /\ Never({"crashSwapped", "loadSwapped"})
  BY DEF Never
<1>1. Init => I
  BY InitInv, ReaderInit
<1>2. I /\ [Next]_vars => I'
  <2> SUFFICES ASSUME I, [Next]_vars PROVE I'
    OBVIOUS
  <2>1. IInv'
    BY <1>0, Step
  <2>2. RwInv'
    BY <2>1 DEF IInv
  <2> QED BY <1>0, <2>1, <2>2, ReaderSteps
<1>3. I => ArchivedReads
  BY TypeIs, RwReadsIs, RoReadsIs DEF IInv, ArchivedReads
<1> QED BY <1>1, <1>2, <1>3, PTL DEF Spec
=============================================================================
