-------------------------- MODULE StoreHead_proofs --------------------------
(***************************************************************************)
(* Proofs about StoreHead and CommitHistory.                                *)
(*                                                                          *)
(* The first half is about what the model computes by recursion.  A loop    *)
(* and a count have solutions (LoopExists, CountExists), so that the        *)
(* functions that the model chooses satisfy their equations, and a loop     *)
(* that comes closer to its end ends (LoopEnds).  From these: what a commit *)
(* reaches; that the search for common ancestors misses no lowest one and   *)
(* finds no commit that is not common (LcasFinds, with Right, what the      *)
(* marks say, and InLayers, what waits to be explored); that it finds the   *)
(* older of two commits alone when the other reaches it (LcasOfAncestor,    *)
(* with Fed); and what three_way_merge promises of its two sides            *)
(* (ThreeWayMergeKeeps).                                                    *)
(*                                                                          *)
(* The second half is about the fibers: an update gives up honestly         *)
(* (RetriesHonest), the types (IType), what a fiber that swaps a head has   *)
(* ready (ISwaps, IReaches, ISides), that the merges that run have infos of *)
(* their own (IFresh), and what a fast-forward has found when it answers    *)
(* (IForwards).  That calls end stays with TLC.                             *)
(***************************************************************************)
EXTENDS StoreHead, FiniteSetTheorems, SequenceTheorems, WellFoundedInduction, TLAPS

(* Recursion. *)

LEMMA Least ==
  ASSUME NEW T, T \subseteq Nat, T # {}
  PROVE  \E x \in T : \A y \in T : x <= y
<1>1. PICK x \in T : \A y \in T : ~ (<<y, x>> \in OpToRel(<, Nat))
  BY NatLessThanWellFounded, WFMin
<1>2. \A y \in T : ~ (y < x)
  BY <1>1 DEF OpToRel
<1> QED BY <1>2

\* The equation of a loop over S, which goes on from s to next[s] until it is done.
Loops(S, done, next, out, G) ==
  G = [s \in S |-> IF s \in done THEN out[s] ELSE G[next[s]]]

\* It has a solution: where the loop ends, what it gives there.
LEMMA LoopExists ==
  ASSUME NEW S, NEW done, NEW next \in [S -> S], NEW out
  PROVE  \E G : Loops(S, done, next, out, G)
<1> DEFINE Closed(C) == \A x \in C : x \notin done => next[x] \in C
           Reach(s) == {t \in S : \A C \in SUBSET S : s \in C /\ Closed(C) => t \in C}
           End(s) == {t \in Reach(s) : t \in done}
           G == [s \in S |-> out[CHOOSE t : t \in End(s)]]
<1>1. ASSUME NEW s \in S, s \in done
      PROVE  G[s] = out[s]
  <2>1. {s} \in SUBSET S /\ Closed({s})
    BY <1>1
  <2>2. \A t \in Reach(s) : t = s
    BY <2>1, Zenon
  <2>3. s \in Reach(s)
    OBVIOUS
  <2> HIDE DEF Reach
  <2>4. End(s) = {s}
    BY <1>1, <2>2, <2>3
  <2> HIDE DEF End
  <2> QED BY <2>4
<1>2. ASSUME NEW s \in S, s \notin done
      PROVE  G[s] = G[next[s]]
  <2>1. ASSUME NEW t \in End(next[s])
        PROVE  t \in End(s)
    <3>1. SUFFICES ASSUME NEW C \in SUBSET S, s \in C, Closed(C) PROVE t \in C
      OBVIOUS
    <3>2. next[s] \in C
      BY <3>1, <1>2
    <3> QED BY <3>1, <3>2, Zenon
  <2>2. ASSUME NEW t \in End(s)
        PROVE  t \in End(next[s])
    <3>1. SUFFICES ASSUME NEW C \in SUBSET S, next[s] \in C, Closed(C) PROVE t \in C
      OBVIOUS
    <3>2. C \cup {s} \in SUBSET S /\ Closed(C \cup {s}) /\ s \in C \cup {s}
      BY <3>1
    <3> HIDE DEF Closed
    <3>3. t \in C \cup {s}
      BY <3>2, Zenon
    <3> QED BY <3>3, <1>2
  <2> HIDE DEF End
  <2>3. End(s) = End(next[s])
    BY <2>1, <2>2
  <2> QED BY <2>3
<1> HIDE DEF G
<1>3. G = [s \in S |-> G[s]]
  BY DEF G
<1>4. G = [s \in S |-> IF s \in done THEN out[s] ELSE G[next[s]]]
  BY <1>1, <1>2, <1>3
<1> QED BY <1>4 DEF Loops

\* A loop keeps I and comes closer to its end, by two numbers of which the first
\* counts more.
Closer(I, done, next, G, mu, nu) ==
  \A s \in I : s \notin done =>
    /\ next[s] \in I /\ G[s] = G[next[s]]
    /\ \/ mu[next[s]] < mu[s]
       \/ mu[next[s]] = mu[s] /\ nu[next[s]] < nu[s]

\* What the loop gives where it is done is good.
GoodEnd(I, done, G, good) == \A s \in I : s \in done => G[s] \in good

\* A loop that comes closer to its end ends.
LEMMA LoopEnds ==
  ASSUME NEW I, NEW done, NEW next, NEW G, NEW good,
         NEW mu \in [I -> Nat], NEW nu \in [I -> Nat],
         GoodEnd(I, done, G, good), Closer(I, done, next, G, mu, nu)
  PROVE  \A s \in I : G[s] \in good
<1> DEFINE T == {s \in I : G[s] \notin good}
<1>1. SUFFICES ASSUME T # {} PROVE FALSE
  OBVIOUS
<1>2. PICK s1 \in T : \A t \in T : mu[s1] <= mu[t]
  <2> DEFINE M == {mu[s] : s \in T}
  <2>1. M \subseteq Nat /\ M # {}
    BY <1>1
  <2> HIDE DEF M
  <2>2. \E x \in M : \A y \in M : x <= y
    BY <2>1, Least
  <2> QED BY <2>2 DEF M
<1> DEFINE U == {s \in T : mu[s] = mu[s1]}
<1>3. PICK s2 \in U : \A t \in U : nu[s2] <= nu[t]
  <2> DEFINE M == {nu[s] : s \in U}
  <2>1. M \subseteq Nat /\ M # {}
    BY <1>2
  <2> HIDE DEF M
  <2>2. \E x \in M : \A y \in M : x <= y
    BY <2>1, Least
  <2> QED BY <2>2 DEF M
<1>4. s2 \in I /\ G[s2] \notin good /\ mu[s2] = mu[s1] /\ s2 \notin done
  BY <1>3 DEF GoodEnd
<1>5. next[s2] \in I /\ G[next[s2]] \notin good
  BY <1>4 DEF Closer
<1>6. ~(mu[next[s2]] < mu[s2])
  BY <1>2, <1>4, <1>5
<1>7. ~(mu[next[s2]] = mu[s2] /\ nu[next[s2]] < nu[s2])
  BY <1>3, <1>4, <1>5
<1> QED BY <1>4, <1>6, <1>7 DEF Closer

\* The equation of a count up to n, from b and with a step for each number.
Counts(n, b, step, f) ==
  f = [i \in 0..n |-> IF i = 0 THEN b ELSE step[i][f[i - 1]]]

\* It has a solution.
LEMMA CountExists ==
  ASSUME NEW n \in Nat, NEW S, NEW b \in S, NEW step \in [1..n -> [S -> S]]
  PROVE  \E f \in [0..n -> S] : Counts(n, b, step, f)
<1> DEFINE Upto(k, f) == /\ f \in [0..k -> S] /\ f[0] = b
                         /\ \A i \in 1..k : f[i] = step[i][f[i - 1]]
           T == {k \in 0..n : ~ \E f : Upto(k, f)}
<1>1. T = {}
  <2>1. SUFFICES ASSUME T # {} PROVE FALSE
    OBVIOUS
  <2>2. PICK k \in T : \A j \in T : k <= j
    <3>1. T \subseteq Nat
      OBVIOUS
    <3> HIDE DEF T
    <3> QED BY <2>1, <3>1, Least
  <2>3. k # 0
    <3>1. Upto(0, [i \in 0..0 |-> b])
      OBVIOUS
    <3> HIDE DEF Upto
    <3> QED BY <3>1
  <2>4. k - 1 \in 0..n /\ k \in 1..n /\ k - 1 \notin T
    BY <2>2, <2>3
  <2>5. PICK f : Upto(k - 1, f)
    BY <2>4
  <2> DEFINE g == [i \in 0..k |-> IF i = k THEN step[k][f[k - 1]] ELSE f[i]]
  <2>6. step[k] \in [S -> S] /\ f[k - 1] \in S
    BY <2>4, <2>5
  <2>7. step[k][f[k - 1]] \in S
    BY <2>6
  <2>8. g \in [0..k -> S] /\ g[0] = b
    BY <2>4, <2>5, <2>7
  <2>9. ASSUME NEW i \in 1..k PROVE g[i] = step[i][g[i - 1]]
    BY <2>4, <2>5
  <2>10. Upto(k, g)
    BY <2>8, <2>9
  <2> HIDE DEF Upto
  <2> QED BY <2>2, <2>10
<1>2. PICK f : Upto(n, f)
  <2>1. n \in 0..n
    OBVIOUS
  <2> HIDE DEF Upto
  <2> QED BY <1>1, <2>1
<1>3. f = [i \in 0..n |-> IF i = 0 THEN b ELSE step[i][f[i - 1]]]
  <2>1. f = [i \in 0..n |-> f[i]]
    BY <1>2
  <2>2. \A i \in 0..n : f[i] = IF i = 0 THEN b ELSE step[i][f[i - 1]]
    BY <1>2
  <2> QED BY <2>1, <2>2
<1> QED BY <1>2, <1>3 DEF Counts

\* A set of numbers that counts up to n has them all.
LEMMA CountsUp ==
  ASSUME NEW n \in Nat, NEW P, 0 \in P, \A i \in 1..n : i - 1 \in P => i \in P
  PROVE  \A i \in 0..n : i \in P
<1> DEFINE T == {i \in 0..n : i \notin P}
<1>1. SUFFICES ASSUME T # {} PROVE FALSE
  OBVIOUS
<1>2. PICK k \in T : \A j \in T : k <= j
  <2>1. T \subseteq Nat
    OBVIOUS
  <2> HIDE DEF T
  <2> QED BY <1>1, <2>1, Least
<1>3. k # 0
  BY <1>2
<1>4. k \in 1..n /\ k - 1 \in 0..n /\ k - 1 \notin T
  BY <1>2, <1>3
<1> QED BY <1>2, <1>4

(* Queues. *)

\* A set of numbers up to n in some order.
LEMMA InSomeOrder ==
  ASSUME NEW n \in Nat, NEW S, S \subseteq 1..n
  PROVE  SetToSeq(S) \in Seq(S) /\ ToSet(SetToSeq(S)) = S
<1>1. IsFiniteSet(S)
  <2>1. IsFiniteSet(1..n)
    BY FS_Interval
  <2> QED BY <2>1, FS_Subset
<1> DEFINE m == Cardinality(S)
<1>2. m \in Nat /\ \E f : f \in Bijection(1..m, S)
  BY <1>1, FS_CardinalityType DEF ExistsBijection
<1>3. \E f \in [1..m -> S] : IsInjective(f)
  BY <1>2 DEF Bijection, Injection, IsInjective
<1>4. SetToSeq(S) \in [1..m -> S] /\ IsInjective(SetToSeq(S))
  BY <1>3 DEF SetToSeq
<1>5. SetToSeq(S) \in Injection(1..m, S)
  BY <1>4 DEF Injection, IsInjective
<1>6. IsFiniteSet(1..m) /\ Cardinality(1..m) = m
  BY <1>2, FS_Interval
<1>7. SetToSeq(S) \in Surjection(1..m, S)
  BY <1>1, <1>5, <1>6, FS_Injection
<1>8. DOMAIN SetToSeq(S) = 1..m
  BY <1>4
<1> HIDE DEF m
<1>9. ToSet(SetToSeq(S)) = S
  BY <1>4, <1>7, <1>8 DEF ToSet, Surjection
<1> QED BY <1>2, <1>4, <1>9

\* One thing in order.
LEMMA OneInOrder ==
  ASSUME NEW c
  PROVE  Len(SetToSeq({c})) = 1
<1>1. Cardinality({c}) = 1
  BY FS_Singleton
<1> DEFINE f == [i \in 1..1 |-> c]
<1>2. f \in [1..1 -> {c}] /\ IsInjective(f)
  BY DEF IsInjective
<1>3. SetToSeq({c}) \in [1..1 -> {c}]
  BY <1>1, <1>2 DEF SetToSeq
<1> QED BY <1>3

\* What waits in a queue when the first is taken out.
LEMMA QueueTaken ==
  ASSUME NEW S, NEW q \in Seq(S), q # << >>
  PROVE  /\ Head(q) \in S /\ Tail(q) \in Seq(S)
         /\ Len(q) \in Nat \ {0} /\ Len(Tail(q)) = Len(q) - 1
         /\ ToSet(q) = {Head(q)} \cup ToSet(Tail(q)) /\ ToSet(q) \subseteq S
         /\ Len(q) = 1 => ToSet(Tail(q)) = {}
<1>1. /\ Len(q) \in Nat \ {0} /\ Head(q) = q[1] /\ Head(q) \in S
      /\ Tail(q) \in Seq(S) /\ Len(Tail(q)) = Len(q) - 1
      /\ \A i \in 1..Len(q) - 1 : Tail(q)[i] = q[i + 1]
  BY HeadTailProperties
<1>2. DOMAIN q = 1..Len(q) /\ DOMAIN Tail(q) = 1..Len(q) - 1
  BY <1>1, LenProperties
<1>3. ASSUME NEW i \in DOMAIN q
      PROVE  q[i] = Head(q) \/ \E j \in DOMAIN Tail(q) : Tail(q)[j] = q[i]
  <2>1. CASE i = 1
    BY <1>1, <2>1
  <2>2. CASE i # 1
    <3>1. i - 1 \in DOMAIN Tail(q) /\ Tail(q)[i - 1] = q[i]
      BY <1>1, <1>2, <2>2
    <3> QED BY <3>1
  <2> QED BY <2>1, <2>2
<1>4. ASSUME NEW j \in DOMAIN Tail(q) PROVE \E i \in DOMAIN q : Tail(q)[j] = q[i]
  <2>1. j + 1 \in DOMAIN q /\ Tail(q)[j] = q[j + 1]
    BY <1>1, <1>2
  <2> QED BY <2>1
<1>5. 1 \in DOMAIN q
  BY <1>1, <1>2
<1>6. ToSet(q) = {Head(q)} \cup ToSet(Tail(q))
  BY <1>1, <1>3, <1>4, <1>5 DEF ToSet
<1>7. Len(q) = 1 => ToSet(Tail(q)) = {}
  <2>1. Len(q) = 1 => 1..Len(q) - 1 = {}
    BY <1>1
  <2> QED BY <1>2, <2>1 DEF ToSet
<1>8. ToSet(q) \subseteq S
  BY <1>2, ElementOfSeq DEF ToSet
<1> QED BY <1>1, <1>6, <1>7, <1>8

\* What waits in a queue when others are put behind.
LEMMA QueuePut ==
  ASSUME NEW S, NEW q \in Seq(S), NEW r \in Seq(S)
  PROVE  /\ q \o r \in Seq(S) /\ Len(q \o r) = Len(q) + Len(r)
         /\ ToSet(q \o r) = ToSet(q) \cup ToSet(r)
<1>1. Len(q) \in Nat /\ Len(r) \in Nat /\ DOMAIN q = 1..Len(q) /\ DOMAIN r = 1..Len(r)
  BY LenProperties
<1>2. /\ q \o r \in Seq(S) /\ Len(q \o r) = Len(q) + Len(r)
      /\ \A i \in 1..Len(q) + Len(r) :
           (q \o r)[i] = IF i <= Len(q) THEN q[i] ELSE r[i - Len(q)]
  BY ConcatProperties, Zenon
<1>3. DOMAIN (q \o r) = 1..Len(q) + Len(r)
  BY <1>2, LenProperties
<1>4. ASSUME NEW i \in DOMAIN (q \o r)
      PROVE  (q \o r)[i] \in ToSet(q) \cup ToSet(r)
  <2>1. CASE i <= Len(q)
    <3>1. i \in DOMAIN q /\ (q \o r)[i] = q[i]
      BY <1>1, <1>2, <1>3, <2>1
    <3> QED BY <3>1 DEF ToSet
  <2>2. CASE ~(i <= Len(q))
    <3>1. i - Len(q) \in DOMAIN r /\ (q \o r)[i] = r[i - Len(q)]
      BY <1>1, <1>2, <1>3, <2>2
    <3> QED BY <3>1 DEF ToSet
  <2> QED BY <2>1, <2>2
<1>5. ASSUME NEW i \in DOMAIN q PROVE q[i] \in ToSet(q \o r)
  <2>1. i \in DOMAIN (q \o r) /\ (q \o r)[i] = q[i]
    BY <1>1, <1>2, <1>3
  <2> QED BY <2>1 DEF ToSet
<1>6. ASSUME NEW i \in DOMAIN r PROVE r[i] \in ToSet(q \o r)
  <2>1. Len(q) + i \in DOMAIN (q \o r) /\ (q \o r)[Len(q) + i] = r[i]
    <3>1. i \in 1..Len(r) /\ i \in Nat
      BY <1>1
    <3>2. ~(Len(q) + i <= Len(q)) /\ Len(q) + i - Len(q) = i /\ Len(q) + i \in 1..Len(q) + Len(r)
      BY <1>1, <3>1
    <3> QED BY <1>2, <1>3, <3>2
  <2> QED BY <2>1 DEF ToSet
<1>7. ToSet(q \o r) \subseteq ToSet(q) \cup ToSet(r)
  BY <1>4 DEF ToSet
<1>8. ToSet(q) \subseteq ToSet(q \o r) /\ ToSet(r) \subseteq ToSet(q \o r)
  <2> DEFINE U == ToSet(q \o r)
  <2>1. (\A i \in DOMAIN q : q[i] \in U) /\ \A i \in DOMAIN r : r[i] \in U
    BY <1>5, <1>6
  <2> HIDE DEF U
  <2>2. ToSet(q) \subseteq U /\ ToSet(r) \subseteq U
    BY <2>1 DEF ToSet
  <2> QED BY <2>2 DEF U
<1> QED BY <1>2, <1>7, <1>8
-----------------------------------------------------------------------------
(* Ancestors. *)

\* The parents of a commit come before it.
Graph(h) ==
  Len(h) \in Nat /\ \A c \in Commits(h) : h[c].parents \subseteq 1..(c - 1)

\* The parents of the commits of A are in A.
Downward(h, A) == \A a \in A : h[a].parents \subseteq A

LEMMA ParentsOlder ==
  ASSUME NEW h, Graph(h), NEW c \in Commits(h)
  PROVE  /\ h[c].parents \subseteq Commits(h)
         /\ \A p \in h[c].parents : p \in Commits(h) /\ p < c
<1>1. c \in Nat /\ c <= Len(h) /\ Len(h) \in Nat
  BY DEF Graph, Commits
<1>2. h[c].parents \subseteq 1..(c - 1)
  BY DEF Graph
<1> QED BY <1>1, <1>2 DEF Commits

\* The equation of Ancestors.
LEMMA AncestorsAre ==
  ASSUME NEW h, Graph(h), NEW c \in Commits(h)
  PROVE  Ancestors(h, c) = {c} \cup UNION {Ancestors(h, p) : p \in h[c].parents}
<1> DEFINE N == Commits(h)
           Body(g) == [d \in N |-> {d} \cup UNION {g[p] : p \in h[d].parents}]
           from == CHOOSE g : g = Body(g)
           R(d) == {x \in N : \A C \in SUBSET N : d \in C /\ Downward(h, C) => x \in C}
           F == [d \in N |-> R(d)]
<1>0. \A d \in N : h[d].parents \subseteq N
  BY ParentsOlder
<1> HIDE DEF N
<1>1. ASSUME NEW d \in N
      PROVE  R(d) = {d} \cup UNION {R(p) : p \in h[d].parents}
  <2> DEFINE U == {d} \cup UNION {R(p) : p \in h[d].parents}
  <2>1. ASSUME NEW x \in U PROVE x \in R(d)
    <3>1. CASE x = d
      BY <3>1
    <3>2. CASE \E p \in h[d].parents : x \in R(p)
      <4>1. PICK p \in h[d].parents : x \in R(p)
        BY <3>2
      <4>2. SUFFICES ASSUME NEW C \in SUBSET N, d \in C, Downward(h, C) PROVE x \in C
        BY <4>1
      <4>3. p \in C
        BY <4>2 DEF Downward
      <4> QED BY <4>1, <4>2, <4>3
    <3> QED BY <3>1, <3>2
  <2>2. U \in SUBSET N /\ d \in U
    BY <1>0
  <2>3. Downward(h, U)
    <3> SUFFICES ASSUME NEW x \in U, NEW y \in h[x].parents PROVE y \in U
      BY DEF Downward
    <3>1. CASE x = d
      <4>1. y \in R(y)
        BY <1>0, <3>1
      <4> QED BY <3>1, <4>1
    <3>2. CASE \E p \in h[d].parents : x \in R(p)
      <4>1. PICK p \in h[d].parents : x \in R(p)
        BY <3>2
      <4>2. y \in R(p)
        <5>1. y \in N
          BY <1>0, <4>1
        <5>2. ASSUME NEW C \in SUBSET N, p \in C, Downward(h, C) PROVE y \in C
          <6>1. x \in C
            BY <4>1, <5>2
          <6> QED BY <6>1, <5>2 DEF Downward
        <5> QED BY <5>1, <5>2
      <4> QED BY <4>1, <4>2
    <3> QED BY <3>1, <3>2
  <2> HIDE DEF U
  <2>4. R(d) \subseteq U
    BY <2>2, <2>3
  <2>5. R(d) = U
    BY <2>1, <2>4
  <2> QED BY <2>5 DEF U
<1>2. F = Body(F)
  <2>1. \A d \in N : {R(p) : p \in h[d].parents} = {F[p] : p \in h[d].parents}
    <3> HIDE DEF R
    <3> QED BY <1>0
  <2> HIDE DEF R
  <2> QED BY <1>1, <2>1
<1>3. from = Body(from)
  <2> HIDE DEF Body, F
  <2> QED BY <1>2
<1>4. \A d : Ancestors(h, d) = from[d]
  BY DEF Ancestors, N
<1>5. c \in N
  BY DEF N
<1> HIDE DEF from
<1>6. from[c] = {c} \cup UNION {from[p] : p \in h[c].parents}
  BY <1>3, <1>5
<1> QED BY <1>4, <1>6

\* What a commit reaches: itself and older commits, with their parents.
LEMMA AncestorsReach ==
  ASSUME NEW h, Graph(h), NEW c \in Commits(h)
  PROVE  /\ c \in Ancestors(h, c) /\ Ancestors(h, c) \subseteq 1..c
         /\ Ancestors(h, c) \subseteq Commits(h) /\ Downward(h, Ancestors(h, c))
<1> DEFINE Good(d) == Ancestors(h, d) \subseteq 1..d /\ Downward(h, Ancestors(h, d))
           T == {d \in Commits(h) : ~Good(d)}
<1>0. Commits(h) \subseteq Nat /\ \A d \in Commits(h) : 1..d \subseteq Commits(h)
  BY DEF Graph, Commits
<1>1. T = {}
  <2>1. SUFFICES ASSUME T # {} PROVE FALSE
    OBVIOUS
  <2>2. PICK d \in T : \A e \in T : d <= e
    <3>1. T \subseteq Nat
      BY <1>0
    <3> HIDE DEF T
    <3> QED BY <2>1, <3>1, Least
  <2>3. ASSUME NEW p \in h[d].parents PROVE p \in Commits(h) /\ p < d /\ Good(p)
    <3>1. p \in Commits(h) /\ p < d
      BY ParentsOlder
    <3>2. p \in Nat /\ d \in Nat
      BY <1>0, <3>1
    <3> QED BY <2>2, <3>1, <3>2
  <2>4. Ancestors(h, d) = {d} \cup UNION {Ancestors(h, p) : p \in h[d].parents}
    BY AncestorsAre
  <2>5. \A p \in h[d].parents : p \in Ancestors(h, p)
    <3> SUFFICES ASSUME NEW p \in h[d].parents PROVE p \in Ancestors(h, p)
      OBVIOUS
    <3>1. Ancestors(h, p) = {p} \cup UNION {Ancestors(h, q) : q \in h[p].parents}
      BY <2>3, AncestorsAre
    <3> QED BY <3>1
  <2>6. Ancestors(h, d) \subseteq 1..d
    <3>1. d \in Nat \ {0}
      BY <1>0 DEF Commits
    <3>2. ASSUME NEW p \in h[d].parents PROVE Ancestors(h, p) \subseteq 1..d
      <4>1. p \in Nat /\ p < d /\ Ancestors(h, p) \subseteq 1..p
        BY <2>3, <1>0
      <4>2. 1..p \subseteq 1..d
        BY <3>1, <4>1
      <4> QED BY <4>1, <4>2
    <3>3. d \in 1..d
      BY <3>1
    <3> QED BY <2>4, <3>2, <3>3
  <2>7. Downward(h, Ancestors(h, d))
    <3> SUFFICES ASSUME NEW x \in Ancestors(h, d), NEW y \in h[x].parents
                 PROVE  y \in Ancestors(h, d)
      BY DEF Downward
    <3>1. CASE x = d
      BY <3>1, <2>4, <2>5
    <3>2. CASE x # d
      <4>1. PICK p \in h[d].parents : x \in Ancestors(h, p)
        BY <3>2, <2>4
      <4>2. y \in Ancestors(h, p)
        BY <4>1, <2>3 DEF Downward
      <4> QED BY <4>2, <2>4
    <3> QED BY <3>1, <3>2
  <2> QED BY <2>2, <2>6, <2>7
<1>2. Good(c)
  BY <1>1
<1>3. c \in Ancestors(h, c)
  BY AncestorsAre
<1> QED BY <1>0, <1>2, <1>3

\* A set with c and the parents of its commits has what c reaches.
LEMMA AncestorsWithin ==
  ASSUME NEW h, Graph(h), NEW A, A \subseteq Commits(h), Downward(h, A), NEW c \in A
  PROVE  Ancestors(h, c) \subseteq A
<1> DEFINE T == {d \in A : ~(Ancestors(h, d) \subseteq A)}
<1>0. A \subseteq Nat
  BY DEF Graph, Commits
<1>1. T = {}
  <2>1. SUFFICES ASSUME T # {} PROVE FALSE
    OBVIOUS
  <2>2. PICK d \in T : \A e \in T : d <= e
    <3>1. T \subseteq Nat
      BY <1>0
    <3> HIDE DEF T
    <3> QED BY <2>1, <3>1, Least
  <2>3. ASSUME NEW p \in h[d].parents PROVE Ancestors(h, p) \subseteq A
    <3>1. p \in A /\ p < d
      BY ParentsOlder DEF Downward
    <3>2. p \in Nat /\ d \in Nat
      BY <1>0, <3>1
    <3> QED BY <2>2, <3>1, <3>2
  <2>4. Ancestors(h, d) = {d} \cup UNION {Ancestors(h, p) : p \in h[d].parents}
    BY AncestorsAre
  <2> QED BY <2>2, <2>3, <2>4
<1> QED BY <1>1

LEMMA AncestorsOfAncestor ==
  ASSUME NEW h, Graph(h), NEW c \in Commits(h), NEW a \in Ancestors(h, c)
  PROVE  a \in Commits(h) /\ Ancestors(h, a) \subseteq Ancestors(h, c)
<1>1. Ancestors(h, c) \subseteq Commits(h) /\ Downward(h, Ancestors(h, c))
  BY AncestorsReach
<1>2. Ancestors(h, a) \subseteq Ancestors(h, c)
  BY <1>1, AncestorsWithin
<1> QED BY <1>1, <1>2

LEMMA ParentIsAncestor ==
  ASSUME NEW h, Graph(h), NEW c \in Commits(h), NEW p \in h[c].parents
  PROVE  p \in Ancestors(h, c)
<1>1. c \in Ancestors(h, c) /\ Downward(h, Ancestors(h, c))
  BY AncestorsReach
<1> QED BY <1>1 DEF Downward

\* A history that has more commits after those of h.
Extends(h2, h) ==
  Len(h) <= Len(h2) /\ \A c \in Commits(h) : h2[c] = h[c]

\* Later commits change nothing of what a commit reaches.
LEMMA AncestorsStay ==
  ASSUME NEW h, Graph(h), NEW h2, Graph(h2), Extends(h2, h), NEW c \in Commits(h)
  PROVE  c \in Commits(h2) /\ Ancestors(h2, c) = Ancestors(h, c)
<1>1. Commits(h) \subseteq Commits(h2)
  BY DEF Extends, Graph, Commits
<1>2. c \in Commits(h2)
  BY <1>1
<1>3. /\ c \in Ancestors(h, c) /\ Ancestors(h, c) \subseteq Commits(h)
      /\ Downward(h, Ancestors(h, c))
  BY AncestorsReach
<1>4. c \in Ancestors(h2, c) /\ Ancestors(h2, c) \subseteq 1..c /\ Downward(h2, Ancestors(h2, c))
  BY <1>2, AncestorsReach
<1>5. \A d \in Commits(h) : h2[d] = h[d]
  BY DEF Extends
<1>6. Downward(h2, Ancestors(h, c))
  BY <1>3, <1>5 DEF Downward
<1>7. Ancestors(h2, c) \subseteq Ancestors(h, c)
  BY <1>1, <1>3, <1>6, AncestorsWithin
<1>8. Downward(h, Ancestors(h2, c))
  BY <1>7, <1>3, <1>4, <1>5 DEF Downward
<1>9. Ancestors(h, c) \subseteq Ancestors(h2, c)
  BY <1>3, <1>4, <1>7, <1>8, AncestorsWithin
<1> QED BY <1>2, <1>7, <1>9
-----------------------------------------------------------------------------
(* Walks: how a mark reaches the ancestors that were explored. *)

Shared == {"seenBoth", "LCA"}
Side1 == {"seen1", "seenBoth", "LCA"}
Side2 == {"seen2", "seenBoth", "LCA"}

\* A mark of a commit that is reached from every side that mark is.
Covers(mark, other) == (mark \in Side1 => other \in Side1) /\ (mark \in Side2 => other \in Side2)

\* A mark adds the sides it comes from to those a commit is reached from, and no other;
\* it makes a commit "seenBoth" only if the mark is from both sides or the commit was.
LEMMA MarkAfter ==
  ASSUME NEW mark \in Marks, NEW old \in Marks
  PROVE  LET after == UpdateMark(mark, old)
         IN /\ after \in Marks \ {"none"} /\ Covers(mark, after) /\ Covers(old, after)
            /\ mark # "none" =>
                 /\ after \in Side1 => mark \in Side1 \/ old \in Side1
                 /\ after \in Side2 => mark \in Side2 \/ old \in Side2
                 /\ after = "seenBoth" => mark \in Shared \/ old = "seenBoth"
            /\ mark = "seenBoth" => after = "seenBoth"
            /\ old \notin {"none", after} => after \in Shared
<1> USE DEF Marks, Covers, Side1, Side2, Shared
<1>1. CASE mark \in {"seen1", "seen2"} /\ old \in {mark, "none"}
  <2>1. UpdateMark(mark, old) = mark
    BY <1>1 DEF UpdateMark
  <2> QED BY <1>1, <2>1
<1>2. CASE mark = "seenBoth"
  <2>1. UpdateMark(mark, old) = "seenBoth"
    BY <1>2 DEF UpdateMark
  <2> QED BY <1>2, <2>1
<1>3. CASE {mark, old} = {"seen1", "seen2"}
  <2>1. mark # old /\ mark \in {"seen1", "seen2"} /\ old \in {"seen1", "seen2"}
    BY <1>3
  <2>2. UpdateMark(mark, old) = "LCA"
    BY <1>3, <2>1 DEF UpdateMark
  <2> QED BY <2>1, <2>2
<1>4. CASE mark # "seenBoth" /\ old = "LCA"
  <2>1. {mark, old} # {"seen1", "seen2"}
    BY <1>4
  <2>2. UpdateMark(mark, old) = "LCA"
    BY <1>4, <2>1 DEF UpdateMark
  <2> QED BY <1>4, <2>2
<1>5. CASE /\ ~(mark \in {"seen1", "seen2"} /\ old \in {mark, "none"})
           /\ mark # "seenBoth" /\ {mark, old} # {"seen1", "seen2"} /\ old # "LCA"
  <2>1. UpdateMark(mark, old) = "seenBoth"
    BY <1>5 DEF UpdateMark
  <2>2. mark \notin {"seen1", "seen2"} \/ old = "seenBoth"
    BY <1>5
  <2> QED BY <1>5, <2>1, <2>2
<1> QED BY <1>1, <1>2, <1>3, <1>4, <1>5

LEMMA CoversItself ==
  ASSUME NEW m \in Marks
  PROVE  Covers(m, m)
BY DEF Covers

LEMMA CoversTwice ==
  ASSUME NEW m1 \in Marks, NEW m2 \in Marks, NEW m3 \in Marks,
         Covers(m1, m2), Covers(m2, m3)
  PROVE  Covers(m1, m3)
BY DEF Covers

LEMMA SharedCovers ==
  ASSUME NEW m1, NEW m2 \in Shared
  PROVE  Covers(m1, m2)
BY DEF Covers, Shared, Side1, Side2

LEMMA CoversMore ==
  ASSUME NEW m1 \in Marks, NEW m2 \in Marks, Covers(m1, m2)
  PROVE  /\ m1 \in Shared => m2 \in Shared
         /\ m1 # "none" => m2 # "none"
BY DEF Covers, Shared, Side1, Side2, Marks

\* What a walk does not touch.
Apart(s, s0) ==
  /\ s.explored = s0.explored /\ s.layer = s0.layer /\ s.depth = s0.depth
  /\ s.todo = s0.todo /\ s.init = s0.init

\* The commits that may still be marked from the other side, and those with no mark.
OneSided(marks) == {c \in DOMAIN marks : marks[c] \notin Shared}
Unmarked(marks) == {c \in DOMAIN marks : marks[c] = "none"}

\* A set of commits that gets smaller has fewer commits.
LEMMA FewerCommits ==
  ASSUME NEW n \in Nat, NEW S, S \subseteq 1..n, NEW T, T \subseteq S
  PROVE  /\ Cardinality(S) \in Nat /\ Cardinality(T) \in Nat
         /\ Cardinality(T) <= Cardinality(S)
         /\ T # S => Cardinality(T) < Cardinality(S)
<1>1. IsFiniteSet(1..n)
  BY FS_Interval
<1>2. IsFiniteSet(S)
  BY <1>1, FS_Subset
<1>3. /\ IsFiniteSet(T) /\ Cardinality(T) <= Cardinality(S)
      /\ (Cardinality(T) = Cardinality(S) => S = T)
  BY <1>2, FS_Subset
<1>4. Cardinality(S) \in Nat /\ Cardinality(T) \in Nat
  BY <1>2, <1>3, FS_CardinalityType
<1> QED BY <1>3, <1>4

\* What the marks of a walk leave to do.
Left(marks) == Cardinality(OneSided(marks)) + Cardinality(Unmarked(marks))

LEMMA MarkLeavesLess ==
  ASSUME NEW n \in Nat, NEW marks \in [1..n -> Marks], NEW a \in 1..n, NEW mark \in Marks
  PROVE  LET old == marks[a]
             after == UpdateMark(mark, old)
             marks2 == [marks EXCEPT ![a] = after]
         IN /\ marks2 \in [1..n -> Marks] /\ Left(marks) \in Nat /\ Left(marks2) \in Nat
            /\ Left(marks2) <= Left(marks)
            /\ old \notin {"seenBoth", "LCA", after} => Left(marks2) < Left(marks)
<1> DEFINE old == marks[a]
           after == UpdateMark(mark, old)
           marks2 == [marks EXCEPT ![a] = after]
<1>1. /\ old \in Marks /\ after \in Marks /\ after # "none"
      /\ (old \in Shared => after \in Shared)
      /\ (old \in {"seen1", "seen2"} => after \in {old, "seenBoth", "LCA"})
  <2>1. old \in Marks
    OBVIOUS
  <2> HIDE DEF old
  <2> QED BY <2>1, MarkAfter, CoversMore DEF Shared
<1> HIDE DEF old, after
<1>2. /\ marks2 \in [1..n -> Marks] /\ marks2[a] = after
      /\ \A c \in 1..n : c # a => marks2[c] = marks[c]
  BY <1>1
<1>3. marks[a] = old /\ DOMAIN marks = 1..n /\ DOMAIN marks2 = 1..n
  BY <1>2 DEF old
<1> HIDE DEF marks2
<1>4. /\ OneSided(marks) \subseteq 1..n /\ OneSided(marks2) \subseteq OneSided(marks)
      /\ Unmarked(marks) \subseteq 1..n /\ Unmarked(marks2) \subseteq Unmarked(marks)
  BY <1>1, <1>2, <1>3 DEF OneSided, Unmarked
<1>5. /\ Cardinality(OneSided(marks)) \in Nat /\ Cardinality(OneSided(marks2)) \in Nat
      /\ Cardinality(OneSided(marks2)) <= Cardinality(OneSided(marks))
      /\ (OneSided(marks2) # OneSided(marks) =>
           Cardinality(OneSided(marks2)) < Cardinality(OneSided(marks)))
  BY <1>4, FewerCommits
<1>6. /\ Cardinality(Unmarked(marks)) \in Nat /\ Cardinality(Unmarked(marks2)) \in Nat
      /\ Cardinality(Unmarked(marks2)) <= Cardinality(Unmarked(marks))
      /\ (Unmarked(marks2) # Unmarked(marks) =>
           Cardinality(Unmarked(marks2)) < Cardinality(Unmarked(marks)))
  BY <1>4, FewerCommits
<1>7. Left(marks) \in Nat /\ Left(marks2) \in Nat /\ Left(marks2) <= Left(marks)
  BY <1>5, <1>6 DEF Left
<1>8. ASSUME old \notin {"seenBoth", "LCA", after}
      PROVE  Left(marks2) < Left(marks)
  <2>1. OneSided(marks2) # OneSided(marks) \/ Unmarked(marks2) # Unmarked(marks)
    <3>1. CASE old = "none"
      <4>1. a \in Unmarked(marks) /\ a \notin Unmarked(marks2)
        BY <1>1, <1>2, <1>3, <3>1 DEF Unmarked
      <4> QED BY <4>1
    <3>2. CASE old \in {"seen1", "seen2"}
      <4>1. a \in OneSided(marks) /\ a \notin OneSided(marks2)
        BY <1>1, <1>2, <1>3, <1>8, <3>2 DEF OneSided, Shared
      <4> QED BY <4>1
    <3> QED BY <1>1, <1>8, <3>1, <3>2 DEF Marks
  <2> QED BY <1>5, <1>6, <2>1 DEF Left
<1>9. marks2 \in [1..n -> Marks]
  BY <1>2
<1> QED BY <1>7, <1>8, <1>9 DEF old, after, marks2

LEMMA LeftNat ==
  ASSUME NEW n \in Nat, NEW marks \in [1..n -> Marks]
  PROVE  Left(marks) \in Nat
<1>1. OneSided(marks) \subseteq 1..n /\ Unmarked(marks) \subseteq 1..n
  BY DEF OneSided, Unmarked
<1>2. Cardinality(OneSided(marks)) \in Nat /\ Cardinality(Unmarked(marks)) \in Nat
  BY <1>1, FewerCommits
<1> QED BY <1>2 DEF Left

LEMMA SearchMarked ==
  ASSUME NEW h, NEW s \in Searches(h), NEW a \in Commits(h), NEW m \in Marks
  PROVE  LET s2 == Marked(s, a, m)
         IN /\ s2 \in Searches(h) /\ Apart(s2, s) /\ s2.marks = [s.marks EXCEPT ![a] = m]
            /\ s2.complete <=> s.complete \/ (m \in Shared /\ a \in s.init)
<1> DEFINE marks2 == [s.marks EXCEPT ![a] = m]
           over == s.complete \/ (m \in {"seenBoth", "LCA"} /\ a \in s.init)
<1>1. s.marks \in [Commits(h) -> Marks] /\ s.complete \in BOOLEAN
  BY DEF Searches
<1>2. marks2 \in [Commits(h) -> Marks] /\ over \in BOOLEAN
  BY <1>1
<1>3. Marked(s, a, m) = [s EXCEPT !.marks = marks2, !.complete = over]
  BY Zenon DEF Marked
<1>4. over <=> s.complete \/ (m \in Shared /\ a \in s.init)
  BY DEF Shared
<1> HIDE DEF marks2, over
<1> DEFINE s2 == [s EXCEPT !.marks = marks2, !.complete = over]
<1>5. s2 \in Searches(h)
  BY <1>2 DEF Searches
<1>6. Apart(s2, s) /\ s2.marks = marks2 /\ s2.complete = over
  BY DEF Searches, Apart
<1> HIDE DEF s2
<1>7. Marked(s, a, m) = s2
  BY <1>3 DEF s2
<1> QED BY <1>4, <1>5, <1>6, <1>7 DEF marks2

\* The commits that wait behind a, which was marked old and is marked after.
More(h, s, a, old, after) ==
  IF old \in {"seenBoth", "LCA", after} \/ a \notin s.explored THEN {} ELSE h[a].parents

\* A step of a walk: one commit is marked, and fewer marks may change or fewer
\* commits wait.
LEMMA MarkNextIs ==
  ASSUME NEW h, Graph(h), NEW w \in Walks(h), w.queue # << >>
  PROVE  LET a == Head(w.queue)
             old == w.s.marks[a]
             after == UpdateMark(w.mark, old)
             more == More(h, w.s, a, old, after)
             w2 == MarkNext(h, w)
         IN /\ w2 \in Walks(h) /\ a \in Commits(h) /\ old \in Marks /\ after \in Marks
            /\ Apart(w2.s, w.s) /\ w2.s.marks = [w.s.marks EXCEPT ![a] = after]
            /\ w2.s.complete <=> w.s.complete \/ (after \in Shared /\ a \in w.s.init)
            /\ after = "LCA" => w2.mark = "seenBoth"
            /\ after # "LCA" => w2.mark = after
            /\ ToSet(w.queue) = {a} \cup ToSet(Tail(w.queue))
            /\ ToSet(w2.queue) = ToSet(Tail(w.queue)) \cup more
            /\ more = {} => Len(w2.queue) = Len(w.queue) - 1
            /\ Len(w.queue) \in Nat \ {0} /\ (Len(w.queue) = 1 => ToSet(Tail(w.queue)) = {})
            /\ \/ Left(w2.s.marks) < Left(w.s.marks)
               \/ Left(w2.s.marks) = Left(w.s.marks) /\ Len(w2.queue) < Len(w.queue)
<1> DEFINE a == Head(w.queue)
           old == w.s.marks[a]
           after == UpdateMark(w.mark, old)
           more == More(h, w.s, a, old, after)
           s2 == Marked(w.s, a, after)
           rest == Tail(w.queue)
           last == SetToSeq(more)
           mark2 == IF after = "LCA" THEN "seenBoth" ELSE after
           w2 == MarkNext(h, w)
<1>1. /\ w2 = [s |-> w2.s, queue |-> w2.queue, mark |-> w2.mark]
      /\ w2.s = s2 /\ w2.queue = rest \o last /\ w2.mark = mark2
  <2>1. (IF old \in {"seenBoth", "LCA", after} THEN {}
         ELSE IF a \in w.s.explored THEN h[a].parents ELSE {}) = more
    BY DEF More
  <2> HIDE DEF more, old, after, a
  <2> QED BY <2>1 DEF MarkNext, more, old, after, a
<1> HIDE DEF w2
<1>2. w.s \in Searches(h) /\ w.queue \in Seq(Commits(h)) /\ w.mark \in Marks
  BY DEF Walks
<1>3. /\ a \in Commits(h) /\ rest \in Seq(Commits(h))
      /\ Len(w.queue) \in Nat \ {0} /\ Len(rest) = Len(w.queue) - 1
      /\ ToSet(w.queue) = {a} \cup ToSet(rest)
      /\ Len(w.queue) = 1 => ToSet(rest) = {}
  BY <1>2, QueueTaken
<1>4. w.s.marks \in [Commits(h) -> Marks] /\ old \in Marks
  BY <1>2, <1>3 DEF Searches
<1> HIDE DEF a, rest
<1>5. after \in Marks
  BY <1>2, <1>4, MarkAfter
<1>6. /\ s2 \in Searches(h) /\ Apart(s2, w.s) /\ s2.marks = [w.s.marks EXCEPT ![a] = after]
      /\ s2.complete <=> w.s.complete \/ (after \in Shared /\ a \in w.s.init)
  <2> HIDE DEF after
  <2> QED BY <1>2, <1>3, <1>5, SearchMarked
<1>7. /\ Left(w.s.marks) \in Nat /\ Left(s2.marks) \in Nat
      /\ Left(s2.marks) <= Left(w.s.marks)
      /\ old \notin {"seenBoth", "LCA", after} => Left(s2.marks) < Left(w.s.marks)
  BY <1>2, <1>3, <1>4, <1>6, MarkLeavesLess DEF Graph, Commits
<1>8. more \subseteq Commits(h) /\ (old \in {"seenBoth", "LCA", after} => more = {})
  BY <1>3, ParentsOlder DEF More
<1> HIDE DEF old, after, more, s2
<1>9. last \in Seq(Commits(h)) /\ ToSet(last) = more /\ (more = {} => Len(last) = 0)
  <2>1. last \in Seq(more) /\ ToSet(last) = more
    BY <1>8, InSomeOrder DEF Graph, Commits
  <2>2. more = {} => Len(last) = 0
    BY <2>1
  <2> QED BY <1>8, <2>1, <2>2
<1> HIDE DEF last
<1>10. /\ rest \o last \in Seq(Commits(h)) /\ Len(rest \o last) = Len(rest) + Len(last)
       /\ ToSet(rest \o last) = ToSet(rest) \cup ToSet(last)
  BY <1>3, <1>9, QueuePut
<1>11. mark2 \in Marks
  BY <1>5 DEF Marks
<1> HIDE DEF mark2
<1>12. w2 \in Walks(h)
  BY <1>1, <1>6, <1>10, <1>11 DEF Walks
<1>13. more = {} => Len(w2.queue) = Len(w.queue) - 1
  BY <1>1, <1>3, <1>9, <1>10
<1>14. \/ Left(w2.s.marks) < Left(w.s.marks)
       \/ Left(w2.s.marks) = Left(w.s.marks) /\ Len(w2.queue) < Len(w.queue)
  <2>1. CASE old \in {"seenBoth", "LCA", after}
    <3>1. Len(w2.queue) < Len(w.queue)
      BY <1>3, <1>8, <1>13, <2>1
    <3> QED BY <1>1, <1>7, <3>1
  <2>2. CASE old \notin {"seenBoth", "LCA", after}
    BY <1>1, <1>7, <2>2
  <2> QED BY <2>1, <2>2
<1>15. ToSet(w2.queue) = ToSet(rest) \cup more
  BY <1>1, <1>9, <1>10
<1>16. (after = "LCA" => w2.mark = "seenBoth") /\ (after # "LCA" => w2.mark = after)
  BY <1>1 DEF mark2
<1> QED
  BY <1>1, <1>3, <1>4, <1>5, <1>6, <1>12, <1>13, <1>14, <1>15, <1>16
  DEF a, rest, old, after, more, w2

\* A set of walks that their steps do not leave.
WalksIn(h, I) ==
  I \subseteq Walks(h) /\ \A w \in I : w.queue # << >> => MarkNext(h, w) \in I

FirstWalk(s, mark, c) == [s |-> s, queue |-> <<c>>, mark |-> mark]

\* A walk ends, in whatever its steps do not leave.
LEMMA WalkEnds ==
  ASSUME NEW h, Graph(h), NEW s, NEW mark, NEW c, NEW I, WalksIn(h, I),
         FirstWalk(s, mark, c) \in I
  PROVE  \E w \in I : w.queue = << >> /\ UpdateAncestors(h, s, mark, c) = w.s
<1> DEFINE W == Walks(h)
           Body(g) == [w \in W |-> IF w.queue = << >> THEN w.s ELSE g[MarkNext(h, w)]]
           Walk == CHOOSE g : g = Body(g)
           done == {w \in W : w.queue = << >>}
           next == [w \in W |-> IF w \in done THEN w ELSE MarkNext(h, w)]
           out == [w \in W |-> w.s]
           start == FirstWalk(s, mark, c)
           mu == [w \in I |-> Left(w.s.marks)]
           nu == [w \in I |-> Len(w.queue)]
           good == {w.s : w \in {v \in I : v.queue = << >>}}
<1>1. next \in [W -> W]
  BY MarkNextIs
<1>2. \E G : G = Body(G)
  <2> HIDE DEF W, done, out, next
  <2>0. PICK G : Loops(W, done, next, out, G)
    BY <1>1, LoopExists
  <2>1. G = [w \in W |-> IF w \in done THEN out[w] ELSE G[next[w]]]
    BY <2>0 DEF Loops
  <2>2. \A w \in W : (IF w \in done THEN out[w] ELSE G[next[w]])
                     = (IF w.queue = << >> THEN w.s ELSE G[MarkNext(h, w)])
    BY DEF out, next, done
  <2>3. [w \in W |-> IF w \in done THEN out[w] ELSE G[next[w]]]
        = [w \in W |-> IF w.queue = << >> THEN w.s ELSE G[MarkNext(h, w)]]
    BY <2>2
  <2> QED BY <2>1, <2>3 DEF W
<1>3. Walk = Body(Walk)
  <2> HIDE DEF Body
  <2> QED BY <1>2
<1>4. UpdateAncestors(h, s, mark, c) = Walk[start]
  BY DEF UpdateAncestors, FirstWalk
<1> HIDE DEF Walk
<1>5. \A w \in W : Walk[w] = IF w.queue = << >> THEN w.s ELSE Walk[MarkNext(h, w)]
  BY <1>3
<1>6. I \subseteq W
  BY DEF WalksIn
<1>7. mu \in [I -> Nat] /\ nu \in [I -> Nat]
  <2> SUFFICES ASSUME NEW w \in I PROVE Left(w.s.marks) \in Nat /\ Len(w.queue) \in Nat
    OBVIOUS
  <2>1. w.s.marks \in [Commits(h) -> Marks] /\ w.queue \in Seq(Commits(h))
    BY <1>6 DEF Walks, Searches
  <2> QED BY <2>1, LeftNat, LenProperties DEF Graph, Commits
<1>8. \A w \in I : w \in done => Walk[w] \in good
  BY <1>5, <1>6
<1>9. ASSUME NEW w \in I, w \notin done
      PROVE  /\ next[w] \in I /\ Walk[w] = Walk[next[w]]
             /\ \/ mu[next[w]] < mu[w]
                \/ mu[next[w]] = mu[w] /\ nu[next[w]] < nu[w]
  <2>1. w.queue # << >> /\ next[w] = MarkNext(h, w) /\ w \in Walks(h)
    BY <1>6, <1>9
  <2>2. Walk[w] = Walk[next[w]]
    BY <1>5, <2>1
  <2> HIDE DEF next
  <2>3. /\ next[w] \in I
        /\ \/ Left(next[w].s.marks) < Left(w.s.marks)
           \/ Left(next[w].s.marks) = Left(w.s.marks) /\ Len(next[w].queue) < Len(w.queue)
    <3> DEFINE w2 == MarkNext(h, w)
    <3>1. w2 \in I
      BY <2>1 DEF WalksIn
    <3>2. \/ Left(w2.s.marks) < Left(w.s.marks)
          \/ Left(w2.s.marks) = Left(w.s.marks) /\ Len(w2.queue) < Len(w.queue)
      BY <2>1, MarkNextIs
    <3>3. next[w] = w2
      BY <2>1
    <3> HIDE DEF w2
    <3> QED BY <3>1, <3>2, <3>3
  <2> QED BY <2>2, <2>3
<1>10. start \in I
  OBVIOUS
<1> HIDE DEF done, next, mu, nu, good, W, Body, out, start
<1>11. \A w \in I : Walk[w] \in good
  <2>1. GoodEnd(I, done, Walk, good)
    BY <1>8 DEF GoodEnd
  <2>2. Closer(I, done, next, Walk, mu, nu)
    BY <1>9 DEF Closer
  <2> QED BY <1>7, <2>1, <2>2, LoopEnds
<1>12. Walk[start] \in good
  BY <1>10, <1>11
<1> QED BY <1>4, <1>12 DEF good

\* Any walk ends.
LEMMA WalkTypes ==
  ASSUME NEW h, Graph(h), NEW s \in Searches(h), NEW mark \in Marks, NEW c \in Commits(h)
  PROVE  /\ FirstWalk(s, mark, c) \in Walks(h)
         /\ UpdateAncestors(h, s, mark, c) \in Searches(h)
         /\ Apart(UpdateAncestors(h, s, mark, c), s)
<1> DEFINE I == {w \in Walks(h) : Apart(w.s, s)}
<1>1. FirstWalk(s, mark, c) \in Walks(h) /\ FirstWalk(s, mark, c).s = s
  BY DEF FirstWalk, Walks
<1>2. FirstWalk(s, mark, c) \in I
  BY <1>1 DEF Apart
<1>3. ASSUME NEW w \in I, w.queue # << >> PROVE MarkNext(h, w) \in I
  <2>1. MarkNext(h, w) \in Walks(h) /\ Apart(MarkNext(h, w).s, w.s)
    BY <1>3, MarkNextIs
  <2> QED BY <2>1 DEF Apart
<1>4. WalksIn(h, I)
  BY <1>3 DEF WalksIn
<1>5. PICK w \in I : UpdateAncestors(h, s, mark, c) = w.s
  BY <1>2, <1>4, WalkEnds
<1> QED BY <1>1, <1>5 DEF Walks

(* The search: how commits are explored. *)

\* The searches after the mark reached one more of the parents.
LEMMA UpdateAllIs ==
  ASSUME NEW h, Graph(h), NEW s \in Searches(h), NEW mark \in Marks,
         NEW ps \in Seq(Commits(h))
  PROVE  \E after \in [0..Len(ps) -> Searches(h)] :
           /\ after[0] = s /\ UpdateAll(h, s, mark, ps) = after[Len(ps)]
           /\ \A i \in 1..Len(ps) :
                after[i] = UpdateAncestors(h, after[i - 1], mark, ps[i])
           /\ \A i \in 0..Len(ps) : Apart(after[i], s)
<1> DEFINE n == Len(ps)
           S == {t \in Searches(h) : Apart(t, s)}
           Body(g) == [i \in 0..n |-> IF i = 0 THEN s
                                      ELSE UpdateAncestors(h, g[i - 1], mark, ps[i])]
           after == CHOOSE g : g = Body(g)
           step == [i \in 1..n |-> [t \in S |-> UpdateAncestors(h, t, mark, ps[i])]]
<1>1. n \in Nat /\ \A i \in 1..n : ps[i] \in Commits(h)
  BY LenProperties, ElementOfSeq
<1>2. s \in S
  BY DEF Apart
<1>3. ASSUME NEW i \in 1..n, NEW t \in S
      PROVE  UpdateAncestors(h, t, mark, ps[i]) \in S
  <2> DEFINE t2 == UpdateAncestors(h, t, mark, ps[i])
  <2>1. t2 \in Searches(h) /\ Apart(t2, t)
    BY <1>1, WalkTypes
  <2> QED BY <2>1 DEF Apart
<1>4. UpdateAll(h, s, mark, ps) = after[n]
  BY DEF UpdateAll
<1> HIDE DEF n, S
<1>5. \E g : g = Body(g)
  <2>1. step \in [1..n -> [S -> S]]
    BY <1>3
  <2> HIDE DEF step
  <2>2. PICK g \in [0..n -> S] : Counts(n, s, step, g)
    BY <1>1, <1>2, <2>1, CountExists
  <2>3. g = [i \in 0..n |-> IF i = 0 THEN s ELSE step[i][g[i - 1]]]
    BY <2>2 DEF Counts
  <2>4. ASSUME NEW i \in 0..n, i # 0
        PROVE  step[i][g[i - 1]] = UpdateAncestors(h, g[i - 1], mark, ps[i])
    <3>1. i \in 1..n /\ g[i - 1] \in S
      BY <1>1, <2>2, <2>4
    <3> QED BY <3>1 DEF step
  <2>5. [i \in 0..n |-> IF i = 0 THEN s ELSE step[i][g[i - 1]]]
        = [i \in 0..n |-> IF i = 0 THEN s ELSE UpdateAncestors(h, g[i - 1], mark, ps[i])]
    BY <2>4
  <2> QED BY <2>3, <2>5
<1>6. after = Body(after)
  <2> HIDE DEF Body
  <2> QED BY <1>5
<1> HIDE DEF after
<1>7. /\ after[0] = s
      /\ \A i \in 1..n : after[i] = UpdateAncestors(h, after[i - 1], mark, ps[i])
  BY <1>1, <1>6
<1>8. \A i \in 0..n : i \in {j \in 0..n : after[j] \in S}
  <2> DEFINE P == {j \in 0..n : after[j] \in S}
  <2>1. 0 \in P
    BY <1>1, <1>2, <1>7
  <2>2. ASSUME NEW i \in 1..n, i - 1 \in P PROVE i \in P
    BY <1>1, <1>3, <1>7, <2>2
  <2> HIDE DEF P
  <2> QED BY <1>1, <2>1, <2>2, CountsUp DEF P
<1>9. after = [i \in 0..n |-> after[i]]
  BY <1>6
<1>10. after \in [0..n -> S]
  BY <1>8, <1>9
<1>11. after \in [0..n -> Searches(h)] /\ \A i \in 0..n : Apart(after[i], s)
  BY <1>10 DEF S
<1> QED BY <1>4, <1>7, <1>11 DEF n

LEMMA AtDepthIs ==
  ASSUME NEW h, NEW d \in Nat, NEW cs \in Seq(Commits(h))
  PROVE  /\ AtDepth(d, cs) \in Seq(Nat \X Commits(h))
         /\ ToSet(AtDepth(d, cs)) = {<<d, c>> : c \in ToSet(cs)}
<1>1. /\ Len(cs) \in Nat /\ DOMAIN cs = 1..Len(cs)
      /\ \A i \in 1..Len(cs) : cs[i] \in Commits(h)
  BY LenProperties, ElementOfSeq
<1>2. AtDepth(d, cs) \in [1..Len(cs) -> Nat \X Commits(h)]
  BY <1>1 DEF AtDepth
<1>3. AtDepth(d, cs) \in Seq(Nat \X Commits(h))
  BY <1>1, <1>2
<1>4. ToSet(AtDepth(d, cs)) = {<<d, c>> : c \in ToSet(cs)}
  BY <1>1 DEF AtDepth, ToSet
<1> QED BY <1>3, <1>4

\* The search s when c is met at depth d, before its mark reaches its parents.
Met(s, d, c) ==
  [s EXCEPT !.explored = @ \cup {c},
            !.layer = IF d # s.depth THEN {c} ELSE @ \cup {c},
            !.depth = d,
            !.complete = @ \/ (d # s.depth /\ \A x \in s.layer : s.marks[x] \in Shared)]

LEMMA MetIs ==
  ASSUME NEW h, NEW s \in Searches(h), NEW d \in Nat, NEW c \in Commits(h)
  PROVE  LET s1 == Met(s, d, c)
         IN /\ s1 \in Searches(h) /\ s1.marks = s.marks /\ s1.todo = s.todo
            /\ s1.init = s.init /\ s1.depth = d /\ s1.explored = s.explored \cup {c}
<1> DEFINE over == d # s.depth /\ \A x \in s.layer : s.marks[x] \in Shared
           layer1 == IF d # s.depth THEN {c} ELSE s.layer \cup {c}
           complete1 == s.complete \/ over
           s1 == Met(s, d, c)
<1>1. s.explored \subseteq Commits(h) /\ s.layer \subseteq Commits(h)
  BY DEF Searches
<1>2. complete1 \in BOOLEAN /\ layer1 \subseteq Commits(h)
  BY <1>1
<1>3. s1 = [s EXCEPT !.explored = s.explored \cup {c}, !.layer = layer1, !.depth = d,
                     !.complete = complete1]
  BY Zenon DEF Met
<1> HIDE DEF over, layer1, complete1, s1
<1>5. s1 \in Searches(h) /\ s1.marks = s.marks /\ s1.todo = s.todo
  BY <1>1, <1>2, <1>3 DEF Searches
<1>6. /\ s1.init = s.init /\ s1.depth = d /\ s1.explored = s.explored \cup {c}
      /\ s1.layer = layer1 /\ s1.complete = complete1
  BY <1>1, <1>2, <1>3 DEF Searches
<1> QED BY <1>5, <1>6 DEF s1


LEMMA MetLayer ==
  ASSUME NEW h, NEW s \in Searches(h), NEW d \in Nat, NEW c \in Commits(h)
  PROVE  LET s1 == Met(s, d, c)
         IN /\ d # s.depth => s1.layer = {c}
            /\ d = s.depth => s1.layer = s.layer \cup {c}
            /\ s1.complete <=>
                 s.complete \/ (d # s.depth /\ \A x \in s.layer : s.marks[x] \in Shared)
<1> DEFINE over == d # s.depth /\ \A x \in s.layer : s.marks[x] \in Shared
           layer1 == IF d # s.depth THEN {c} ELSE s.layer \cup {c}
           complete1 == s.complete \/ over
           s1 == Met(s, d, c)
<1>1. s.explored \subseteq Commits(h) /\ s.layer \subseteq Commits(h)
  BY DEF Searches
<1>2. complete1 \in BOOLEAN /\ layer1 \subseteq Commits(h)
  BY <1>1
<1>3. s1 = [s EXCEPT !.explored = s.explored \cup {c}, !.layer = layer1, !.depth = d,
                     !.complete = complete1]
  BY Zenon DEF Met
<1>4. complete1 <=> s.complete \/ over
  OBVIOUS
<1>5. /\ d # s.depth => layer1 = {c}
      /\ d = s.depth => layer1 = s.layer \cup {c}
  OBVIOUS
<1> HIDE DEF over, layer1, complete1, s1
<1>6. s1.layer = layer1 /\ s1.complete = complete1
  BY <1>1, <1>2, <1>3 DEF Searches
<1> QED BY <1>4, <1>5, <1>6 DEF over, s1

\* The parents of c that wait for the next layer.
Waiting(h, s, d, c) == {<<d + 1, p>> : p \in h[c].parents \ (s.explored \cup {c})}

\* The commit c is explored at depth d: its parents are ps and those not explored make r.
Explored(h, s, d, c, ps, r) ==
  LET s2 == UpdateAll(h, Met(s, d, c), s.marks[c], ps)
      s3 == Explore(h, s, d, c)
  IN /\ ToSet(ps) = h[c].parents
     /\ ToSet(r) = Waiting(h, s, d, c)
     /\ s2 \in Searches(h) /\ s3 \in Searches(h) /\ s3.marks = s2.marks
     /\ s3.complete = s2.complete /\ s3.todo = s.todo \o r
     /\ s3.explored = s.explored \cup {c} /\ s3.depth = d /\ s3.init = s.init
     /\ s3.layer = Met(s, d, c).layer

LEMMA ExploreIs ==
  ASSUME NEW h, Graph(h), NEW s \in Searches(h), NEW d \in Nat, NEW c \in Commits(h)
  PROVE  \E ps \in Seq(Commits(h)), r \in Seq(Nat \X Commits(h)) : Explored(h, s, d, c, ps, r)
<1> DEFINE s1 == Met(s, d, c)
           ps == SetToSeq(h[c].parents)
           s2 == UpdateAll(h, s1, s1.marks[c], ps)
           next == SetToSeq(h[c].parents \ s1.explored)
           r == AtDepth(d + 1, next)
           s3 == [s2 EXCEPT !.todo = @ \o r]
<1>1. Explore(h, s, d, c) = s3
  BY Zenon DEF Explore, Met, Shared
<1>2. /\ s1 \in Searches(h) /\ s1.marks = s.marks /\ s1.explored = s.explored \cup {c}
      /\ s1.todo = s.todo /\ s1.init = s.init /\ s1.depth = d
  BY MetIs
<1>3. s.marks[c] \in Marks
  BY DEF Searches
<1>4. h[c].parents \subseteq Commits(h) /\ Commits(h) = 1..Len(h) /\ Len(h) \in Nat
  BY ParentsOlder DEF Graph, Commits
<1> HIDE DEF s1
<1>5. ps \in Seq(Commits(h)) /\ ToSet(ps) = h[c].parents
  <2>1. ps \in Seq(h[c].parents) /\ ToSet(ps) = h[c].parents
    BY <1>4, InSomeOrder
  <2> HIDE DEF ps
  <2> QED BY <1>4, <2>1
<1> DEFINE more == h[c].parents \ s1.explored
<1>6. more \subseteq Commits(h) /\ more = h[c].parents \ (s.explored \cup {c})
  BY <1>2, <1>4
<1>7. next \in Seq(Commits(h)) /\ ToSet(next) = more
  <2> HIDE DEF more
  <2>1. SetToSeq(more) \in Seq(more) /\ ToSet(SetToSeq(more)) = more
    BY <1>4, <1>6, InSomeOrder
  <2>2. SetToSeq(more) \in Seq(Commits(h))
    BY <1>6, <2>1
  <2> QED BY <2>1, <2>2 DEF more
<1>8. s2 \in Searches(h) /\ Apart(s2, s1)
  <2> DEFINE m == s1.marks[c]
  <2>0. m \in Marks /\ s2 = UpdateAll(h, s1, m, ps)
    BY <1>2, <1>3
  <2> HIDE DEF ps, m, s2
  <2>1. PICK after \in [0..Len(ps) -> Searches(h)] :
          /\ after[0] = s1 /\ UpdateAll(h, s1, m, ps) = after[Len(ps)]
          /\ \A i \in 1..Len(ps) : after[i] = UpdateAncestors(h, after[i - 1], m, ps[i])
          /\ \A i \in 0..Len(ps) : Apart(after[i], s1)
    BY <1>2, <1>5, <2>0, UpdateAllIs
  <2>2. Len(ps) \in 0..Len(ps)
    BY <1>5, LenProperties
  <2> QED BY <2>0, <2>1, <2>2
<1> HIDE DEF ps, next
<1>9. /\ r \in Seq(Nat \X Commits(h))
      /\ ToSet(r) = Waiting(h, s, d, c)
  <2>1. d + 1 \in Nat
    OBVIOUS
  <2>2. r \in Seq(Nat \X Commits(h)) /\ ToSet(r) = {<<d + 1, p>> : p \in ToSet(next)}
    BY <1>7, <2>1, AtDepthIs
  <2> QED BY <1>6, <1>7, <2>2 DEF Waiting
<1> HIDE DEF s2, r, more
<1> DEFINE todo3 == s2.todo \o r
<1>10. todo3 \in Seq(Nat \X Commits(h))
  <2>1. s2.todo \in Seq(Nat \X Commits(h))
    BY <1>8 DEF Searches
  <2> QED BY <1>9, <2>1, QueuePut
<1>11. s3 = [s2 EXCEPT !.todo = todo3]
  OBVIOUS
<1> HIDE DEF todo3, s3
<1>12. /\ s3 \in Searches(h) /\ s3.marks = s2.marks /\ s3.complete = s2.complete
       /\ s3.todo = todo3 /\ s3.explored = s2.explored /\ s3.layer = s2.layer
       /\ s3.depth = s2.depth /\ s3.init = s2.init
  BY <1>8, <1>10, <1>11 DEF Searches
<1>13. s2 = UpdateAll(h, Met(s, d, c), s.marks[c], ps)
  BY <1>2 DEF s2, s1
<1>14. /\ s3.complete = s2.complete /\ s3.todo = s.todo \o r
       /\ s3.explored = s.explored \cup {c} /\ s3.depth = d /\ s3.init = s.init
       /\ s3.layer = Met(s, d, c).layer
  BY <1>2, <1>8, <1>12 DEF Apart, todo3, s1
<1>15. Explored(h, s, d, c, ps, r)
  BY <1>1, <1>5, <1>8, <1>9, <1>12, <1>13, <1>14 DEF Explored
<1> QED BY <1>5, <1>9, <1>15

LEMMA ExploreTypes ==
  ASSUME NEW h, Graph(h), NEW s \in Searches(h), NEW d \in Nat, NEW c \in Commits(h)
  PROVE  /\ Explore(h, s, d, c) \in Searches(h)
         /\ Explore(h, s, d, c).explored = s.explored \cup {c}
<1>1. PICK ps, r : Explored(h, s, d, c, ps, r)
  BY ExploreIs
<1> QED BY <1>1 DEF Explored

\* A step of a search without its first commit.
Untodo(s) == [s EXCEPT !.todo = Tail(@)]

\* A step of a search: a commit more is explored, or one waits less.
LEMMA ExploreNextIs ==
  ASSUME NEW h, Graph(h), NEW s \in Searches(h), s.todo # << >>
  PROVE  LET d == Head(s.todo)[1]
             c == Head(s.todo)[2]
             rest == Untodo(s)
             s2 == ExploreNext(h, s)
         IN /\ d \in Nat /\ c \in Commits(h) /\ s2 \in Searches(h)
            /\ rest \in Searches(h) /\ rest.todo = Tail(s.todo) /\ rest.marks = s.marks
            /\ rest.explored = s.explored /\ rest.layer = s.layer /\ rest.depth = s.depth
            /\ rest.complete = s.complete /\ rest.init = s.init
            /\ c \in s.explored => s2 = rest
            /\ c \notin s.explored => s2 = Explore(h, rest, d, c)
            /\ \/ Cardinality(Commits(h) \ s2.explored) < Cardinality(Commits(h) \ s.explored)
               \/ /\ Cardinality(Commits(h) \ s2.explored) = Cardinality(Commits(h) \ s.explored)
                  /\ Len(s2.todo) < Len(s.todo)
<1> DEFINE top == Head(s.todo)
           d == top[1]
           c == top[2]
           rest == Untodo(s)
           s2 == ExploreNext(h, s)
<1>1. (c \in s.explored => s2 = rest) /\ (c \notin s.explored => s2 = Explore(h, rest, d, c))
  BY DEF ExploreNext, Untodo
<1>2. s.todo \in Seq(Nat \X Commits(h))
  BY DEF Searches
<1>3. /\ top \in Nat \X Commits(h) /\ Tail(s.todo) \in Seq(Nat \X Commits(h))
      /\ Len(Tail(s.todo)) = Len(s.todo) - 1 /\ Len(s.todo) \in Nat
  BY <1>2, QueueTaken
<1>4. /\ rest \in Searches(h) /\ rest.todo = Tail(s.todo) /\ rest.marks = s.marks
      /\ rest.explored = s.explored /\ rest.layer = s.layer /\ rest.depth = s.depth
      /\ rest.complete = s.complete /\ rest.init = s.init
  BY <1>3 DEF Searches, Untodo
<1>5. d \in Nat /\ c \in Commits(h)
  BY <1>3
<1> HIDE DEF d, c, top, rest, s2
<1>6. CASE c \in s.explored
  <2>1. s2 = rest
    BY <1>1, <1>6
  <2>2. Len(s2.todo) < Len(s.todo)
    <3>1. s2.todo = Tail(s.todo)
      BY <1>4, <2>1
    <3> QED BY <1>3, <3>1
  <2>3. Commits(h) \ s2.explored = Commits(h) \ s.explored
    BY <1>4, <2>1
  <2> QED BY <1>1, <1>4, <1>5, <1>6, <2>1, <2>2, <2>3 DEF s2, rest, d, c, top
<1>7. CASE c \notin s.explored
  <2>1. s2 = Explore(h, rest, d, c)
    BY <1>1, <1>7
  <2>2. s2 \in Searches(h) /\ s2.explored = s.explored \cup {c}
    <3> DEFINE e == Explore(h, rest, d, c)
    <3>1. e \in Searches(h) /\ e.explored = rest.explored \cup {c}
      <4>1. rest \in Searches(h)
        BY <1>4
      <4> QED BY <4>1, <1>5, ExploreTypes
    <3> QED BY <1>4, <2>1, <3>1
  <2> DEFINE S == Commits(h) \ s.explored
             T == Commits(h) \ s2.explored
  <2>4. Len(h) \in Nat /\ S \subseteq 1..Len(h) /\ T \subseteq S /\ T # S
    <3>1. Commits(h) = 1..Len(h) /\ Len(h) \in Nat
      BY DEF Commits, Graph
    <3>2. c \in S /\ c \notin T
      BY <1>5, <1>7, <2>2
    <3> QED BY <2>2, <3>1, <3>2
  <2> HIDE DEF S, T
  <2>5. Cardinality(T) < Cardinality(S)
    BY <2>4, FewerCommits
  <2> QED BY <1>1, <1>4, <1>5, <1>7, <2>2, <2>5 DEF S, T, s2, rest, d, c, top
<1> QED BY <1>6, <1>7

\* A set of searches that their steps do not leave.
SearchesIn(h, I) ==
  I \subseteq Searches(h) /\
  \A s \in I : ~s.complete /\ s.todo # << >> => ExploreNext(h, s) \in I

\* A search ends, in whatever its steps do not leave.
LEMMA SearchEnds ==
  ASSUME NEW h, Graph(h), NEW c1, NEW c2, c1 # c2, NEW I, SearchesIn(h, I),
         StartSearch(h, c1, c2) \in I
  PROVE  \E s \in I : /\ s.complete \/ s.todo = << >>
                      /\ Lcas(h, c1, c2) = {c \in Commits(h) : s.marks[c] = "LCA"}
<1> DEFINE W == Searches(h)
           Body(g) == [s \in W |-> IF s.complete \/ s.todo = << >> THEN s
                                   ELSE g[ExploreNext(h, s)]]
           Search == CHOOSE g : g = Body(g)
           done == {s \in W : s.complete \/ s.todo = << >>}
           next == [s \in W |-> IF s \in done THEN s ELSE ExploreNext(h, s)]
           out == [s \in W |-> s]
           start == StartSearch(h, c1, c2)
           mu == [s \in I |-> Cardinality(Commits(h) \ s.explored)]
           nu == [s \in I |-> Len(s.todo)]
           good == {s \in I : s.complete \/ s.todo = << >>}
<1>1. next \in [W -> W]
  <2> SUFFICES ASSUME NEW s \in W, s \notin done PROVE ExploreNext(h, s) \in W
    OBVIOUS
  <2>1. s.todo # << >>
    OBVIOUS
  <2> QED BY <2>1, ExploreNextIs
<1>2. \E G : G = Body(G)
  <2> HIDE DEF W, done, out, next
  <2>0. PICK G : Loops(W, done, next, out, G)
    BY <1>1, LoopExists
  <2>1. G = [s \in W |-> IF s \in done THEN out[s] ELSE G[next[s]]]
    BY <2>0 DEF Loops
  <2>2. \A s \in W : (IF s \in done THEN out[s] ELSE G[next[s]])
                     = (IF s.complete \/ s.todo = << >> THEN s ELSE G[ExploreNext(h, s)])
    BY DEF out, next, done
  <2>3. [s \in W |-> IF s \in done THEN out[s] ELSE G[next[s]]]
        = [s \in W |-> IF s.complete \/ s.todo = << >> THEN s ELSE G[ExploreNext(h, s)]]
    BY <2>2
  <2> QED BY <2>1, <2>3 DEF W
<1>3. Search = Body(Search)
  <2> HIDE DEF Body
  <2> QED BY <1>2
<1>4. Lcas(h, c1, c2) = {c \in Commits(h) : Search[start].marks[c] = "LCA"}
  BY DEF Lcas
<1> HIDE DEF Search
<1>5. \A s \in W : Search[s] = IF s.complete \/ s.todo = << >> THEN s
                               ELSE Search[ExploreNext(h, s)]
  BY <1>3
<1>6. I \subseteq W
  BY DEF SearchesIn
<1>7. start \in I
  OBVIOUS
<1>8. mu \in [I -> Nat] /\ nu \in [I -> Nat]
  <2> SUFFICES ASSUME NEW s \in I
               PROVE  Cardinality(Commits(h) \ s.explored) \in Nat /\ Len(s.todo) \in Nat
    OBVIOUS
  <2>1. s.todo \in Seq(Nat \X Commits(h))
    BY <1>6 DEF Searches
  <2>2. Commits(h) \ s.explored \subseteq Commits(h)
    OBVIOUS
  <2>3. Cardinality(Commits(h) \ s.explored) \in Nat
    BY <2>2, FewerCommits DEF Graph, Commits
  <2> QED BY <2>1, <2>3, LenProperties
<1>9. GoodEnd(I, done, Search, good)
  BY <1>5, <1>6 DEF GoodEnd
<1>10. Closer(I, done, next, Search, mu, nu)
  <2> SUFFICES ASSUME NEW s \in I, s \notin done
               PROVE  /\ next[s] \in I /\ Search[s] = Search[next[s]]
                      /\ \/ mu[next[s]] < mu[s]
                         \/ mu[next[s]] = mu[s] /\ nu[next[s]] < nu[s]
    BY DEF Closer
  <2> DEFINE s2 == ExploreNext(h, s)
  <2>1. ~s.complete /\ s.todo # << >> /\ next[s] = s2 /\ s \in Searches(h)
    BY <1>6
  <2>2. Search[s] = Search[next[s]]
    BY <1>5, <1>6, <2>1
  <2> HIDE DEF next
  <2>3. s2 \in I
    BY <2>1 DEF SearchesIn
  <2>4. \/ Cardinality(Commits(h) \ s2.explored) < Cardinality(Commits(h) \ s.explored)
        \/ /\ Cardinality(Commits(h) \ s2.explored) = Cardinality(Commits(h) \ s.explored)
           /\ Len(s2.todo) < Len(s.todo)
    BY <2>1, ExploreNextIs
  <2> HIDE DEF s2
  <2> QED BY <2>1, <2>2, <2>3, <2>4
<1> HIDE DEF done, next, mu, nu, W, Body, out, start, good
<1>11. \A s \in I : Search[s] \in good
  BY <1>8, <1>9, <1>10, LoopEnds
<1>12. Search[start] \in good
  BY <1>7, <1>11
<1> QED BY <1>4, <1>12 DEF good

LEMMA StartIs ==
  ASSUME NEW h, Graph(h), NEW c1 \in Commits(h), NEW c2 \in Commits(h), c1 # c2
  PROVE  LET s == StartSearch(h, c1, c2)
         IN /\ s \in Searches(h) /\ s.explored = {} /\ s.layer = {} /\ s.depth = 0
            /\ ToSet(s.todo) = {<<0, c1>>, <<0, c2>>} /\ ~s.complete /\ s.init = {c1, c2}
            /\ s.marks[c1] = "seen1" /\ s.marks[c2] = "seen2"
            /\ \A c \in Commits(h) : c \notin {c1, c2} => s.marks[c] = "none"
<1> DEFINE both == {c1, c2}
           todo0 == AtDepth(0, SetToSeq(both))
           marks0 == [c \in Commits(h) |-> IF c = c1 THEN "seen1"
                                           ELSE IF c = c2 THEN "seen2" ELSE "none"]
           s == StartSearch(h, c1, c2)
<1>1. both \subseteq Commits(h) /\ Commits(h) = 1..Len(h) /\ Len(h) \in Nat
  BY DEF Graph, Commits
<1>2. s = [marks |-> marks0, explored |-> {}, layer |-> {}, depth |-> 0,
           todo |-> todo0, complete |-> FALSE, init |-> both]
  BY DEF StartSearch
<1>3. /\ marks0 \in [Commits(h) -> Marks] /\ marks0[c1] = "seen1" /\ marks0[c2] = "seen2"
      /\ \A c \in Commits(h) : c \notin {c1, c2} => marks0[c] = "none"
  BY DEF Marks
<1>4. \A c : c \in both <=> c = c1 \/ c = c2
  OBVIOUS
<1> HIDE DEF both, marks0, s
<1>5. todo0 \in Seq(Nat \X Commits(h)) /\ ToSet(todo0) = {<<0, c>> : c \in both}
  <2> DEFINE q == SetToSeq(both)
  <2>1. q \in Seq(both) /\ ToSet(q) = both
    BY <1>1, InSomeOrder
  <2> HIDE DEF q
  <2>2. q \in Seq(Commits(h)) /\ 0 \in Nat
    BY <1>1, <2>1
  <2>3. AtDepth(0, q) \in Seq(Nat \X Commits(h)) /\ ToSet(AtDepth(0, q)) = {<<0, c>> : c \in ToSet(q)}
    BY <2>2, AtDepthIs
  <2> QED BY <2>1, <2>3 DEF q
<1> HIDE DEF todo0
<1>6. ToSet(todo0) = {<<0, c1>>, <<0, c2>>}
  BY <1>4, <1>5
<1>7. s \in Searches(h)
  BY <1>1, <1>2, <1>3, <1>5 DEF Searches
<1> QED BY <1>2, <1>3, <1>6, <1>7 DEF s, both
-----------------------------------------------------------------------------
(* What marks say. *)

\* The common ancestors that another common ancestor reaches.
Below(h, c1, c2) == (Ancestors(h, c1) \cap Ancestors(h, c2)) \ LowestCommon(h, c1, c2)

LEMMA ParentsBelow ==
  ASSUME NEW h, Graph(h), NEW c1 \in Commits(h), NEW c2 \in Commits(h),
         NEW x \in Ancestors(h, c1) \cap Ancestors(h, c2)
  PROVE  /\ h[x].parents \subseteq Below(h, c1, c2) /\ x \in Commits(h)
         /\ Ancestors(h, x) \subseteq {x} \cup Below(h, c1, c2)
<1> DEFINE B == Below(h, c1, c2)
           C == Ancestors(h, c1) \cap Ancestors(h, c2)
<1>1. C \subseteq Commits(h) /\ Downward(h, C)
  BY AncestorsReach DEF Downward
<1>2. ASSUME NEW y \in C, NEW p \in h[y].parents PROVE p \in B
  <2>1. p \in C /\ y \in Commits(h) /\ p \in Ancestors(h, y) /\ p # y
    <3>1. p \in C /\ y \in Commits(h)
      BY <1>1, <1>2 DEF Downward
    <3> HIDE DEF C, B
    <3>2. p \in Ancestors(h, y)
      BY <1>2, <3>1, ParentIsAncestor
    <3>3. p < y /\ p \in Nat /\ y \in Nat
      BY <1>2, <3>1, ParentsOlder DEF Commits
    <3> QED BY <3>1, <3>2, <3>3
  <2> QED BY <2>1 DEF Below, LowestCommon
<1>3. B \subseteq C
  BY DEF Below
<1>4. Downward(h, {x} \cup B) /\ {x} \cup B \subseteq Commits(h)
  BY <1>1, <1>2, <1>3 DEF Downward
<1>5. Ancestors(h, x) \subseteq {x} \cup B
  BY <1>4, AncestorsWithin
<1> QED BY <1>1, <1>2, <1>5

\* What the mark of x says of it: from where it is reached; and with "seenBoth", that
\* it is below a common ancestor.
Claims(h, c1, c2, x, m) ==
  /\ m \in Side1 => x \in Ancestors(h, c1)
  /\ m \in Side2 => x \in Ancestors(h, c2)
  /\ m = "seenBoth" => x \in Below(h, c1, c2)

Honest(h, c1, c2, marks) == \A x \in Commits(h) : Claims(h, c1, c2, x, marks[x])

\* A mark that may be passed to x.
Passed(h, c1, c2, x, m) ==
  m # "none" /\ Claims(h, c1, c2, x, m) /\ (m \in Shared => x \in Below(h, c1, c2))

\* All the lowest common ancestors are marked from both sides.
AllFound(h, c1, c2, marks) == \A x \in LowestCommon(h, c1, c2) : marks[x] \in Shared

LEMMA ClaimsAfter ==
  ASSUME NEW h, NEW c1, NEW c2, NEW x, NEW mark \in Marks, NEW old \in Marks,
         Passed(h, c1, c2, x, mark), Claims(h, c1, c2, x, old)
  PROVE  Claims(h, c1, c2, x, UpdateMark(mark, old))
<1> DEFINE after == UpdateMark(mark, old)
<1>1. /\ after \in Side1 => mark \in Side1 \/ old \in Side1
      /\ after \in Side2 => mark \in Side2 \/ old \in Side2
      /\ after = "seenBoth" => mark \in Shared \/ old = "seenBoth"
  BY MarkAfter DEF Passed
<1> HIDE DEF after
<1> QED BY <1>1 DEF Claims, Passed, after

\* When one of the two commits is reached from both sides, it is the only lowest
\* common ancestor: the check for fast-forwards.
LEMMA FastForwardFound ==
  ASSUME NEW h, Graph(h), NEW c1 \in Commits(h), NEW c2 \in Commits(h), NEW marks,
         Honest(h, c1, c2, marks), NEW c \in {c1, c2}, marks[c] \in Shared
  PROVE  AllFound(h, c1, c2, marks)
<1>1. c \in Ancestors(h, c1) \cap Ancestors(h, c2)
  BY DEF Honest, Claims, Shared, Side1, Side2
<1>2. Ancestors(h, c) \subseteq {c} \cup Below(h, c1, c2)
  BY <1>1, ParentsBelow
<1>3. \A x \in LowestCommon(h, c1, c2) : x \in Ancestors(h, c) /\ x \notin Below(h, c1, c2)
  BY DEF LowestCommon, Below
<1> QED BY <1>2, <1>3 DEF AllFound

\* What commits that are explored pass to their parents, but for commit c.
Propagated(h, c, explored, marks, waiting) ==
  \A x \in explored \ {c} : \A p \in h[x].parents :
    Covers(marks[x], marks[p]) \/ p \in waiting

\* A search in which the marks are right, all that pass by commit c aside.
Right(h, c1, c2, c, s) ==
  /\ s \in Searches(h) /\ s.init = {c1, c2}
  /\ Honest(h, c1, c2, s.marks)
  /\ \A x \in s.explored : s.marks[x] # "none"
  /\ Propagated(h, c, s.explored, s.marks, {})
  /\ s.complete => AllFound(h, c1, c2, s.marks)

\* The marks have gone up.
Up(h, s, s0) == \A x \in Commits(h) : Covers(s0.marks[x], s.marks[x])

\* The walks that pass the mark of c to its parent p, in a search s0.
RightWalks(h, c1, c2, c, p, mark, s0) ==
  {w \in Walks(h) :
     /\ Apart(w.s, s0) /\ w.s.init = {c1, c2} /\ Up(h, w.s, s0) /\ w.s.marks[c] = s0.marks[c]
     /\ Honest(h, c1, c2, w.s.marks)
     /\ \A x \in ToSet(w.queue) : x < c /\ Passed(h, c1, c2, x, w.mark)
     /\ w.mark # "seenBoth" => Len(w.queue) <= 1
     /\ \A x \in w.s.explored : w.s.marks[x] # "none"
     /\ Propagated(h, c, w.s.explored, w.s.marks,
                   IF w.mark = "seenBoth" THEN ToSet(w.queue) ELSE {})
     /\ w.s.complete => AllFound(h, c1, c2, w.s.marks)
     /\ Covers(mark, w.s.marks[p]) \/ (ToSet(w.queue) = {p} /\ w.mark = mark)}

LEMMA RightWalkNext ==
  ASSUME NEW h, Graph(h), NEW c1 \in Commits(h), NEW c2 \in Commits(h), NEW c \in Commits(h),
         NEW p \in Commits(h), NEW mark \in Marks, NEW s0 \in Searches(h),
         NEW w \in RightWalks(h, c1, c2, c, p, mark, s0), w.queue # << >>
  PROVE  MarkNext(h, w) \in RightWalks(h, c1, c2, c, p, mark, s0)
<1> DEFINE a == Head(w.queue)
           old == w.s.marks[a]
           after == UpdateMark(w.mark, old)
           more == More(h, w.s, a, old, after)
           rest == ToSet(Tail(w.queue))
           w2 == MarkNext(h, w)
           marks == w.s.marks
           marks2 == w2.s.marks
           waiting == IF w.mark = "seenBoth" THEN ToSet(w.queue) ELSE {}
<1>1. /\ w \in Walks(h)
      /\ Apart(w.s, s0) /\ w.s.init = {c1, c2} /\ Up(h, w.s, s0) /\ marks[c] = s0.marks[c]
      /\ Honest(h, c1, c2, marks)
      /\ \A x \in ToSet(w.queue) : x < c /\ Passed(h, c1, c2, x, w.mark)
      /\ w.mark # "seenBoth" => Len(w.queue) <= 1
      /\ \A x \in w.s.explored : marks[x] # "none"
      /\ Propagated(h, c, w.s.explored, marks, waiting)
      /\ w.s.complete => AllFound(h, c1, c2, marks)
      /\ Covers(mark, marks[p]) \/ (ToSet(w.queue) = {p} /\ w.mark = mark)
  BY DEF RightWalks
<1>2. /\ w2 \in Walks(h) /\ a \in Commits(h) /\ old \in Marks /\ after \in Marks
      /\ Apart(w2.s, w.s) /\ marks2 = [marks EXCEPT ![a] = after]
      /\ w2.s.complete <=> w.s.complete \/ (after \in Shared /\ a \in w.s.init)
      /\ after = "LCA" => w2.mark = "seenBoth"
      /\ after # "LCA" => w2.mark = after
      /\ ToSet(w.queue) = {a} \cup rest /\ ToSet(w2.queue) = rest \cup more
      /\ more = {} => Len(w2.queue) = Len(w.queue) - 1
      /\ Len(w.queue) \in Nat \ {0} /\ (Len(w.queue) = 1 => rest = {})
  BY <1>1, MarkNextIs
<1>3. /\ w.s \in Searches(h) /\ w.mark \in Marks /\ marks \in [Commits(h) -> Marks]
      /\ w.s.explored \subseteq Commits(h)
  BY <1>1 DEF Walks, Searches
<1>4. /\ marks2[a] = after /\ \A x \in Commits(h) : x # a => marks2[x] = marks[x]
      /\ marks[a] = old /\ \A x \in Commits(h) : marks[x] \in Marks /\ marks2[x] \in Marks
  BY <1>2, <1>3
<1>5. a < c /\ Passed(h, c1, c2, a, w.mark) /\ Claims(h, c1, c2, a, old)
  BY <1>1, <1>2 DEF Honest
<1>6. Claims(h, c1, c2, a, after)
  BY <1>2, <1>3, <1>5, ClaimsAfter
<1>7. /\ after # "none" /\ Covers(w.mark, after) /\ Covers(old, after)
      /\ w.mark = "seenBoth" => after = "seenBoth"
      /\ old \notin {"none", after} => after \in Shared
  BY <1>2, <1>3, MarkAfter
<1>8. /\ more = {} \/ (a \in w.s.explored /\ more = h[a].parents
                       /\ old \notin {"seenBoth", "LCA", after})
      /\ more = {} => a \notin w.s.explored \/ old \in {"seenBoth", "LCA", after}
                      \/ h[a].parents = {}
  BY DEF More
<1>9. w2.s.explored = w.s.explored /\ w2.s.init = {c1, c2} /\ Apart(w2.s, s0)
  BY <1>1, <1>2 DEF Apart
<1> HIDE DEF old, after, more, rest, w2, marks, marks2, a, waiting
<1>10. more # {} => after \in Shared
  BY <1>1, <1>4, <1>7, <1>8
<1>11. after \in Shared => w2.mark = "seenBoth"
  BY <1>2 DEF Shared
<1>12. c \in Nat /\ a \in Nat /\ c # a
  BY <1>2, <1>5 DEF Commits, Graph
<1>13. Up(h, w2.s, s0) /\ marks2[c] = s0.marks[c] /\ \A x \in Commits(h) : Covers(marks[x], marks2[x])
  <2>1. ASSUME NEW x \in Commits(h) PROVE Covers(marks[x], marks2[x])
    <3>1. CASE x = a
      BY <1>4, <1>7, <3>1
    <3>2. CASE x # a
      <4>1. marks2[x] = marks[x] /\ marks[x] \in Marks
        BY <1>4, <3>2
      <4> QED BY <4>1, CoversItself
    <3> QED BY <3>1, <3>2
  <2>2. \A x \in Commits(h) : s0.marks[x] \in Marks /\ Covers(s0.marks[x], marks[x])
    BY <1>1 DEF Up, Searches, marks
  <2>3. ASSUME NEW x \in Commits(h) PROVE Covers(s0.marks[x], marks2[x])
    <3>1. /\ s0.marks[x] \in Marks /\ marks[x] \in Marks /\ marks2[x] \in Marks
          /\ Covers(s0.marks[x], marks[x]) /\ Covers(marks[x], marks2[x])
      BY <1>4, <2>1, <2>2
    <3> QED BY <3>1, CoversTwice
  <2> QED BY <1>1, <1>4, <1>12, <2>1, <2>3 DEF Up, marks2
<1>14. Honest(h, c1, c2, marks2)
  BY <1>1, <1>4, <1>6 DEF Honest
<1>15. ASSUME NEW x \in ToSet(w2.queue)
       PROVE  x < c /\ Passed(h, c1, c2, x, w2.mark)
  <2>1. CASE x \in rest
    <3>1. w.mark = "seenBoth"
      <4> DEFINE n == Len(w.queue)
      <4>1. n # 1 /\ n \in Nat \ {0}
        BY <1>2, <2>1
      <4> HIDE DEF n
      <4>2. ~(n <= 1)
        BY <4>1
      <4> QED BY <1>1, <4>2 DEF n
    <3>2. w2.mark = "seenBoth"
      BY <1>2, <1>7, <3>1
    <3> QED BY <1>1, <1>2, <2>1, <3>1, <3>2
  <2>2. CASE x \in more
    <3>1. after \in Shared /\ x \in h[a].parents /\ w2.mark = "seenBoth"
      BY <1>8, <1>10, <1>11, <2>2
    <3>2. x \in Commits(h) /\ x < a
      BY <1>2, <3>1, ParentsOlder
    <3>3. a \in Ancestors(h, c1) \cap Ancestors(h, c2)
      BY <1>6, <3>1 DEF Claims, Shared, Side1, Side2
    <3>4. x \in Below(h, c1, c2)
      BY <3>1, <3>3, ParentsBelow
    <3>5. Passed(h, c1, c2, x, w2.mark)
      BY <3>1, <3>4 DEF Passed, Claims, Below
    <3>6. x \in Nat
      BY <3>2 DEF Commits
    <3> QED BY <1>5, <1>12, <3>2, <3>5, <3>6
  <2> QED BY <1>2, <2>1, <2>2
<1>16. w2.mark # "seenBoth" => Len(w2.queue) <= 1
  <2>1. CASE w2.mark # "seenBoth"
    <3>1. after \notin Shared /\ more = {} /\ w.mark # "seenBoth"
      BY <1>2, <1>7, <1>10, <1>11, <2>1 DEF Shared
    <3>2. Len(w2.queue) = Len(w.queue) - 1 /\ Len(w.queue) <= 1 /\ Len(w.queue) \in Nat
      BY <1>1, <1>2, <3>1
    <3> QED BY <3>2
  <2> QED BY <2>1
<1>17. \A x \in w2.s.explored : marks2[x] # "none"
  BY <1>1, <1>3, <1>4, <1>7, <1>9
<1> DEFINE waiting2 == IF w2.mark = "seenBoth" THEN ToSet(w2.queue) ELSE {}
<1>18. Propagated(h, c, w2.s.explored, marks2, waiting2)
  <2> SUFFICES ASSUME NEW x \in w.s.explored \ {c}, NEW q \in h[x].parents
               PROVE  Covers(marks2[x], marks2[q]) \/ q \in waiting2
    BY <1>9 DEF Propagated
  <2>1. /\ x \in Commits(h) /\ q \in Commits(h) /\ q # x
        /\ Covers(marks[x], marks[q]) \/ q \in waiting
    <3>1. x \in Commits(h) /\ q \in Commits(h) /\ q < x /\ x \in Nat
      BY <1>3, ParentsOlder DEF Commits
    <3>2. Covers(marks[x], marks[q]) \/ q \in waiting
      BY <1>1 DEF Propagated
    <3> QED BY <3>1, <3>2
  <2>2. q \in waiting => w.mark = "seenBoth" /\ w2.mark = "seenBoth" /\ q \in {a} \cup rest
    BY <1>2, <1>7 DEF waiting
  <2>3. CASE q = a
    <3>1. CASE q \in waiting
      <4>1. marks2[q] \in Shared
        BY <1>4, <1>7, <2>2, <2>3, <3>1 DEF Shared
      <4> QED BY <4>1, SharedCovers
    <3>2. CASE Covers(marks[x], marks[q])
      <4>1. marks2[x] = marks[x] /\ Covers(marks[q], marks2[q])
        BY <1>4, <1>13, <2>1, <2>3
      <4>2. marks[x] \in Marks /\ marks[q] \in Marks /\ marks2[q] \in Marks
        BY <1>4, <2>1
      <4>3. Covers(marks[x], marks2[q])
        BY <3>2, <4>1, <4>2, CoversTwice
      <4> QED BY <4>1, <4>3
    <3> QED BY <2>1, <3>1, <3>2
  <2>4. CASE q # a /\ x # a
    <3>1. CASE q \in waiting
      <4>1. q \in rest /\ w2.mark = "seenBoth"
        BY <2>2, <2>4, <3>1
      <4> QED BY <1>2, <4>1
    <3>2. CASE Covers(marks[x], marks[q])
      BY <1>4, <2>1, <2>4, <3>2
    <3> QED BY <2>1, <3>1, <3>2
  <2>5. CASE q # a /\ x = a
    <3>1. CASE q \in waiting
      <4>1. q \in rest /\ w2.mark = "seenBoth"
        BY <2>2, <2>5, <3>1
      <4> QED BY <1>2, <4>1
    <3>2. CASE more # {}
      <4>1. q \in more /\ w2.mark = "seenBoth"
        BY <1>8, <1>10, <1>11, <2>5, <3>2
      <4> QED BY <1>2, <4>1
    <3>3. CASE Covers(marks[x], marks[q]) /\ more = {}
      <4>1. old \in {"seenBoth", "LCA", after}
        BY <1>8, <2>5, <3>3
      <4>2. Covers(after, old)
        <5>1. CASE old = after
          BY <1>2, <5>1, CoversItself
        <5>2. CASE old \in Shared
          BY <5>2, SharedCovers
        <5> QED BY <4>1, <5>1, <5>2 DEF Shared
      <4>3. Covers(after, marks[q]) /\ marks2[q] = marks[q] /\ marks2[x] = after
        <5>1. /\ marks2[q] = marks[q] /\ marks2[x] = after /\ marks[x] = old
              /\ marks[q] \in Marks
          BY <1>4, <2>1, <2>5
        <5>2. Covers(after, marks[q])
          BY <1>2, <3>3, <4>2, <5>1, CoversTwice
        <5> QED BY <5>1, <5>2
      <4> QED BY <4>3
    <3> QED BY <2>1, <3>1, <3>2, <3>3
  <2> QED BY <2>3, <2>4, <2>5
<1>19. w2.s.complete => AllFound(h, c1, c2, marks2)
  <2>1. CASE after \in Shared /\ a \in {c1, c2}
    BY <1>4, <1>14, <2>1, FastForwardFound
  <2>2. CASE w.s.complete
    <3>1. LowestCommon(h, c1, c2) \subseteq Commits(h)
      BY AncestorsReach DEF LowestCommon
    <3> QED BY <1>1, <1>4, <1>13, <2>2, <3>1, CoversMore DEF AllFound
  <2> QED BY <1>1, <1>2, <2>1, <2>2
<1>20. Covers(mark, marks2[p]) \/ (ToSet(w2.queue) = {p} /\ w2.mark = mark)
  <2>1. CASE Covers(mark, marks[p])
    <3>1. marks[p] \in Marks /\ marks2[p] \in Marks /\ Covers(marks[p], marks2[p])
      BY <1>4, <1>13
    <3> QED BY <2>1, <3>1, CoversTwice
  <2>2. CASE ToSet(w.queue) = {p} /\ w.mark = mark
    <3>1. a = p
      <4>1. a \in ToSet(w.queue)
        BY <1>2
      <4> QED BY <2>2, <4>1
    <3> QED BY <1>4, <1>7, <2>2, <3>1
  <2> QED BY <1>1, <2>1, <2>2
<1> QED
  BY <1>2, <1>9, <1>13, <1>14, <1>15, <1>16, <1>17, <1>18, <1>19, <1>20
  DEF RightWalks, w2, marks2

\* The walk that passes the mark of c to one of its parents.
LEMMA FirstIsRight ==
  ASSUME NEW h, Graph(h), NEW c1 \in Commits(h), NEW c2 \in Commits(h), NEW c \in Commits(h),
         NEW s, Right(h, c1, c2, c, s), s.marks[c] # "none", NEW p \in h[c].parents
  PROVE  FirstWalk(s, s.marks[c], p) \in RightWalks(h, c1, c2, c, p, s.marks[c], s)
<1> DEFINE mark == s.marks[c]
           I == RightWalks(h, c1, c2, c, p, mark, s)
           first == FirstWalk(s, mark, p)
<1>1. /\ s \in Searches(h) /\ s.init = {c1, c2} /\ Honest(h, c1, c2, s.marks)
      /\ \A x \in s.explored : s.marks[x] # "none"
      /\ Propagated(h, c, s.explored, s.marks, {})
      /\ s.complete => AllFound(h, c1, c2, s.marks)
      /\ mark \in Marks /\ mark # "none"
  BY DEF Right, Searches
<1>2. p \in Commits(h) /\ p < c
  BY ParentsOlder
<1>3. Passed(h, c1, c2, p, mark)
  <2>1. Claims(h, c1, c2, c, mark)
    BY <1>1 DEF Honest
  <2>2. Downward(h, Ancestors(h, c1)) /\ Downward(h, Ancestors(h, c2))
    BY AncestorsReach
  <2>3. mark \in Side1 => p \in Ancestors(h, c1)
    BY <2>1, <2>2 DEF Claims, Downward
  <2>4. mark \in Side2 => p \in Ancestors(h, c2)
    BY <2>1, <2>2 DEF Claims, Downward
  <2>5. mark \in Shared => p \in Below(h, c1, c2)
    <3>1. CASE mark \in Shared
      <4>1. c \in Ancestors(h, c1) \cap Ancestors(h, c2)
        BY <2>1, <3>1 DEF Claims, Shared, Side1, Side2
      <4> QED BY <4>1, ParentsBelow
    <3> QED BY <3>1
  <2> QED BY <1>1, <2>3, <2>4, <2>5 DEF Passed, Claims, Shared
<1> HIDE DEF mark
<1>4. first \in I
  <2>1. first \in Walks(h) /\ first.s = s /\ first.queue = <<p>> /\ first.mark = mark
    BY <1>1, <1>2, WalkTypes DEF FirstWalk
  <2>2. ToSet(first.queue) = {p} /\ Len(first.queue) = 1
    BY <2>1 DEF ToSet
  <2> HIDE DEF first
  <2>3. Up(h, s, s)
    BY <1>1, CoversItself DEF Up, Searches
  <2>4. Propagated(h, c, s.explored, s.marks,
                   IF first.mark = "seenBoth" THEN ToSet(first.queue) ELSE {})
    BY <1>1 DEF Propagated
  <2>5. Len(first.queue) <= 1
    BY <2>2
  <2> QED BY <1>1, <1>2, <1>3, <2>1, <2>2, <2>3, <2>4, <2>5 DEF RightWalks, Apart
<1> QED BY <1>4 DEF mark

\* The mark of a commit reaches one of its parents.
LEMMA RightUpdate ==
  ASSUME NEW h, Graph(h), NEW c1 \in Commits(h), NEW c2 \in Commits(h), NEW c \in Commits(h),
         NEW s, Right(h, c1, c2, c, s), s.marks[c] # "none", NEW p \in h[c].parents
  PROVE  LET t == UpdateAncestors(h, s, s.marks[c], p)
         IN /\ Right(h, c1, c2, c, t) /\ Up(h, t, s) /\ t.marks[c] = s.marks[c]
            /\ Covers(s.marks[c], t.marks[p])
<1> DEFINE mark == s.marks[c]
           I == RightWalks(h, c1, c2, c, p, mark, s)
           t == UpdateAncestors(h, s, mark, p)
<1>1. s \in Searches(h) /\ mark \in Marks
  BY DEF Right, Searches
<1>2. p \in Commits(h) /\ p < c
  BY ParentsOlder
<1>4. FirstWalk(s, mark, p) \in I
  BY FirstIsRight
<1> HIDE DEF mark
<1>5. WalksIn(h, I)
  <2>1. I \subseteq Walks(h)
    BY DEF RightWalks
  <2>2. ASSUME NEW w \in I, w.queue # << >> PROVE MarkNext(h, w) \in I
    BY <1>1, <1>2, <2>2, RightWalkNext
  <2> QED BY <2>1, <2>2 DEF WalksIn
<1>6. PICK w \in I : w.queue = << >> /\ t = w.s
  BY <1>4, <1>5, WalkEnds
<1>7. ToSet(w.queue) = {}
  BY <1>6 DEF ToSet
<1>8. /\ w \in Walks(h) /\ Apart(w.s, s) /\ w.s.init = {c1, c2} /\ Up(h, w.s, s)
      /\ w.s.marks[c] = s.marks[c] /\ Honest(h, c1, c2, w.s.marks)
      /\ \A x \in w.s.explored : w.s.marks[x] # "none"
      /\ Propagated(h, c, w.s.explored, w.s.marks,
                    IF w.mark = "seenBoth" THEN ToSet(w.queue) ELSE {})
      /\ w.s.complete => AllFound(h, c1, c2, w.s.marks)
      /\ Covers(mark, w.s.marks[p]) \/ (ToSet(w.queue) = {p} /\ w.mark = mark)
  BY DEF RightWalks
<1>9. Propagated(h, c, w.s.explored, w.s.marks, {})
  BY <1>7, <1>8
<1>10. w.s \in Searches(h)
  BY <1>8 DEF Walks
<1>11. Right(h, c1, c2, c, t)
  BY <1>6, <1>8, <1>9, <1>10 DEF Right
<1>12. Covers(mark, t.marks[p])
  BY <1>6, <1>7, <1>8
<1> QED BY <1>6, <1>8, <1>11, <1>12 DEF mark

\* It reaches all of them.
LEMMA RightUpdateAll ==
  ASSUME NEW h, Graph(h), NEW c1 \in Commits(h), NEW c2 \in Commits(h), NEW c \in Commits(h),
         NEW s, Right(h, c1, c2, c, s), s.marks[c] # "none",
         NEW ps \in Seq(Commits(h)), ToSet(ps) = h[c].parents
  PROVE  LET t == UpdateAll(h, s, s.marks[c], ps)
         IN /\ Right(h, c1, c2, c, t) /\ Up(h, t, s) /\ t.marks[c] = s.marks[c]
            /\ \A p \in h[c].parents : Covers(s.marks[c], t.marks[p])
<1> DEFINE mark == s.marks[c]
           n == Len(ps)
           t == UpdateAll(h, s, mark, ps)
<1>1. s \in Searches(h) /\ mark \in Marks
  BY DEF Right, Searches
<1> HIDE DEF mark, t
<1>2. PICK after \in [0..n -> Searches(h)] :
        /\ after[0] = s /\ UpdateAll(h, s, mark, ps) = after[n]
        /\ \A i \in 1..n : after[i] = UpdateAncestors(h, after[i - 1], mark, ps[i])
        /\ \A i \in 0..n : Apart(after[i], s)
  BY <1>1, UpdateAllIs
<1>3. n \in Nat /\ DOMAIN ps = 1..n /\ \A i \in 1..n : ps[i] \in h[c].parents
  <2>1. n \in Nat /\ DOMAIN ps = 1..n
    BY LenProperties
  <2> QED BY <2>1 DEF ToSet
<1> HIDE DEF n
<1> DEFINE P == {i \in 0..n : /\ Right(h, c1, c2, c, after[i]) /\ Up(h, after[i], s)
                              /\ after[i].marks[c] = mark
                              /\ \A j \in 1..i : Covers(mark, after[i].marks[ps[j]])}
<1>4. 0 \in P
  <2>1. Up(h, s, s)
    BY <1>1, CoversItself DEF Up, Searches
  <2> QED BY <1>2, <1>3, <2>1 DEF mark
<1>5. ASSUME NEW i \in 1..n, i - 1 \in P PROVE i \in P
  <2> DEFINE u == after[i - 1]
             v == after[i]
  <2>1. /\ Right(h, c1, c2, c, u) /\ Up(h, u, s) /\ u.marks[c] = mark
        /\ \A j \in 1..(i - 1) : Covers(mark, u.marks[ps[j]])
        /\ u \in Searches(h) /\ v \in Searches(h) /\ v = UpdateAncestors(h, u, mark, ps[i])
        /\ ps[i] \in h[c].parents /\ i \in 0..n
    BY <1>2, <1>3, <1>5
  <2> HIDE DEF u, v
  <2>2. mark # "none"
    BY DEF mark
  <2>3. /\ Right(h, c1, c2, c, v) /\ Up(h, v, u) /\ v.marks[c] = mark
        /\ Covers(mark, v.marks[ps[i]])
    BY <2>1, <2>2, RightUpdate
  <2>4. Up(h, v, s)
    BY <1>1, <2>1, <2>3, CoversTwice DEF Up, Searches
  <2>5. ASSUME NEW j \in 1..i PROVE Covers(mark, v.marks[ps[j]])
    <3>1. CASE j = i
      BY <2>3, <3>1
    <3>2. CASE j # i
      <4>1. j \in 1..(i - 1) /\ j \in 1..n
        BY <1>3, <3>2
      <4>2. ps[j] \in Commits(h)
        BY <1>3, <4>1, ParentsOlder
      <4>3. /\ u.marks[ps[j]] \in Marks /\ v.marks[ps[j]] \in Marks
            /\ Covers(mark, u.marks[ps[j]]) /\ Covers(u.marks[ps[j]], v.marks[ps[j]])
        BY <2>1, <2>3, <4>1, <4>2 DEF Up, Searches
      <4> QED BY <1>1, <4>3, CoversTwice
    <3> QED BY <3>1, <3>2
  <2> QED BY <2>1, <2>3, <2>4, <2>5 DEF v
<1> HIDE DEF P
<1>6. n \in P
  <2>1. n \in 0..n
    BY <1>3
  <2> QED BY <1>3, <1>4, <1>5, <2>1, CountsUp
<1>7. /\ Right(h, c1, c2, c, t) /\ Up(h, t, s) /\ t.marks[c] = mark
      /\ \A j \in 1..n : Covers(mark, t.marks[ps[j]])
  BY <1>2, <1>6 DEF P, t
<1>8. \A p \in h[c].parents : \E j \in 1..n : p = ps[j]
  BY <1>3 DEF ToSet
<1>9. \A p \in h[c].parents : Covers(mark, t.marks[p])
  BY <1>7, <1>8
<1> QED BY <1>7, <1>9 DEF t, mark

(* The layers of the breadth-first traversal. *)

\* A queue with the smaller depths first.
Ordered(q) == \A i, j \in 1..Len(q) : i <= j => q[i][1] <= q[j][1]

LEMMA OrderedTaken ==
  ASSUME NEW S, NEW q \in Seq(Nat \X S), q # << >>, Ordered(q)
  PROVE  Ordered(Tail(q)) /\ \A t \in ToSet(Tail(q)) : Head(q)[1] <= t[1]
<1>1. /\ Len(q) \in Nat \ {0} /\ Head(q) = q[1]
      /\ Tail(q) \in Seq(Nat \X S) /\ Len(Tail(q)) = Len(q) - 1
      /\ \A i \in 1..Len(q) - 1 : Tail(q)[i] = q[i + 1]
  BY HeadTailProperties
<1>2. DOMAIN Tail(q) = 1..Len(q) - 1
  BY <1>1, LenProperties
<1> DEFINE n == Len(q)
<1>3. ASSUME NEW i \in 1..n - 1, NEW j \in 1..n - 1, i <= j
      PROVE  Tail(q)[i][1] <= Tail(q)[j][1]
  <2>1. i + 1 \in 1..n /\ j + 1 \in 1..n /\ i + 1 <= j + 1
    BY <1>1, <1>3
  <2> QED BY <1>1, <2>1 DEF Ordered
<1>4. ASSUME NEW i \in 1..n - 1 PROVE Head(q)[1] <= Tail(q)[i][1]
  <2>1. 1 \in 1..n /\ i + 1 \in 1..n /\ 1 <= i + 1
    BY <1>1
  <2> QED BY <1>1, <2>1 DEF Ordered
<1> QED BY <1>1, <1>2, <1>3, <1>4 DEF Ordered, ToSet

LEMMA OrderedPut ==
  ASSUME NEW S, NEW q \in Seq(Nat \X S), NEW r \in Seq(Nat \X S), NEW d \in Nat, Ordered(q),
         \A t \in ToSet(q) : t[1] <= d, \A t \in ToSet(r) : t[1] = d
  PROVE  Ordered(q \o r)
<1>1. Len(q) \in Nat /\ Len(r) \in Nat /\ DOMAIN q = 1..Len(q) /\ DOMAIN r = 1..Len(r)
  BY LenProperties
<1>2. /\ Len(q \o r) = Len(q) + Len(r)
      /\ \A i \in 1..Len(q) + Len(r) :
           (q \o r)[i] = IF i <= Len(q) THEN q[i] ELSE r[i - Len(q)]
  BY ConcatProperties, Zenon
<1>3. (\A i \in 1..Len(q) : q[i][1] <= d) /\ \A i \in 1..Len(r) : r[i][1] = d
  BY <1>1 DEF ToSet
<1> DEFINE n == Len(q)
           m == Len(r)
<1> HIDE DEF n, m
<1>4. ASSUME NEW i \in 1..n + m, NEW j \in 1..n + m, i <= j
      PROVE  (q \o r)[i][1] <= (q \o r)[j][1]
  <2>1. CASE j <= n
    <3>1. i \in 1..n /\ j \in 1..n /\ (q \o r)[i] = q[i] /\ (q \o r)[j] = q[j]
      BY <1>1, <1>2, <1>4, <2>1 DEF n, m
    <3> QED BY <1>4, <3>1 DEF Ordered, n
  <2>2. CASE ~(j <= n)
    <3>1. j - n \in 1..m /\ (q \o r)[j] = r[j - n]
      BY <1>1, <1>2, <2>2 DEF n, m
    <3>2. (q \o r)[j][1] = d
      BY <1>3, <3>1 DEF m
    <3>3. CASE i <= n
      <4>1. i \in 1..n /\ (q \o r)[i] = q[i]
        BY <1>1, <1>2, <3>3 DEF n, m
      <4> QED BY <1>3, <3>2, <4>1 DEF n
    <3>4. CASE ~(i <= n)
      <4>1. i - n \in 1..m /\ (q \o r)[i] = r[i - n]
        BY <1>1, <1>2, <3>4 DEF n, m
      <4>2. (q \o r)[i][1] = d
        BY <1>3, <4>1 DEF m
      <4> QED BY <3>2, <4>2
    <3> QED BY <3>3, <3>4
  <2> QED BY <2>1, <2>2
<1> QED BY <1>2, <1>4 DEF Ordered, n, m

\* x is explored, or is met in the layer being explored.
Due(s, x) == x \in s.explored \/ <<s.depth, x>> \in ToSet(s.todo)

\* The parents of the commits of earlier layers are due, those of this layer are due
\* or wait for the next.  That todo has two depths is the assertion of update_parents.
InLayers(h, c1, c2, s) ==
  /\ \A t \in ToSet(s.todo) : s.marks[t[2]] # "none" /\ t[1] \in {s.depth, s.depth + 1}
  /\ Ordered(s.todo)
  /\ Due(s, c1) /\ Due(s, c2)
  /\ \A x \in s.explored \ s.layer : \A p \in h[x].parents : Due(s, p)
  /\ \A x \in s.layer : \A p \in h[x].parents :
       p \in s.explored \/ \E t \in ToSet(s.todo) : t[2] = p

\* The searches from c1 and c2.
GoodSearches(h, c1, c2) ==
  {s \in Searches(h) : /\ Right(h, c1, c2, NoCommit, s)
                       /\ s.marks[c1] \in Side1 /\ s.marks[c2] \in Side2
                       /\ InLayers(h, c1, c2, s)}

\* When the parents of all that is explored are explored or are below a common
\* ancestor, the lowest common ancestors are found.
LEMMA AllSeen ==
  ASSUME NEW h, Graph(h), NEW c1 \in Commits(h), NEW c2 \in Commits(h),
         NEW s, Right(h, c1, c2, NoCommit, s), c1 \in s.explored, c2 \in s.explored,
         s.marks[c1] \in Side1, s.marks[c2] \in Side2,
         \A x \in s.explored : s.marks[x] \in Shared \/ h[x].parents \subseteq s.explored
  PROVE  AllFound(h, c1, c2, s.marks)
<1> DEFINE B == Below(h, c1, c2)
           E == s.explored
           T1 == {x \in E : s.marks[x] \in Side1}
           T2 == {x \in E : s.marks[x] \in Side2}
<1>1. /\ s \in Searches(h) /\ E \subseteq Commits(h) /\ Honest(h, c1, c2, s.marks)
      /\ Propagated(h, NoCommit, E, s.marks, {}) /\ NoCommit \notin Commits(h)
  BY DEF Right, Searches, NoCommit, Commits, Graph
<1>2. \A x \in E : \A p \in h[x].parents : Covers(s.marks[x], s.marks[p])
  BY <1>1 DEF Propagated
<1>3. \A x \in Ancestors(h, c1) \cap Ancestors(h, c2) : h[x].parents \subseteq B
  BY ParentsBelow
<1>4. B \subseteq Ancestors(h, c1) \cap Ancestors(h, c2) /\ B \subseteq Commits(h)
  BY AncestorsReach DEF Below
<1>5. ASSUME NEW x \in E PROVE h[x].parents \subseteq B \/ h[x].parents \subseteq E
  <2>1. CASE s.marks[x] \in Shared
    <3>1. x \in Ancestors(h, c1) \cap Ancestors(h, c2)
      BY <1>1, <2>1 DEF Honest, Claims, Shared, Side1, Side2
    <3> QED BY <1>3, <3>1
  <2> QED BY <2>1
<1> HIDE DEF B
<1>6. Downward(h, T1 \cup B) /\ Downward(h, T2 \cup B)
  <2>1. \A x \in T1 : h[x].parents \subseteq T1 \cup B
    BY <1>2, <1>5 DEF Covers
  <2>2. \A x \in T2 : h[x].parents \subseteq T2 \cup B
    BY <1>2, <1>5 DEF Covers
  <2> QED BY <1>3, <1>4, <2>1, <2>2 DEF Downward
<1>7. /\ T1 \cup B \subseteq Commits(h) /\ T2 \cup B \subseteq Commits(h)
      /\ c1 \in T1 \cup B /\ c2 \in T2 \cup B
  BY <1>1, <1>4
<1>8. Ancestors(h, c1) \subseteq T1 \cup B /\ Ancestors(h, c2) \subseteq T2 \cup B
  <2> HIDE DEF T1, T2
  <2> QED BY <1>6, <1>7, AncestorsWithin
<1>9. \A x \in LowestCommon(h, c1, c2) :
        x \in Ancestors(h, c1) /\ x \in Ancestors(h, c2) /\ x \notin B
  BY DEF LowestCommon, Below, B
<1>10. ASSUME NEW x \in LowestCommon(h, c1, c2) PROVE s.marks[x] \in Shared
  <2>1. x \in T1 /\ x \in T2
    BY <1>8, <1>9
  <2> QED BY <2>1 DEF Side1, Side2, Shared
<1> QED BY <1>10 DEF AllFound

\* The first of the queue is the commit c at depth d: it is of this layer or, when none
\* of this layer is left, of the next one.
First(h, s, d, c) ==
  LET rest == ToSet(Tail(s.todo))
  IN /\ d \in {s.depth, s.depth + 1} /\ s.depth \in Nat /\ s.marks[c] # "none"
     /\ Head(s.todo) = <<d, c>> /\ ToSet(s.todo) = {<<d, c>>} \cup rest
     /\ Ordered(Tail(s.todo)) /\ Tail(s.todo) \in Seq(Nat \X Commits(h))
     /\ rest \subseteq Nat \X Commits(h)
     /\ \A t \in rest : d <= t[1] /\ t[1] \in {s.depth, s.depth + 1}
     /\ d # s.depth => (\A t \in ToSet(s.todo) : t[1] = d)
                       /\ \A x : Due(s, x) => x \in s.explored

LEMMA FirstOfLayer ==
  ASSUME NEW h, NEW c1, NEW c2, NEW s \in Searches(h), s.todo # << >>, InLayers(h, c1, c2, s)
  PROVE  First(h, s, Head(s.todo)[1], Head(s.todo)[2])
<1> DEFINE top == Head(s.todo)
           rest == ToSet(Tail(s.todo))
           d == top[1]
           c == top[2]
<1>1. s.todo \in Seq(Nat \X Commits(h)) /\ s.depth \in Nat
  BY DEF Searches
<1>2. /\ top \in Nat \X Commits(h) /\ Tail(s.todo) \in Seq(Nat \X Commits(h))
      /\ ToSet(s.todo) = {top} \cup rest /\ ToSet(s.todo) \subseteq Nat \X Commits(h)
  BY <1>1, QueueTaken
<1>3. Ordered(Tail(s.todo)) /\ \A t \in rest : top[1] <= t[1]
  BY <1>1, OrderedTaken DEF InLayers
<1>4. \A t \in ToSet(s.todo) : s.marks[t[2]] # "none" /\ t[1] \in {s.depth, s.depth + 1}
  BY DEF InLayers
<1> HIDE DEF rest, top
<1>5. top = <<d, c>> /\ d \in Nat
  BY <1>2
<1>6. d \in {s.depth, s.depth + 1} /\ s.marks[c] # "none"
  BY <1>2, <1>4
<1>7. \A t \in rest : d <= t[1] /\ t[1] \in {s.depth, s.depth + 1}
  BY <1>2, <1>3, <1>4
<1> HIDE DEF d, c
<1>8. ASSUME d # s.depth
      PROVE  (\A t \in ToSet(s.todo) : t[1] = d) /\ \A x : Due(s, x) => x \in s.explored
  <2>1. d = s.depth + 1
    BY <1>6, <1>8
  <2>2. \A t \in rest : t[1] = d
    BY <1>1, <1>7, <2>1
  <2>3. \A t \in ToSet(s.todo) : t[1] = d
    BY <1>2, <1>5, <2>2
  <2>4. \A x : <<s.depth, x>> \notin ToSet(s.todo)
    BY <1>8, <2>3
  <2> QED BY <2>3, <2>4 DEF Due
<1>9. rest \subseteq Nat \X Commits(h)
  BY <1>2
<1>10. First(h, s, d, c)
  BY <1>1, <1>2, <1>3, <1>5, <1>6, <1>7, <1>8, <1>9 DEF First, top, rest
<1> QED BY <1>10 DEF top, d, c

\* The layers when the first of the queue was explored already.
LEMMA LayersSkip ==
  ASSUME NEW h, NEW c1, NEW c2, NEW s \in Searches(h), s.todo # << >>, InLayers(h, c1, c2, s),
         Head(s.todo)[2] \in s.explored, NEW s2, s2.todo = Tail(s.todo), s2.marks = s.marks,
         s2.explored = s.explored, s2.layer = s.layer, s2.depth = s.depth
  PROVE  InLayers(h, c1, c2, s2)
<1> DEFINE rest == ToSet(Tail(s.todo))
           c == Head(s.todo)[2]
           d == Head(s.todo)[1]
<1>1. ToSet(s.todo) = {<<d, c>>} \cup rest /\ Ordered(Tail(s.todo)) /\ ToSet(s2.todo) = rest
  BY FirstOfLayer DEF First
<1>2. c \in s.explored
  OBVIOUS
<1> HIDE DEF rest, c, d
<1>3. \A x : Due(s, x) => Due(s2, x)
  BY <1>1, <1>2 DEF Due
<1>4. \A p : (\E t \in ToSet(s.todo) : t[2] = p) => p \in s.explored \/ \E t \in rest : t[2] = p
  BY <1>1, <1>2
<1> QED BY <1>1, <1>3, <1>4 DEF InLayers

\* The search s3 is s after c, the first of its queue, was explored at depth d.
Follows(h, s, d, c, s3) ==
  /\ d = Head(s.todo)[1] /\ c = Head(s.todo)[2] /\ c \in Commits(h) /\ s3 \in Searches(h)
  /\ \E r \in Seq(Nat \X Commits(h)) :
       s3.todo = Tail(s.todo) \o r /\ ToSet(r) = Waiting(h, s, d, c)
  /\ s3.explored = s.explored \cup {c} /\ s3.depth = d
  /\ d # s.depth => s3.layer = {c}
  /\ d = s.depth => s3.layer = s.layer \cup {c}
  /\ \A x \in Commits(h) : s.marks[x] # "none" => s3.marks[x] # "none"
  /\ \A p \in h[c].parents : s3.marks[p] # "none"

\* The layers after the first of the queue was explored.
LEMMA LayersAfter ==
  ASSUME NEW h, Graph(h), NEW c1, NEW c2, NEW s \in Searches(h), s.todo # << >>,
         InLayers(h, c1, c2, s),
         NEW d, NEW c, NEW s3, Follows(h, s, d, c, s3)
  PROVE  InLayers(h, c1, c2, s3)
<1>0. /\ d = Head(s.todo)[1] /\ c = Head(s.todo)[2] /\ c \in Commits(h) /\ s3 \in Searches(h)
      /\ s3.explored = s.explored \cup {c} /\ s3.depth = d
      /\ d # s.depth => s3.layer = {c}
      /\ d = s.depth => s3.layer = s.layer \cup {c}
      /\ \A x \in Commits(h) : s.marks[x] # "none" => s3.marks[x] # "none"
      /\ \A p \in h[c].parents : s3.marks[p] # "none"
  BY DEF Follows
<1>r. PICK r \in Seq(Nat \X Commits(h)) :
        s3.todo = Tail(s.todo) \o r /\ ToSet(r) = Waiting(h, s, d, c)
  BY DEF Follows
<1> DEFINE rest == ToSet(Tail(s.todo))
           added == ToSet(r)
<1>1. /\ d \in {s.depth, s.depth + 1} /\ s.depth \in Nat
      /\ ToSet(s.todo) = {<<d, c>>} \cup rest
      /\ Ordered(Tail(s.todo)) /\ Tail(s.todo) \in Seq(Nat \X Commits(h))
      /\ rest \subseteq Nat \X Commits(h)
      /\ \A t \in rest : d <= t[1] /\ t[1] \in {s.depth, s.depth + 1}
      /\ d # s.depth => (\A t \in ToSet(s.todo) : t[1] = d)
                        /\ \A x : Due(s, x) => x \in s.explored
  <2>1. First(h, s, d, c)
    BY <1>0, FirstOfLayer
  <2> QED BY <2>1 DEF First
<1> DEFINE q == Tail(s.todo)
           Q == Nat \X Commits(h)
<1>2. ToSet(s3.todo) = rest \cup added
  <2>1. q \in Seq(Q) /\ r \in Seq(Q) /\ s3.todo = q \o r
    BY <1>1, <1>r
  <2> HIDE DEF q, Q
  <2>2. ToSet(q \o r) = ToSet(q) \cup ToSet(r)
    BY <2>1, QueuePut
  <2> QED BY <2>1, <2>2 DEF q
<1>3. /\ \A t \in ToSet(s.todo) : s.marks[t[2]] # "none"
      /\ Due(s, c1) /\ Due(s, c2)
      /\ \A x \in s.explored \ s.layer : \A p \in h[x].parents : Due(s, p)
      /\ \A x \in s.layer : \A p \in h[x].parents :
           p \in s.explored \/ \E t \in ToSet(s.todo) : t[2] = p
  BY DEF InLayers
<1>4. \A p \in h[c].parents : p \in s3.explored \/ <<d + 1, p>> \in added
  BY <1>0, <1>r DEF Waiting
<1>5. \A t \in added : t[1] = d + 1 /\ t[2] \in h[c].parents
  BY <1>r DEF Waiting
<1> HIDE DEF rest, added
<1>6. \A t \in rest : t[1] \in {d, d + 1}
  BY <1>1
<1>7. Ordered(s3.todo)
  <2>1. d \in Nat /\ d <= d + 1 /\ d + 1 <= d + 1 /\ d + 1 \in Nat
    <3>1. d = s.depth \/ d = s.depth + 1
      BY <1>1
    <3>2. d \in Nat
      BY <1>1, <3>1
    <3> QED BY <3>2
  <2>2. \A t \in rest : t[1] <= d + 1
    BY <1>6, <2>1
  <2>3. \A t \in added : t[1] = d + 1
    BY <1>5
  <2>4. /\ q \in Seq(Q) /\ r \in Seq(Q) /\ s3.todo = q \o r /\ Ordered(q)
        /\ ToSet(q) = rest /\ ToSet(r) = added
    BY <1>1, <1>r DEF rest, added
  <2> DEFINE e == d + 1
  <2>5. e \in Nat /\ (\A t \in ToSet(q) : t[1] <= e) /\ \A t \in ToSet(r) : t[1] = e
    BY <2>1, <2>2, <2>3, <2>4
  <2>6. Q = Nat \X Commits(h)
    OBVIOUS
  <2> HIDE DEF q, Q, e
  <2>7. Ordered(q \o r)
    BY <2>4, <2>5, <2>6, OrderedPut
  <2> QED BY <2>4, <2>7
<1>8. ASSUME NEW t \in ToSet(s3.todo)
      PROVE  s3.marks[t[2]] # "none" /\ t[1] \in {d, d + 1}
  <2>1. CASE t \in rest
    <3>1. t[2] \in Commits(h) /\ t \in ToSet(s.todo)
      BY <1>1, <2>1
    <3> QED BY <1>0, <1>3, <1>6, <2>1, <3>1
  <2>2. CASE t \in added
    BY <1>0, <1>5, <2>2
  <2> QED BY <1>2, <2>1, <2>2
<1>9. \A x : Due(s, x) => Due(s3, x)
  <2>1. CASE d = s.depth
    BY <1>0, <1>1, <1>2, <2>1 DEF Due
  <2>2. CASE d # s.depth
    BY <1>0, <1>1, <2>2 DEF Due
  <2> QED BY <2>1, <2>2
<1>10. \A p : (\E t \in ToSet(s.todo) : t[2] = p)
              => p \in s3.explored \/ \E t \in ToSet(s3.todo) : t[2] = p
  BY <1>0, <1>1, <1>2
<1>11. ASSUME NEW x \in s3.explored \ s3.layer, NEW p \in h[x].parents
       PROVE  Due(s3, p)
  <2>1. c \in s3.layer /\ x \in s.explored
    BY <1>0
  <2>2. CASE x \notin s.layer
    BY <1>3, <1>9, <2>1, <2>2
  <2>3. CASE x \in s.layer
    <3>1. d # s.depth
      BY <1>0, <2>3
    <3>2. \A t \in ToSet(s.todo) : t[1] = d
      BY <1>1, <3>1
    <3>3. CASE p \in s.explored
      BY <1>0, <3>3 DEF Due
    <3>4. CASE \E t \in ToSet(s.todo) : t[2] = p
      <4>1. PICK t \in ToSet(s.todo) : t[2] = p
        BY <3>4
      <4>2. CASE t = <<d, c>>
        <5>1. p = c
          BY <4>1, <4>2
        <5> QED BY <1>0, <5>1 DEF Due
      <4>3. CASE t \in rest
        <5>1. t = <<d, p>>
          BY <1>1, <3>2, <4>1, <4>3
        <5> QED BY <1>0, <1>2, <4>3, <5>1 DEF Due
      <4> QED BY <1>1, <4>2, <4>3
    <3> QED BY <1>3, <2>3, <3>3, <3>4
  <2> QED BY <2>1, <2>2, <2>3
<1>12. ASSUME NEW x \in s3.layer, NEW p \in h[x].parents
       PROVE  p \in s3.explored \/ \E t \in ToSet(s3.todo) : t[2] = p
  <2>1. CASE x = c
    <3>1. p \in s3.explored \/ <<d + 1, p>> \in ToSet(s3.todo)
      BY <1>2, <1>4, <2>1
    <3> QED BY <3>1
  <2>2. CASE x \in s.layer
    BY <1>0, <1>3, <1>10, <2>2
  <2> QED BY <1>0, <2>1, <2>2
<1> QED BY <1>0, <1>3, <1>7, <1>8, <1>9, <1>11, <1>12 DEF InLayers

\* What the marks of parents do not touch.
LEMMA UpdatesApart ==
  ASSUME NEW h, Graph(h), NEW s \in Searches(h), NEW mark \in Marks, NEW ps \in Seq(Commits(h))
  PROVE  UpdateAll(h, s, mark, ps).explored = s.explored
<1>1. PICK after \in [0..Len(ps) -> Searches(h)] :
        /\ after[0] = s /\ UpdateAll(h, s, mark, ps) = after[Len(ps)]
        /\ \A i \in 1..Len(ps) : after[i] = UpdateAncestors(h, after[i - 1], mark, ps[i])
        /\ \A i \in 0..Len(ps) : Apart(after[i], s)
  BY UpdateAllIs
<1>2. Len(ps) \in 0..Len(ps)
  BY LenProperties
<1> QED BY <1>1, <1>2 DEF Apart

\* A search whose parts are those of another one, the layers aside, is as right.
LEMMA RightMoves ==
  ASSUME NEW h, NEW c1, NEW c2, NEW c, NEW s, Right(h, c1, c2, c, s),
         NEW s2 \in Searches(h), s2.marks = s.marks, s2.explored = s.explored,
         s2.init = s.init, s2.complete => s.complete
  PROVE  Right(h, c1, c2, c, s2)
BY DEF Right

MetHere(h, s, d, c, s1) ==
  /\ s1 \in Searches(h) /\ s1.marks = s.marks /\ s1.todo = s.todo
  /\ s1.init = s.init /\ s1.depth = d /\ s1.explored = s.explored \cup {c}
  /\ d # s.depth => s1.layer = {c}
  /\ d = s.depth => s1.layer = s.layer \cup {c}
  /\ s1.complete <=> s.complete \/ (d # s.depth /\ \A x \in s.layer : s.marks[x] \in Shared)

LEMMA MetIsHere ==
  ASSUME NEW h, NEW s \in Searches(h), NEW d \in Nat, NEW c \in Commits(h)
  PROVE  MetHere(h, s, d, c, Met(s, d, c))
<1> DEFINE s1 == Met(s, d, c)
<1>1. /\ s1 \in Searches(h) /\ s1.marks = s.marks /\ s1.todo = s.todo
      /\ s1.init = s.init /\ s1.depth = d /\ s1.explored = s.explored \cup {c}
  BY MetIs
<1>2. /\ d # s.depth => s1.layer = {c}
      /\ d = s.depth => s1.layer = s.layer \cup {c}
      /\ s1.complete <=>
           s.complete \/ (d # s.depth /\ \A x \in s.layer : s.marks[x] \in Shared)
  BY MetLayer
<1> HIDE DEF s1
<1>3. MetHere(h, s, d, c, s1)
  BY <1>1, <1>2 DEF MetHere
<1> QED BY <1>3 DEF s1

\* The commit c was met: the search is right, but for the parents of c, which its mark
\* has not reached.
LEMMA MetIsRight ==
  ASSUME NEW h, Graph(h), NEW c1 \in Commits(h), NEW c2 \in Commits(h),
         NEW s, Right(h, c1, c2, NoCommit, s), NEW d \in Nat, NEW c \in Commits(h),
         c \notin s.explored, s.marks[c] # "none",
         Met(s, d, c).complete => AllFound(h, c1, c2, s.marks)
  PROVE  Right(h, c1, c2, c, Met(s, d, c))
<1> DEFINE s1 == Met(s, d, c)
<1>1. /\ s \in Searches(h) /\ s.init = {c1, c2} /\ Honest(h, c1, c2, s.marks)
      /\ \A x \in s.explored : s.marks[x] # "none"
      /\ Propagated(h, NoCommit, s.explored, s.marks, {})
      /\ NoCommit \notin Commits(h) /\ s.explored \subseteq Commits(h)
  BY DEF Right, Searches, NoCommit, Commits, Graph
<1>2. /\ s1 \in Searches(h) /\ s1.marks = s.marks /\ s1.init = s.init
      /\ s1.explored = s.explored \cup {c} /\ (s1.complete => AllFound(h, c1, c2, s1.marks))
  BY <1>1, MetIs
<1> HIDE DEF s1
<1>3. Propagated(h, c, s1.explored, s1.marks, {})
  BY <1>1, <1>2 DEF Propagated
<1>4. \A x \in s1.explored : s1.marks[x] # "none"
  BY <1>1, <1>2
<1>5. Right(h, c1, c2, c, s1)
  BY <1>1, <1>2, <1>3, <1>4 DEF Right
<1> QED BY <1>5 DEF s1

\* The commit c was explored: its mark has reached its parents.
Taken(h, c1, c2, c, s, s3) ==
  /\ Right(h, c1, c2, NoCommit, s3) /\ Up(h, s3, s)
  /\ \A p \in h[c].parents : Covers(s.marks[c], s3.marks[p])

LEMMA ExploredIsRight ==
  ASSUME NEW h, Graph(h), NEW c1 \in Commits(h), NEW c2 \in Commits(h),
         NEW s \in Searches(h), NEW c \in Commits(h), s.marks[c] # "none",
         NEW s1 \in Searches(h), s1.marks = s.marks, s1.explored = s.explored \cup {c},
         s1.init = s.init, Right(h, c1, c2, c, s1),
         NEW ps \in Seq(Commits(h)), ToSet(ps) = h[c].parents, NEW s3 \in Searches(h),
         s3.marks = UpdateAll(h, s1, s.marks[c], ps).marks,
         s3.complete = UpdateAll(h, s1, s.marks[c], ps).complete,
         s3.explored = s.explored \cup {c}, s3.init = s.init
  PROVE  Taken(h, c1, c2, c, s, s3)
<1> DEFINE mark == s.marks[c]
           s2 == UpdateAll(h, s1, mark, ps)
<1>2. s3.marks = s2.marks /\ s3.complete = s2.complete
  OBVIOUS
<1>3. /\ mark = s1.marks[c] /\ Right(h, c1, c2, c, s1) /\ mark # "none"
      /\ mark \in Marks
  BY DEF Searches
<1>4. /\ Right(h, c1, c2, c, s2) /\ Up(h, s2, s1) /\ s2.marks[c] = mark
      /\ \A p \in h[c].parents : Covers(mark, s2.marks[p])
  <2> DEFINE t == UpdateAll(h, s1, s1.marks[c], ps)
  <2>1. /\ Right(h, c1, c2, c, t) /\ Up(h, t, s1) /\ t.marks[c] = s1.marks[c]
        /\ \A p \in h[c].parents : Covers(s1.marks[c], t.marks[p])
    BY <1>3, RightUpdateAll
  <2>2. t = s2
    BY <1>3
  <2> HIDE DEF t, s2, mark
  <2> QED BY <1>3, <2>1, <2>2
<1> HIDE DEF s2, mark
<1>5. /\ Honest(h, c1, c2, s2.marks) /\ s2.init = {c1, c2}
      /\ \A x \in s2.explored : s2.marks[x] # "none"
      /\ Propagated(h, c, s2.explored, s2.marks, {})
      /\ s2.complete => AllFound(h, c1, c2, s2.marks)
      /\ s1.init = {c1, c2}
  BY <1>3, <1>4 DEF Right
<1>6. s2.explored = s.explored \cup {c}
  <2>1. s2.explored = s1.explored
    BY UpdatesApart, <1>3 DEF s2
  <2> QED BY <2>1
<1>7. Propagated(h, NoCommit, s3.explored, s3.marks, {})
  <2> SUFFICES ASSUME NEW x \in s.explored \cup {c}, NEW p \in h[x].parents
               PROVE  Covers(s2.marks[x], s2.marks[p])
    BY <1>2 DEF Propagated
  <2>1. CASE x = c
    BY <1>4, <2>1
  <2>2. CASE x # c
    BY <1>5, <1>6, <2>2 DEF Propagated
  <2> QED BY <2>1, <2>2
<1>8. Right(h, c1, c2, NoCommit, s3)
  BY <1>2, <1>5, <1>6, <1>7 DEF Right
<1>9. Up(h, s3, s)
  BY <1>2, <1>4 DEF Up
<1> QED BY <1>2, <1>4, <1>8, <1>9 DEF mark, Taken

\* In a search that is good, all that is explored has its parents explored when no
\* commit is due.
LEMMA NoneDue ==
  ASSUME NEW h, Graph(h), NEW c1 \in Commits(h), NEW c2 \in Commits(h),
         NEW s \in GoodSearches(h, c1, c2), \A x : Due(s, x) => x \in s.explored,
         \A x \in s.layer : s.marks[x] \in Shared \/ h[x].parents \subseteq s.explored
  PROVE  AllFound(h, c1, c2, s.marks)
<1>1. /\ Right(h, c1, c2, NoCommit, s) /\ s.marks[c1] \in Side1 /\ s.marks[c2] \in Side2
      /\ c1 \in s.explored /\ c2 \in s.explored
      /\ \A x \in s.explored \ s.layer : \A p \in h[x].parents : p \in s.explored
  BY DEF GoodSearches, InLayers
<1>2. \A x \in s.explored : s.marks[x] \in Shared \/ h[x].parents \subseteq s.explored
  BY <1>1
<1> QED BY <1>1, <1>2, AllSeen

LEMMA StaysSided ==
  ASSUME NEW m1 \in Marks, NEW m2 \in Marks, Covers(m1, m2)
  PROVE  (m1 \in Side1 => m2 \in Side1) /\ (m1 \in Side2 => m2 \in Side2)
BY DEF Covers

\* A commit is met in a good search: all is right but for its parents.
LEMMA MeetsRight ==
  ASSUME NEW h, Graph(h), NEW c1 \in Commits(h), NEW c2 \in Commits(h),
         NEW s \in GoodSearches(h, c1, c2), s.todo # << >>,
         NEW d, NEW c, d = Head(s.todo)[1], c = Head(s.todo)[2], c \notin s.explored
  PROVE  /\ Right(h, c1, c2, c, Met(Untodo(s), d, c))
         /\ s.marks[c] # "none" /\ s.marks[c] \in Marks
<1> DEFINE rest == Untodo(s)
           s1 == Met(rest, d, c)
<1>1. s \in Searches(h) /\ Right(h, c1, c2, NoCommit, s) /\ InLayers(h, c1, c2, s)
  BY DEF GoodSearches
<1>2. /\ d \in Nat /\ c \in Commits(h)
      /\ rest \in Searches(h) /\ rest.marks = s.marks
      /\ rest.explored = s.explored /\ rest.layer = s.layer /\ rest.depth = s.depth
      /\ rest.complete = s.complete /\ rest.init = s.init
  BY <1>1, ExploreNextIs
<1>3. First(h, s, d, c)
  BY <1>1, FirstOfLayer
<1> HIDE DEF rest
<1>4. Right(h, c1, c2, NoCommit, rest)
  BY <1>1, <1>2, RightMoves
<1>5. s.marks[c] # "none" /\ s.marks[c] \in Marks
  BY <1>1, <1>2, <1>3 DEF First, Searches
<1>6. MetHere(h, rest, d, c, s1)
  BY <1>2, MetIsHere
<1>7. s1.complete => AllFound(h, c1, c2, rest.marks)
  <2>1. CASE rest.complete
    BY <1>4, <2>1 DEF Right
  <2>2. CASE d # s.depth /\ \A x \in s.layer : s.marks[x] \in Shared
    <3>1. \A x : Due(s, x) => x \in s.explored
      BY <1>3, <2>2 DEF First
    <3> QED BY <1>2, <2>2, <3>1, NoneDue
  <2> QED BY <1>2, <1>6, <2>1, <2>2 DEF MetHere
<1>8. Right(h, c1, c2, c, s1)
  BY <1>2, <1>4, <1>5, <1>7, MetIsRight
<1> QED BY <1>5, <1>8 DEF rest

\* A good search stays good.
LEMMA GoodNext ==
  ASSUME NEW h, Graph(h), NEW c1 \in Commits(h), NEW c2 \in Commits(h),
         NEW s \in GoodSearches(h, c1, c2), ~s.complete, s.todo # << >>
  PROVE  ExploreNext(h, s) \in GoodSearches(h, c1, c2)
<1> DEFINE d == Head(s.todo)[1]
           c == Head(s.todo)[2]
           rest == Untodo(s)
           s2 == ExploreNext(h, s)
<1>1. /\ s \in Searches(h) /\ Right(h, c1, c2, NoCommit, s) /\ InLayers(h, c1, c2, s)
      /\ s.marks[c1] \in Side1 /\ s.marks[c2] \in Side2
  BY DEF GoodSearches
<1>2. /\ d \in Nat /\ c \in Commits(h) /\ s2 \in Searches(h)
      /\ rest \in Searches(h) /\ rest.todo = Tail(s.todo) /\ rest.marks = s.marks
      /\ rest.explored = s.explored /\ rest.layer = s.layer /\ rest.depth = s.depth
      /\ rest.complete = s.complete /\ rest.init = s.init
      /\ c \in s.explored => s2 = rest
      /\ c \notin s.explored => s2 = Explore(h, rest, d, c)
  BY <1>1, ExploreNextIs
<1>3. First(h, s, d, c)
  BY <1>1, FirstOfLayer
<1>4. d = Head(s.todo)[1] /\ c = Head(s.todo)[2]
  OBVIOUS
<1> HIDE DEF d, c, rest, s2
<1>5. Right(h, c1, c2, NoCommit, rest)
  BY <1>1, <1>2, RightMoves
<1>6. CASE c \in s.explored
  <2>1. InLayers(h, c1, c2, rest)
    BY <1>1, <1>2, <1>4, <1>6, LayersSkip
  <2>2. rest \in GoodSearches(h, c1, c2)
    BY <1>1, <1>2, <1>5, <2>1 DEF GoodSearches
  <2> QED BY <1>2, <1>6, <2>2 DEF s2
<1>7. CASE c \notin s.explored
  <2> DEFINE s1 == Met(rest, d, c)
  <2>1. s.marks[c] # "none" /\ s.marks[c] \in Marks /\ Right(h, c1, c2, c, s1)
    BY <1>4, <1>7, MeetsRight DEF rest
  <2>2. MetHere(h, rest, d, c, s1)
    BY <1>2, MetIsHere
  <2>3. /\ s1 \in Searches(h) /\ s1.marks = rest.marks
        /\ s1.init = rest.init /\ s1.explored = rest.explored \cup {c}
        /\ d # rest.depth => s1.layer = {c}
        /\ d = rest.depth => s1.layer = rest.layer \cup {c}
    BY <2>2 DEF MetHere
  <2>6. PICK ps \in Seq(Commits(h)), r \in Seq(Nat \X Commits(h)) : Explored(h, rest, d, c, ps, r)
    BY <1>2, ExploreIs
  <2>7. /\ ToSet(ps) = h[c].parents
        /\ ToSet(r) = Waiting(h, s, d, c)
        /\ s2.marks = UpdateAll(h, s1, s.marks[c], ps).marks
        /\ s2.complete = UpdateAll(h, s1, s.marks[c], ps).complete
        /\ s2.todo = Tail(s.todo) \o r /\ s2.explored = s.explored \cup {c} /\ s2.depth = d
        /\ s2.init = s.init /\ s2.layer = s1.layer
    BY <1>2, <1>7, <2>6 DEF Explored, Waiting
  <2> HIDE DEF s1
  <2>8. /\ Right(h, c1, c2, NoCommit, s2) /\ Up(h, s2, s)
        /\ \A p \in h[c].parents : Covers(s.marks[c], s2.marks[p])
    <3>1. /\ s1.marks = s.marks /\ s1.explored = s.explored \cup {c} /\ s1.init = s.init
          /\ s1 \in Searches(h)
      BY <1>2, <2>3
    <3>2. /\ s \in Searches(h) /\ c \in Commits(h) /\ s2 \in Searches(h)
          /\ s.marks[c] # "none" /\ Right(h, c1, c2, c, s1)
          /\ ps \in Seq(Commits(h)) /\ ToSet(ps) = h[c].parents
          /\ s2.marks = UpdateAll(h, s1, s.marks[c], ps).marks
          /\ s2.complete = UpdateAll(h, s1, s.marks[c], ps).complete
          /\ s2.explored = s.explored \cup {c} /\ s2.init = s.init
      BY <1>1, <1>2, <2>1, <2>6, <2>7
    <3>3. Taken(h, c1, c2, c, s, s2)
      BY <3>1, <3>2, ExploredIsRight
    <3> QED BY <3>3 DEF Taken
  <2>9. \A x \in Commits(h) : s.marks[x] \in Marks /\ s2.marks[x] \in Marks /\ Covers(s.marks[x], s2.marks[x])
    BY <1>1, <1>2, <2>8 DEF Up, Searches
  <2>10. InLayers(h, c1, c2, s2)
    <3>1. \A x \in Commits(h) : s.marks[x] # "none" => s2.marks[x] # "none"
      BY <2>9, CoversMore
    <3>2. \A p \in h[c].parents : s2.marks[p] # "none"
      <4> SUFFICES ASSUME NEW p \in h[c].parents PROVE s2.marks[p] # "none"
        OBVIOUS
      <4>1. p \in Commits(h)
        BY <1>2, ParentsOlder
      <4> QED BY <2>1, <2>8, <2>9, <4>1, CoversMore
    <3>3. (d # s.depth => s2.layer = {c}) /\ (d = s.depth => s2.layer = s.layer \cup {c})
      BY <1>2, <2>3, <2>7
    <3>4. /\ s \in Searches(h) /\ c \in Commits(h) /\ s2 \in Searches(h)
          /\ InLayers(h, c1, c2, s) /\ r \in Seq(Nat \X Commits(h))
          /\ ToSet(r) = Waiting(h, s, d, c)
          /\ s2.todo = Tail(s.todo) \o r /\ s2.explored = s.explored \cup {c} /\ s2.depth = d
      BY <1>1, <1>2, <2>6, <2>7
    <3>5. Follows(h, s, d, c, s2)
      BY <1>4, <3>1, <3>2, <3>3, <3>4 DEF Follows
    <3> QED BY <3>4, <3>5, LayersAfter
  <2>11. s2.marks[c1] \in Side1 /\ s2.marks[c2] \in Side2
    BY <1>1, <2>9, StaysSided
  <2> QED BY <1>2, <2>8, <2>10, <2>11 DEF GoodSearches, s2
<1> QED BY <1>6, <1>7 DEF s2

LEMMA GoodStart ==
  ASSUME NEW h, Graph(h), NEW c1 \in Commits(h), NEW c2 \in Commits(h), c1 # c2
  PROVE  StartSearch(h, c1, c2) \in GoodSearches(h, c1, c2)
<1> DEFINE s == StartSearch(h, c1, c2)
<1>1. /\ s \in Searches(h) /\ s.explored = {} /\ s.layer = {} /\ s.depth = 0
      /\ ToSet(s.todo) = {<<0, c1>>, <<0, c2>>} /\ ~s.complete /\ s.init = {c1, c2}
      /\ s.marks[c1] = "seen1" /\ s.marks[c2] = "seen2"
      /\ \A c \in Commits(h) : c \notin {c1, c2} => s.marks[c] = "none"
  BY StartIs
<1> HIDE DEF s
<1>2. c1 \in Ancestors(h, c1) /\ c2 \in Ancestors(h, c2)
  BY AncestorsReach
<1>3. Honest(h, c1, c2, s.marks)
  <2> SUFFICES ASSUME NEW x \in Commits(h) PROVE Claims(h, c1, c2, x, s.marks[x])
    BY DEF Honest
  <2>1. CASE x = c1
    BY <1>1, <1>2, <2>1 DEF Claims, Side1, Side2
  <2>2. CASE x = c2
    BY <1>1, <1>2, <2>2 DEF Claims, Side1, Side2
  <2>3. CASE x \notin {c1, c2}
    BY <1>1, <2>3 DEF Claims, Side1, Side2
  <2> QED BY <2>1, <2>2, <2>3
<1>4. Right(h, c1, c2, NoCommit, s)
  BY <1>1, <1>3 DEF Right, Propagated
<1>5. Ordered(s.todo)
  <2>1. \A i \in 1..Len(s.todo) : s.todo[i][1] = 0
    <3>1. s.todo \in Seq(Nat \X Commits(h))
      BY <1>1 DEF Searches
    <3>2. DOMAIN s.todo = 1..Len(s.todo)
      BY <3>1, LenProperties
    <3>3. \A t \in ToSet(s.todo) : t[1] = 0
      BY <1>1
    <3> QED BY <3>2, <3>3 DEF ToSet
  <2> QED BY <2>1 DEF Ordered
<1>6. InLayers(h, c1, c2, s)
  BY <1>1, <1>5 DEF InLayers, Due
<1>7. s.marks[c1] \in Side1 /\ s.marks[c2] \in Side2
  BY <1>1 DEF Side1, Side2
<1> QED BY <1>1, <1>4, <1>6, <1>7 DEF GoodSearches, s

\* The search finds all the lowest common ancestors, and common ancestors only.
LEMMA LcasFinds ==
  ASSUME NEW h, Graph(h), NEW c1 \in Commits(h), NEW c2 \in Commits(h)
  PROVE  /\ LowestCommon(h, c1, c2) \subseteq Lcas(h, c1, c2)
         /\ Lcas(h, c1, c2) \subseteq Ancestors(h, c1) \cap Ancestors(h, c2)
<1> DEFINE I == GoodSearches(h, c1, c2)
<1>1. CASE c1 = c2
  <2>1. Lcas(h, c1, c2) = {c1}
    BY <1>1 DEF Lcas
  <2>2. c1 \in Ancestors(h, c1)
    BY AncestorsReach
  <2>3. Ancestors(h, c1) \subseteq {c1} \cup Below(h, c1, c2)
    BY <1>1, <2>2, ParentsBelow
  <2>4. LowestCommon(h, c1, c2) \subseteq {c1}
    BY <2>3 DEF LowestCommon, Below
  <2> QED BY <1>1, <2>1, <2>2, <2>4
<1>2. CASE c1 # c2
  <2>1. SearchesIn(h, I)
    BY GoodNext DEF SearchesIn, GoodSearches
  <2>2. StartSearch(h, c1, c2) \in I
    BY <1>2, GoodStart
  <2> HIDE DEF I
  <2>3. PICK s \in I : /\ s.complete \/ s.todo = << >>
                       /\ Lcas(h, c1, c2) = {c \in Commits(h) : s.marks[c] = "LCA"}
    BY <1>2, <2>1, <2>2, SearchEnds
  <2>4. s \in GoodSearches(h, c1, c2) /\ Right(h, c1, c2, NoCommit, s) /\ s \in Searches(h)
        /\ InLayers(h, c1, c2, s)
    BY DEF I, GoodSearches
  <2>5. AllFound(h, c1, c2, s.marks)
    <3>1. CASE s.complete
      BY <2>4, <3>1 DEF Right
    <3>2. CASE s.todo = << >>
      <4>1. ToSet(s.todo) = {}
        BY <3>2 DEF ToSet
      <4>2. \A x : Due(s, x) => x \in s.explored
        BY <4>1 DEF Due
      <4>3. \A x \in s.layer : h[x].parents \subseteq s.explored
        BY <2>4, <4>1 DEF InLayers
      <4> QED BY <2>4, <4>2, <4>3, NoneDue
    <3> QED BY <2>3, <3>1, <3>2
  <2>6. Honest(h, c1, c2, s.marks)
    BY <2>4 DEF Right
  <2>7. \A x \in LowestCommon(h, c1, c2) : x \in Commits(h) /\ x \notin Below(h, c1, c2)
    BY AncestorsReach DEF LowestCommon, Below
  <2>8. \A x \in LowestCommon(h, c1, c2) : s.marks[x] = "LCA"
    BY <2>5, <2>6, <2>7 DEF AllFound, Shared, Honest, Claims
  <2>9. ASSUME NEW x \in Commits(h), s.marks[x] = "LCA"
        PROVE  x \in Ancestors(h, c1) /\ x \in Ancestors(h, c2)
    BY <2>6, <2>9 DEF Honest, Claims, Side1, Side2
  <2> QED BY <2>3, <2>7, <2>8, <2>9
<1> QED BY <1>1, <1>2

LEMMA LcasReached ==
  ASSUME NEW h, Graph(h), NEW c1 \in Commits(h), NEW c2 \in Commits(h)
  PROVE  Lcas(h, c1, c2) \subseteq Ancestors(h, c1) \cap Ancestors(h, c2)
BY LcasFinds

(* A search for an ancestor. *)

\* A commit other than c2 that is reached from c2 and waits for no mark has a child
\* that is explored and is reached from c2 only.
Fed(h, c2, marks, explored, waiting) ==
  \A x \in Commits(h) \ waiting : marks[x] \in {"seen2", "LCA"} =>
    x = c2 \/ \E b \in explored : marks[b] = "seen2" /\ x \in h[b].parents

\* The commits that wait for the mark "seenBoth".
Falling(w) == IF w.mark = "seenBoth" THEN ToSet(w.queue) ELSE {}

\* The walks that pass the mark of c to its parent p and keep the commits fed.
FedWalks(h, c1, c2, c, p, mark, s0) ==
  {w \in RightWalks(h, c1, c2, c, p, mark, s0) :
     /\ Fed(h, c2, w.s.marks, w.s.explored, Falling(w))
     /\ w.mark # "seenBoth" /\ w.queue # << >> => ToSet(w.queue) = {p} /\ w.mark = mark}

\* A commit becomes reached from c2 only by a mark that is, or was it before.
LEMMA SeenFrom ==
  ASSUME NEW mark \in Marks, NEW old \in Marks
  PROVE  LET after == UpdateMark(mark, old)
         IN /\ mark = "seenBoth" => after = "seenBoth"
            /\ after = "seen2" => mark = "seen2"
            /\ after = "LCA" => mark = "seen2" \/ old \in {"seen2", "LCA"}
            /\ old \notin {"none", after} => after \in Shared
<1>1. CASE mark \in {"seen1", "seen2"} /\ old \in {mark, "none"}
  <2>1. UpdateMark(mark, old) = mark
    BY <1>1 DEF UpdateMark
  <2> QED BY <1>1, <2>1
<1>2. CASE mark = "seenBoth"
  <2>1. UpdateMark(mark, old) = "seenBoth"
    BY <1>2 DEF UpdateMark
  <2> QED BY <1>2, <2>1 DEF Shared
<1>3. CASE {mark, old} = {"seen1", "seen2"}
  <2>1. mark # old /\ mark \in {"seen1", "seen2"} /\ old \in {"seen1", "seen2"}
    BY <1>3
  <2>2. UpdateMark(mark, old) = "LCA"
    BY <1>3, <2>1 DEF UpdateMark
  <2> QED BY <2>1, <2>2 DEF Shared
<1>4. CASE mark # "seenBoth" /\ old = "LCA"
  <2>1. {mark, old} # {"seen1", "seen2"}
    BY <1>4
  <2>2. UpdateMark(mark, old) = "LCA"
    BY <1>4, <2>1 DEF UpdateMark
  <2> QED BY <1>4, <2>2 DEF Shared
<1>5. CASE /\ ~(mark \in {"seen1", "seen2"} /\ old \in {mark, "none"})
           /\ mark # "seenBoth" /\ {mark, old} # {"seen1", "seen2"} /\ old # "LCA"
  <2>1. UpdateMark(mark, old) = "seenBoth"
    BY <1>5 DEF UpdateMark
  <2> QED BY <1>5, <2>1 DEF Shared
<1> QED BY <1>1, <1>2, <1>3, <1>4, <1>5

LEMMA FedWalkNext ==
  ASSUME NEW h, Graph(h), NEW c1 \in Commits(h), NEW c2 \in Commits(h), NEW c \in Commits(h),
         NEW p \in h[c].parents, NEW mark \in Marks, NEW s0 \in Searches(h),
         c \in s0.explored, s0.marks[c] = mark,
         NEW w \in FedWalks(h, c1, c2, c, p, mark, s0), w.queue # << >>
  PROVE  MarkNext(h, w) \in FedWalks(h, c1, c2, c, p, mark, s0)
<1> DEFINE a == Head(w.queue)
           old == w.s.marks[a]
           after == UpdateMark(w.mark, old)
           more == More(h, w.s, a, old, after)
           rest == ToSet(Tail(w.queue))
           w2 == MarkNext(h, w)
           marks == w.s.marks
           marks2 == w2.s.marks
           E == w.s.explored
<1>1. /\ w \in Walks(h) /\ Apart(w.s, s0) /\ marks[c] = mark
      /\ \A x \in ToSet(w.queue) : x < c
      /\ w.mark # "seenBoth" => Len(w.queue) <= 1
      /\ Fed(h, c2, marks, E, Falling(w))
      /\ w.mark # "seenBoth" => ToSet(w.queue) = {p} /\ w.mark = mark
  BY DEF FedWalks, RightWalks
<1>2. /\ w2 \in Walks(h) /\ a \in Commits(h) /\ old \in Marks /\ after \in Marks
      /\ Apart(w2.s, w.s) /\ marks2 = [marks EXCEPT ![a] = after]
      /\ after = "LCA" => w2.mark = "seenBoth"
      /\ after # "LCA" => w2.mark = after
      /\ ToSet(w.queue) = {a} \cup rest /\ ToSet(w2.queue) = rest \cup more
      /\ more = {} => Len(w2.queue) = Len(w.queue) - 1
      /\ Len(w.queue) \in Nat \ {0}
  BY <1>1, MarkNextIs
<1>3. /\ w.mark \in Marks /\ marks \in [Commits(h) -> Marks] /\ E \subseteq Commits(h)
      /\ w2.queue \in Seq(Commits(h)) /\ w2.s.explored = E /\ c \in E
  BY <1>1, <1>2 DEF Walks, Searches, Apart
<1>4. /\ marks2[a] = after /\ \A x \in Commits(h) : x # a => marks2[x] = marks[x]
      /\ marks[a] = old /\ a < c
  BY <1>1, <1>2, <1>3
<1>5. /\ w.mark = "seenBoth" => after = "seenBoth"
      /\ after = "seen2" => w.mark = "seen2"
      /\ after = "LCA" => w.mark = "seen2" \/ old \in {"seen2", "LCA"}
      /\ old \notin {"none", after} => after \in Shared
  BY <1>2, <1>3, SeenFrom
<1>6. /\ more # {} => a \in E /\ old \notin {"seenBoth", "LCA", after}
      /\ a \in E /\ old \notin {"seenBoth", "LCA", after} => more = h[a].parents
  BY DEF More
<1>7. \A x \in E : marks[x] # "none"
  BY DEF FedWalks, RightWalks
<1>8. w2 \in RightWalks(h, c1, c2, c, p, mark, s0)
  <2>1. p \in Commits(h) /\ w \in RightWalks(h, c1, c2, c, p, mark, s0)
    BY ParentsOlder DEF FedWalks
  <2> QED BY <2>1, RightWalkNext
<1> HIDE DEF old, after, more, rest, w2, marks, marks2, a, E
<1>9. more # {} => w2.mark = "seenBoth"
  BY <1>2, <1>4, <1>5, <1>6, <1>7 DEF Shared
<1>10. w2.mark # "seenBoth" => w2.queue = << >>
  <2> SUFFICES ASSUME w2.mark # "seenBoth" PROVE w2.queue = << >>
    OBVIOUS
  <2>1. more = {} /\ w.mark # "seenBoth"
    BY <1>2, <1>5, <1>9
  <2>2. Len(w2.queue) = 0
    BY <1>1, <1>2, <2>1
  <2> QED BY <1>3, <2>2, EmptySeq
<1>11. c \in Nat /\ a \in Nat /\ c # a
  BY <1>2, <1>4 DEF Commits, Graph
<1>12. Falling(w) = {} \/ (w.mark = "seenBoth" /\ Falling(w) = {a} \cup rest)
  BY <1>2 DEF Falling
<1>13. w2.mark = "seenBoth" => Falling(w2) = rest \cup more
  BY <1>2 DEF Falling
<1>14. ASSUME NEW x \in Commits(h), x \notin Falling(w2), marks2[x] \in {"seen2", "LCA"}
       PROVE  x = c2 \/ \E b \in E : marks2[b] = "seen2" /\ x \in h[b].parents
  <2>1. ASSUME NEW b \in E, marks[b] = "seen2", x \in h[b].parents
        PROVE  marks2[b] = "seen2"
    <3>1. b \in Commits(h)
      BY <1>3
    <3>2. CASE b = a /\ after # "seen2"
      <4>1. old = "seen2" /\ after \in Shared
        BY <1>4, <1>5, <2>1, <3>2
      <4>2. w2.mark = "seenBoth" /\ more = h[a].parents
        BY <1>2, <1>6, <2>1, <3>2, <4>1 DEF Shared
      <4> QED BY <1>13, <1>14, <2>1, <3>2, <4>2
    <3>3. CASE b # a
      BY <1>4, <2>1, <3>1, <3>3
    <3>4. CASE b = a /\ after = "seen2"
      BY <1>4, <3>4
    <3> QED BY <3>2, <3>3, <3>4
  <2>2. ASSUME x \notin Falling(w), marks[x] \in {"seen2", "LCA"}
        PROVE  x = c2 \/ \E b \in E : marks2[b] = "seen2" /\ x \in h[b].parents
    <3>1. x = c2 \/ \E b \in E : marks[b] = "seen2" /\ x \in h[b].parents
      BY <1>1, <2>2 DEF Fed
    <3> QED BY <2>1, <3>1
  <2>3. CASE x = a
    <3>1. w.mark # "seenBoth" /\ Falling(w) = {}
      BY <1>4, <1>5, <1>14, <2>3 DEF Falling
    <3>2. CASE w.mark = "seen2"
      <4>1. a = p /\ mark = "seen2"
        BY <1>1, <1>2, <3>1, <3>2
      <4>2. marks2[c] = "seen2" /\ x \in h[c].parents
        BY <1>1, <1>4, <1>11, <2>3, <4>1
      <4> QED BY <1>3, <4>2
    <3>3. CASE old \in {"seen2", "LCA"}
      BY <1>4, <2>2, <2>3, <3>1, <3>3
    <3> QED BY <1>4, <1>5, <1>14, <2>3, <3>2, <3>3
  <2>4. CASE x # a
    <3>1. x \notin Falling(w)
      <4> SUFFICES ASSUME x \in Falling(w) PROVE FALSE
        OBVIOUS
      <4>1. w.mark = "seenBoth" /\ x \in rest
        BY <1>12, <2>4
      <4>2. w2.mark = "seenBoth"
        BY <1>2, <1>5, <4>1
      <4> QED BY <1>13, <1>14, <4>1, <4>2
    <3> QED BY <1>4, <1>14, <2>2, <2>4, <3>1
  <2> QED BY <2>3, <2>4
<1>15. Fed(h, c2, marks2, w2.s.explored, Falling(w2))
  BY <1>3, <1>14 DEF Fed
<1> QED BY <1>8, <1>10, <1>15 DEF FedWalks, w2, marks2

\* The mark of a commit reaches one of its parents.
LEMMA FedUpdate ==
  ASSUME NEW h, Graph(h), NEW c1 \in Commits(h), NEW c2 \in Commits(h), NEW c \in Commits(h),
         NEW s, Right(h, c1, c2, c, s), s.marks[c] # "none", NEW p \in h[c].parents,
         c \in s.explored, Fed(h, c2, s.marks, s.explored, {})
  PROVE  LET t == UpdateAncestors(h, s, s.marks[c], p)
         IN t.explored = s.explored /\ Fed(h, c2, t.marks, s.explored, {})
<1> DEFINE mark == s.marks[c]
           I == FedWalks(h, c1, c2, c, p, mark, s)
           first == FirstWalk(s, mark, p)
           t == UpdateAncestors(h, s, mark, p)
<1>1. s \in Searches(h) /\ mark \in Marks /\ p \in Commits(h)
  BY ParentsOlder DEF Right, Searches
<1>2. first \in RightWalks(h, c1, c2, c, p, mark, s)
  BY FirstIsRight
<1> HIDE DEF mark
<1>3. first \in I
  <2>1. first.s = s /\ first.mark = mark /\ ToSet(first.queue) = {p}
    BY DEF FirstWalk, ToSet
  <2>2. Fed(h, c2, first.s.marks, first.s.explored, Falling(first))
    BY <2>1 DEF Fed
  <2> QED BY <1>2, <2>1, <2>2 DEF FedWalks
<1>4. WalksIn(h, I)
  <2>1. I \subseteq Walks(h)
    BY DEF FedWalks, RightWalks
  <2>2. ASSUME NEW w \in I, w.queue # << >> PROVE MarkNext(h, w) \in I
    BY <1>1, <2>2, FedWalkNext DEF mark
  <2> QED BY <2>1, <2>2 DEF WalksIn
<1>5. PICK w \in I : w.queue = << >> /\ t = w.s
  BY <1>3, <1>4, WalkEnds
<1>6. /\ Fed(h, c2, w.s.marks, w.s.explored, Falling(w)) /\ Apart(w.s, s)
  BY DEF FedWalks, RightWalks
<1>7. Falling(w) = {} /\ w.s.explored = s.explored
  BY <1>5, <1>6 DEF Falling, ToSet, Apart
<1> QED BY <1>5, <1>6, <1>7 DEF mark

\* It reaches all of them.
LEMMA FedUpdateAll ==
  ASSUME NEW h, Graph(h), NEW c1 \in Commits(h), NEW c2 \in Commits(h), NEW c \in Commits(h),
         NEW s, Right(h, c1, c2, c, s), s.marks[c] # "none",
         NEW ps \in Seq(Commits(h)), ToSet(ps) = h[c].parents,
         c \in s.explored, Fed(h, c2, s.marks, s.explored, {})
  PROVE  Fed(h, c2, UpdateAll(h, s, s.marks[c], ps).marks, s.explored, {})
<1> DEFINE mark == s.marks[c]
           n == Len(ps)
           t == UpdateAll(h, s, mark, ps)
<1>1. s \in Searches(h) /\ mark \in Marks
  BY DEF Right, Searches
<1> HIDE DEF mark, t
<1>2. PICK after \in [0..n -> Searches(h)] :
        /\ after[0] = s /\ UpdateAll(h, s, mark, ps) = after[n]
        /\ \A i \in 1..n : after[i] = UpdateAncestors(h, after[i - 1], mark, ps[i])
        /\ \A i \in 0..n : Apart(after[i], s)
  BY <1>1, UpdateAllIs
<1>3. n \in Nat /\ DOMAIN ps = 1..n /\ \A i \in 1..n : ps[i] \in h[c].parents
  <2>1. n \in Nat /\ DOMAIN ps = 1..n
    BY LenProperties
  <2> QED BY <2>1 DEF ToSet
<1> HIDE DEF n
<1> DEFINE P == {i \in 0..n : /\ Right(h, c1, c2, c, after[i]) /\ after[i].marks[c] = mark
                              /\ after[i].explored = s.explored
                              /\ Fed(h, c2, after[i].marks, s.explored, {})}
<1>4. 0 \in P
  BY <1>2, <1>3 DEF mark
<1>5. ASSUME NEW i \in 1..n, i - 1 \in P PROVE i \in P
  <2> DEFINE u == after[i - 1]
             v == after[i]
  <2>1. /\ Right(h, c1, c2, c, u) /\ u.marks[c] = mark /\ u.explored = s.explored
        /\ Fed(h, c2, u.marks, u.explored, {})
        /\ v = UpdateAncestors(h, u, mark, ps[i])
        /\ ps[i] \in h[c].parents /\ i \in 0..n
    BY <1>2, <1>3, <1>5
  <2> HIDE DEF u, v
  <2>2. u.marks[c] # "none" /\ c \in u.explored /\ v = UpdateAncestors(h, u, u.marks[c], ps[i])
    BY <2>1 DEF mark
  <2>3. Right(h, c1, c2, c, v) /\ v.marks[c] = mark
    BY <2>1, <2>2, RightUpdate
  <2>4. v.explored = u.explored /\ Fed(h, c2, v.marks, u.explored, {})
    BY <2>1, <2>2, FedUpdate
  <2> QED BY <2>1, <2>3, <2>4 DEF v
<1> HIDE DEF P
<1>6. n \in P
  <2>1. n \in 0..n
    BY <1>3
  <2> QED BY <1>3, <1>4, <1>5, <2>1, CountsUp
<1> QED BY <1>2, <1>6 DEF P, t, mark

\* The searches from c1 and c2 in which the commits reached from c2 are fed.
FedSearches(h, c1, c2) ==
  {s \in GoodSearches(h, c1, c2) : Fed(h, c2, s.marks, s.explored, {})}

LEMMA FedNext ==
  ASSUME NEW h, Graph(h), NEW c1 \in Commits(h), NEW c2 \in Commits(h),
         NEW s \in FedSearches(h, c1, c2), ~s.complete, s.todo # << >>
  PROVE  ExploreNext(h, s) \in FedSearches(h, c1, c2)
<1> DEFINE d == Head(s.todo)[1]
           c == Head(s.todo)[2]
           rest == Untodo(s)
           s2 == ExploreNext(h, s)
           s1 == Met(rest, d, c)
<1>1. s \in GoodSearches(h, c1, c2) /\ s \in Searches(h) /\ Fed(h, c2, s.marks, s.explored, {})
  BY DEF FedSearches, GoodSearches
<1>2. s2 \in GoodSearches(h, c1, c2)
  BY <1>1, GoodNext
<1>3. /\ d \in Nat /\ c \in Commits(h)
      /\ rest \in Searches(h) /\ rest.marks = s.marks /\ rest.explored = s.explored
      /\ c \in s.explored => s2 = rest
      /\ c \notin s.explored => s2 = Explore(h, rest, d, c)
  BY <1>1, ExploreNextIs
<1>4. d = Head(s.todo)[1] /\ c = Head(s.todo)[2]
  OBVIOUS
<1> HIDE DEF d, c, rest, s2
<1>5. CASE c \in s.explored
  BY <1>1, <1>2, <1>3, <1>5 DEF FedSearches, s2
<1>6. CASE c \notin s.explored
  <2>1. Right(h, c1, c2, c, s1) /\ s.marks[c] # "none"
    BY <1>1, <1>4, <1>6, MeetsRight DEF rest
  <2>2. s1.marks = s.marks /\ s1.explored = s.explored \cup {c}
    BY <1>3, MetIs
  <2>3. PICK ps \in Seq(Commits(h)), r \in Seq(Nat \X Commits(h)) : Explored(h, rest, d, c, ps, r)
    BY <1>3, ExploreIs
  <2>4. /\ ToSet(ps) = h[c].parents
        /\ s2.marks = UpdateAll(h, s1, s.marks[c], ps).marks
        /\ s2.explored = s.explored \cup {c}
    BY <1>3, <1>6, <2>3 DEF Explored
  <2> HIDE DEF s1
  <2>5. Fed(h, c2, s1.marks, s1.explored, {})
    BY <1>1, <2>2 DEF Fed
  <2>6. c \in s1.explored /\ s1.marks[c] # "none" /\ s1.marks[c] = s.marks[c]
    BY <2>1, <2>2
  <2>7. Fed(h, c2, UpdateAll(h, s1, s1.marks[c], ps).marks, s1.explored, {})
    BY <1>3, <2>1, <2>4, <2>5, <2>6, FedUpdateAll
  <2>8. Fed(h, c2, s2.marks, s2.explored, {})
    BY <2>2, <2>4, <2>6, <2>7
  <2> QED BY <1>2, <2>8 DEF FedSearches, s2
<1> QED BY <1>5, <1>6

LEMMA FedStart ==
  ASSUME NEW h, Graph(h), NEW c1 \in Commits(h), NEW c2 \in Commits(h), c1 # c2
  PROVE  StartSearch(h, c1, c2) \in FedSearches(h, c1, c2)
<1> DEFINE s == StartSearch(h, c1, c2)
<1>1. s \in GoodSearches(h, c1, c2)
  BY GoodStart
<1>2. /\ s.marks[c1] = "seen1"
      /\ \A c \in Commits(h) : c \notin {c1, c2} => s.marks[c] = "none"
  BY StartIs
<1> HIDE DEF s
<1>3. Fed(h, c2, s.marks, s.explored, {})
  BY <1>2 DEF Fed
<1> QED BY <1>1, <1>3 DEF FedSearches, s

\* Between a commit and an ancestor of it, the search finds the ancestor and no other.
LEMMA LcasOfAncestor ==
  ASSUME NEW h, Graph(h), NEW c1 \in Commits(h), NEW c2 \in Commits(h), c1 # c2,
         c2 \in Ancestors(h, c1)
  PROVE  Lcas(h, c1, c2) = {c2}
<1> DEFINE I == FedSearches(h, c1, c2)
<1>1. c2 \in Lcas(h, c1, c2)
  <2>1. c2 \in Ancestors(h, c2) /\ c2 \notin Below(h, c1, c2)
    <3>1. c2 \in Ancestors(h, c2)
      BY AncestorsReach
    <3>2. ASSUME NEW b \in Ancestors(h, c1) \cap Ancestors(h, c2), c2 \in Ancestors(h, b)
          PROVE  b = c2
      <4>1. b \in Commits(h) /\ b \in 1..c2
        BY <3>2, AncestorsReach
      <4>2. c2 \in 1..b
        BY <3>2, <4>1, AncestorsReach
      <4> QED BY <4>1, <4>2 DEF Commits, Graph
    <3> QED BY <3>1, <3>2 DEF Below, LowestCommon
  <2>2. c2 \in LowestCommon(h, c1, c2)
    BY <2>1 DEF Below
  <2> QED BY <2>2, LcasFinds
<1>2. SearchesIn(h, I)
  BY FedNext DEF SearchesIn, FedSearches, GoodSearches
<1>3. StartSearch(h, c1, c2) \in I
  BY FedStart
<1> HIDE DEF I
<1>4. PICK s \in I : Lcas(h, c1, c2) = {c \in Commits(h) : s.marks[c] = "LCA"}
  BY <1>2, <1>3, SearchEnds
<1>5. /\ Fed(h, c2, s.marks, s.explored, {}) /\ s.marks[c2] = "LCA"
      /\ s.explored \subseteq Commits(h)
  BY <1>1, <1>4 DEF I, FedSearches, GoodSearches, Searches
<1> DEFINE X == {x \in Commits(h) \ {c2} : s.marks[x] \in {"seen2", "LCA"}}
<1>6. X = {}
  <2> SUFFICES ASSUME X # {} PROVE FALSE
    OBVIOUS
  <2> DEFINE n == Len(h)
             Y == {n - x : x \in X}
  <2>1. n \in Nat /\ Commits(h) = 1..n
    BY DEF Commits, Graph
  <2>2. Y # {} /\ Y \subseteq Nat
    BY <2>1
  <2> HIDE DEF Y
  <2>3. PICK k \in Y : \A j \in Y : k <= j
    BY <2>2, Least
  <2>4. PICK x \in X : k = n - x
    BY DEF Y
  <2>5. PICK b \in s.explored : s.marks[b] = "seen2" /\ x \in h[b].parents
    BY <1>5 DEF Fed
  <2>6. b \in Commits(h) /\ x < b /\ b # c2
    BY <1>5, <2>5, ParentsOlder
  <2>7. n - b \in Y
    BY <2>5, <2>6 DEF Y
  <2> QED BY <2>1, <2>3, <2>4, <2>6, <2>7
<1> QED BY <1>1, <1>4, <1>6
-----------------------------------------------------------------------------
(* Merges. *)

LEMMA WellFormedGraph ==
  ASSUME NEW h, WellFormed(h)
  PROVE  /\ Graph(h) /\ Len(h) \in Nat /\ Commits(h) = 1..Len(h) /\ NoCommit \notin Commits(h)
         /\ \A c \in Commits(h) : h[c] \in Stored /\ c \in Nat
<1>1. h \in Seq(Stored) /\ Len(h) \in Nat /\ Commits(h) = 1..Len(h)
  BY LenProperties DEF WellFormed, Commits
<1>2. \A c \in Commits(h) : h[c] \in Stored
  BY <1>1, ElementOfSeq
<1> QED BY <1>1, <1>2 DEF WellFormed, Graph, NoCommit

LEMMA ExtendsItself ==
  ASSUME NEW h, WellFormed(h)
  PROVE  Extends(h, h)
BY WellFormedGraph DEF Extends

LEMMA ExtendsTwice ==
  ASSUME NEW h, NEW h2, NEW h3, WellFormed(h), WellFormed(h2), WellFormed(h3),
         Extends(h2, h), Extends(h3, h2)
  PROVE  Extends(h3, h) /\ Commits(h) \subseteq Commits(h2)
<1>1. /\ Len(h) \in Nat /\ Len(h2) \in Nat /\ Len(h3) \in Nat
      /\ Commits(h) = 1..Len(h) /\ Commits(h2) = 1..Len(h2)
  BY WellFormedGraph
<1>2. Len(h) <= Len(h2) /\ Len(h2) <= Len(h3)
  BY DEF Extends
<1>3. Commits(h) \subseteq Commits(h2) /\ Len(h) <= Len(h3)
  BY <1>1, <1>2
<1> QED BY <1>3 DEF Extends

\* What is added to a history is in it afterwards, with all that was in it before.
LEMMA AddedKeeps ==
  ASSUME NEW h, WellFormed(h), NEW c \in Stored, c.parents \subseteq Commits(h)
  PROVE  LET a == Added(h, c)
         IN /\ WellFormed(a.history) /\ Extends(a.history, h)
            /\ a.commit \in Commits(a.history) /\ a.history[a.commit] = c
            /\ \A i \in Commits(a.history) \ Commits(h) : a.history[i] = c
<1>0. h \in Seq(Stored) /\ Len(h) \in Nat /\ Commits(h) = 1..Len(h)
  BY WellFormedGraph DEF WellFormed
<1>1. CASE \E i \in Commits(h) : h[i] = c
  <2> DEFINE j == CHOOSE i \in Commits(h) : h[i] = c
  <2>1. j \in Commits(h) /\ h[j] = c
    BY <1>1
  <2> HIDE DEF j
  <2>2. Added(h, c) = Found(h, j)
    BY <1>1 DEF Added, j
  <2>3. Added(h, c).history = h /\ Added(h, c).commit = j
    BY <2>2 DEF Found
  <2> QED BY <2>1, <2>3, ExtendsItself
<1>2. CASE ~ \E i \in Commits(h) : h[i] = c
  <2> DEFINE h2 == Append(h, c)
             n == Len(h) + 1
  <2>1. Added(h, c).history = h2 /\ Added(h, c).commit = n
    BY <1>2 DEF Added, Found
  <2>2. /\ h2 \in Seq(Stored) /\ Len(h2) = n /\ h2[n] = c
        /\ \A i \in 1..Len(h) : h2[i] = h[i]
    BY <1>0, AppendProperties
  <2> HIDE DEF h2
  <2>3. /\ n \in Nat /\ Commits(h2) = 1..n /\ n \in 1..n /\ Len(h) <= n
        /\ \A i \in 1..n : i \in Commits(h) \/ i = n
        /\ Commits(h) = 1..(n - 1) /\ n \notin Commits(h)
    BY <1>0, <2>2 DEF Commits
  <2>4. Extends(h2, h)
    BY <1>0, <2>2, <2>3 DEF Extends
  <2>5. \A i \in 1..n : i \in Commits(h) => h2[i] = h[i]
    BY <1>0, <2>2
  <2>6. \A i \in 1..n : h2[i].parents \subseteq 1..(i - 1)
    <3> SUFFICES ASSUME NEW i \in 1..n
                 PROVE  h2[i].parents \subseteq 1..(i - 1)
      OBVIOUS
    <3>1. CASE i \in Commits(h)
      BY <2>5, <3>1 DEF WellFormed
    <3>2. CASE i = n
      BY <2>2, <2>3, <3>2
    <3> QED BY <2>3, <3>1, <3>2
  <2>7. \A i, j \in 1..n : h2[i] = h2[j] => i = j
    BY <1>2, <2>2, <2>3, <2>5 DEF WellFormed
  <2>8. WellFormed(h2)
    BY <2>2, <2>3, <2>6, <2>7 DEF WellFormed
  <2>9. \A i \in Commits(h2) \ Commits(h) : h2[i] = c
    BY <2>2, <2>3
  <2> HIDE DEF n
  <2> QED BY <2>1, <2>2, <2>3, <2>4, <2>8, <2>9
<1> QED BY <1>1, <1>2

LEMMA FewParents ==
  ASSUME NEW x \in Nat, NEW y \in Nat
  PROVE  /\ Cardinality({}) = 0 /\ Cardinality({x}) = 1
         /\ x # y => Cardinality({x, y}) = 2
<1>1. Cardinality({}) = 0 /\ IsFiniteSet({x}) /\ Cardinality({x}) = 1
  BY FS_EmptySet, FS_Singleton
<1>2. x # y => Cardinality({x} \cup {y}) = Cardinality({x}) + 1
  BY <1>1, FS_AddElement
<1>3. {x} \cup {y} = {x, y}
  OBVIOUS
<1> QED BY <1>1, <1>2, <1>3

\* The commits that join others, of a call with that info.
Joins(h, info) == {c \in Commits(h) : Cardinality(h[c].parents) > 1 /\ h[c].info = info}

\* A history is kept, and only joins of a call with that info are added to it.
Grown(h, info, h2) ==
  /\ WellFormed(h2) /\ Extends(h2, h)
  /\ \A c \in Commits(h2) \ Commits(h) : c \in Joins(h2, info)

LEMMA GrownItself ==
  ASSUME NEW h, WellFormed(h), NEW info
  PROVE  Grown(h, info, h)
BY ExtendsItself DEF Grown

LEMMA JoinsStay ==
  ASSUME NEW h, NEW h2, WellFormed(h), WellFormed(h2), Extends(h2, h), NEW info
  PROVE  \A c \in Commits(h) : c \in Commits(h2) /\ (c \in Joins(h2, info) <=> c \in Joins(h, info))
<1>1. Commits(h) \subseteq Commits(h2)
  BY ExtendsItself, ExtendsTwice
<1> QED BY <1>1 DEF Joins, Extends

LEMMA GrownTwice ==
  ASSUME NEW h, NEW h2, NEW h3, NEW info, WellFormed(h),
         Grown(h, info, h2), Grown(h2, info, h3)
  PROVE  Grown(h, info, h3)
<1>1. WellFormed(h2) /\ WellFormed(h3) /\ Extends(h2, h) /\ Extends(h3, h2)
  BY DEF Grown
<1>2. Extends(h3, h) /\ Commits(h) \subseteq Commits(h2)
  BY <1>1, ExtendsTwice
<1>3. ASSUME NEW c \in Commits(h3) \ Commits(h)
      PROVE  c \in Joins(h3, info)
  <2>1. CASE c \in Commits(h2)
    BY <2>1, <1>1, JoinsStay DEF Grown
  <2>2. CASE c \notin Commits(h2)
    BY <2>2 DEF Grown
  <2> QED BY <2>1, <2>2
<1> QED BY <1>1, <1>2, <1>3 DEF Grown

\* What is reached stays reached.
LEMMA ReachesStay ==
  ASSUME NEW h, NEW h2, WellFormed(h), WellFormed(h2), Extends(h2, h),
         NEW c \in Commits(h)
  PROVE  /\ c \in Commits(h2) /\ h2[c] = h[c] /\ Ancestors(h2, c) = Ancestors(h, c)
         /\ \A a : Reaches(h2, c, a) <=> Reaches(h, c, a)
<1>1. c \in Commits(h2) /\ Ancestors(h2, c) = Ancestors(h, c)
  BY WellFormedGraph, AncestorsStay
<1> QED BY <1>1 DEF Reaches, Extends

Outcomes == [history : Seq(Stored), commit : Nat]

\* What a side of a merge is to the commit c that comes out: c has its tree, or it has
\* changed nothing since a lowest common ancestor of the two, that was found or that
\* there is, or it has nothing, and the search found not one commit alone.
Kept(h, c1, c2, tree, side) ==
  \/ tree = h[side].tree
  \/ \E a \in Lcas(h, c1, c2) \cup LowestCommon(h, c1, c2) : h[a].tree = h[side].tree
  \/ h[side].tree = Absent /\ \A a \in Commits(h) : Lcas(h, c1, c2) # {a}

\* What a merge of c1 and c2 promises: a conflict, one of the two, or a commit that
\* joins others and is of this call.  A side that is not of this call is brought in.
Merging(h, c1, c2, info, o) ==
  /\ o \in Outcomes /\ Grown(h, info, o.history)
  /\ o.commit # NoCommit =>
       /\ o.commit \in {c1, c2} \cup Joins(o.history, info)
       /\ o.commit \in Commits(o.history)
       /\ o.history[o.commit].tree \in {h[c1].tree, h[c2].tree}
       /\ \A side \in {c1, c2} : side \notin Joins(h, info) =>
            /\ Reaches(o.history, o.commit, side)
            /\ Kept(h, c1, c2, o.history[o.commit].tree, side)

\* What the base of a merge promises: none, one of the commits cs, or a commit that
\* joins others and is of this call.
Basis(h, cs, info, o) ==
  /\ o \in Outcomes /\ Grown(h, info, o.history)
  /\ o.commit # NoCommit =>
       /\ o.commit \in cs \cup Joins(o.history, info)
       /\ o.commit \in Commits(o.history)
       /\ \E a \in cs : o.history[o.commit].tree = h[a].tree

\* A function that merges.
Merger(info, g) == \A a \in Merges : Merging(a.h, a.c1, a.c2, info, g[a])

LEMMA MergesAre ==
  ASSUME NEW h, WellFormed(h), NEW c1 \in Commits(h), NEW c2 \in Commits(h)
  PROVE  [h |-> h, c1 |-> c1, c2 |-> c2] \in Merges
<1>1. h \in Seq(Stored) /\ c1 \in Nat /\ c2 \in Nat
  BY WellFormedGraph DEF WellFormed
<1> QED BY <1>1 DEF Merges

LEMMA MergedBaseKeeps ==
  ASSUME NEW h, WellFormed(h), NEW info, NEW merge, Merger(info, merge),
         NEW cs, cs \subseteq Commits(h), NEW lcas \in Seq(cs),
         \A i \in 1..Len(lcas) : lcas[i] \in cs
  PROVE  Basis(h, cs, info, MergedBase(merge, h, lcas))
<1> DEFINE S == {o \in Outcomes : Basis(h, cs, info, o)}
           n == Len(lcas)
           b == Found(h, NoCommit)
           step == [i \in 1..n |-> [o \in S |->
                      IF i = 1 THEN Found(h, lcas[1])
                      ELSE IF o.commit = NoCommit THEN o
                      ELSE merge[[h |-> o.history, c1 |-> o.commit, c2 |-> lcas[i]]]]]
           Body(g) == [i \in 0..n |->
                        IF i = 0 THEN Found(h, NoCommit)
                        ELSE IF i = 1 THEN Found(h, lcas[1])
                        ELSE IF g[i - 1].commit = NoCommit THEN g[i - 1]
                        ELSE merge[[h |-> g[i - 1].history, c1 |-> g[i - 1].commit,
                                    c2 |-> lcas[i]]]]
           base == CHOOSE g : g = Body(g)
<1>0. n \in Nat /\ h \in Seq(Stored) /\ NoCommit \in Nat
  BY LenProperties DEF WellFormed, NoCommit
<1>1. b \in S
  <2>1. b \in Outcomes /\ b.history = h /\ b.commit = NoCommit
    BY <1>0 DEF Found, Outcomes
  <2> HIDE DEF b
  <2> QED BY <2>1, GrownItself DEF Basis
<1>2. ASSUME NEW i \in 1..n
      PROVE  Found(h, lcas[i]) \in S
  <2> DEFINE o == Found(h, lcas[i])
  <2>1. lcas[i] \in cs /\ lcas[i] \in Commits(h) /\ lcas[i] \in Nat
    BY <1>2, WellFormedGraph
  <2>2. o \in Outcomes /\ o.history = h /\ o.commit = lcas[i]
    BY <1>0, <2>1 DEF Found, Outcomes
  <2> HIDE DEF o
  <2>3. o \in S
    BY <2>1, <2>2, GrownItself DEF Basis
  <2> QED BY <2>3 DEF o
<1>3. ASSUME NEW i \in 1..n, NEW o \in S, o.commit # NoCommit
      PROVE  merge[[h |-> o.history, c1 |-> o.commit, c2 |-> lcas[i]]] \in S
  <2> DEFINE a == [h |-> o.history, c1 |-> o.commit, c2 |-> lcas[i]]
             o2 == merge[a]
  <2>1. /\ WellFormed(o.history) /\ Extends(o.history, h) /\ Grown(h, info, o.history)
        /\ o.commit \in Commits(o.history) /\ o.commit \in cs \cup Joins(o.history, info)
    BY <1>3 DEF Basis, Grown
  <2>2. lcas[i] \in cs /\ lcas[i] \in Commits(h)
    BY <1>3
  <2>3. lcas[i] \in Commits(o.history) /\ o.history[lcas[i]] = h[lcas[i]]
    BY <2>1, <2>2, ReachesStay
  <2>4. a \in Merges
    BY <2>1, <2>3, MergesAre
  <2>5. Merging(o.history, o.commit, lcas[i], info, o2)
    <3>1. a.h = o.history /\ a.c1 = o.commit /\ a.c2 = lcas[i]
      OBVIOUS
    <3> HIDE DEF a
    <3> QED BY <2>4, <3>1 DEF Merger
  <2> HIDE DEF o2, a
  <2>6. Grown(h, info, o2.history) /\ Grown(o.history, info, o2.history) /\ o2 \in Outcomes
    BY <2>1, <2>5, GrownTwice DEF Merging
  <2>7. ASSUME o2.commit # NoCommit
        PROVE  /\ o2.commit \in cs \cup Joins(o2.history, info)
               /\ o2.commit \in Commits(o2.history)
               /\ \E c \in cs : o2.history[o2.commit].tree = h[c].tree
    <3>1. /\ o2.commit \in {o.commit, lcas[i]} \cup Joins(o2.history, info)
          /\ o2.commit \in Commits(o2.history)
          /\ o2.history[o2.commit].tree \in {o.history[o.commit].tree, h[lcas[i]].tree}
      BY <2>3, <2>5, <2>7 DEF Merging
    <3>2. o.commit \in Joins(o.history, info) => o.commit \in Joins(o2.history, info)
      BY <2>1, <2>6, JoinsStay DEF Grown
    <3>3. \E c \in cs : o.history[o.commit].tree = h[c].tree
      BY <1>3 DEF Basis
    <3> QED BY <2>1, <2>2, <3>1, <3>2, <3>3
  <2>8. Basis(h, cs, info, o2)
    BY <2>6, <2>7 DEF Basis
  <2> QED BY <2>6, <2>8 DEF a, o2
<1>4. step \in [1..n -> [S -> S]]
  <2>1. ASSUME NEW i \in 1..n, NEW o \in S
        PROVE  (IF i = 1 THEN Found(h, lcas[1])
                ELSE IF o.commit = NoCommit THEN o
                ELSE merge[[h |-> o.history, c1 |-> o.commit, c2 |-> lcas[i]]]) \in S
    <3> HIDE DEF S
    <3> QED BY <1>2, <1>3, <2>1
  <2> HIDE DEF S
  <2> QED BY <2>1
<1>5. PICK f \in [0..n -> S] : Counts(n, b, step, f)
  <2> HIDE DEF S, b, step, n
  <2> QED BY <1>0, <1>1, <1>4, CountExists
<1>6. \A g \in [0..n -> S], i \in 1..n :
        step[i][g[i - 1]] = IF i = 1 THEN Found(h, lcas[1])
                            ELSE IF g[i - 1].commit = NoCommit THEN g[i - 1]
                            ELSE merge[[h |-> g[i - 1].history, c1 |-> g[i - 1].commit,
                                        c2 |-> lcas[i]]]
  <2> SUFFICES ASSUME NEW g \in [0..n -> S], NEW i \in 1..n
               PROVE  step[i][g[i - 1]] =
                        IF i = 1 THEN Found(h, lcas[1])
                        ELSE IF g[i - 1].commit = NoCommit THEN g[i - 1]
                        ELSE merge[[h |-> g[i - 1].history, c1 |-> g[i - 1].commit,
                                    c2 |-> lcas[i]]]
    OBVIOUS
  <2>1. i - 1 \in 0..n
    BY <1>0
  <2> HIDE DEF S
  <2> QED BY <2>1
<1>7. f = Body(f)
  <2>1. f = [i \in 0..n |-> IF i = 0 THEN b ELSE step[i][f[i - 1]]]
    BY <1>5 DEF Counts
  <2>2. \A i \in 0..n : i # 0 => i \in 1..n
    BY <1>0
  <2> DEFINE Lhs(i) == IF i = 0 THEN b ELSE step[i][f[i - 1]]
             Rhs(i) == IF i = 0 THEN Found(h, NoCommit)
                          ELSE IF i = 1 THEN Found(h, lcas[1])
                          ELSE IF f[i - 1].commit = NoCommit THEN f[i - 1]
                          ELSE merge[[h |-> f[i - 1].history, c1 |-> f[i - 1].commit,
                                      c2 |-> lcas[i]]]
  <2>3. \A i \in 0..n : Lhs(i) = Rhs(i)
    <3> HIDE DEF S, step
    <3> QED BY <1>6, <2>2
  <2> HIDE DEF Lhs, Rhs
  <2>4. [i \in 0..n |-> Lhs(i)] = [i \in 0..n |-> Rhs(i)]
    BY <2>3
  <2> QED BY <2>1, <2>4 DEF Lhs, Rhs
<1>8. base = Body(base)
  <2> HIDE DEF Body
  <2> QED BY <1>7
<1>9. MergedBase(merge, h, lcas) = base[n]
  BY DEF MergedBase
<1> HIDE DEF base
<1>10. \A i \in 0..n : base[i] \in S
  <2> DEFINE T == {i \in 0..n : base[i] \notin S}
  <2> SUFFICES ASSUME T # {} PROVE FALSE
    OBVIOUS
  <2>1. T \subseteq Nat
    BY <1>0
  <2>2. PICK k \in T : \A j \in T : k <= j
    <3> HIDE DEF T
    <3> QED BY <2>1, Least
  <2>3. \A i \in 0..n : base[i] = IF i = 0 THEN Found(h, NoCommit)
                        ELSE IF i = 1 THEN Found(h, lcas[1])
                        ELSE IF base[i - 1].commit = NoCommit THEN base[i - 1]
                        ELSE merge[[h |-> base[i - 1].history, c1 |-> base[i - 1].commit,
                                    c2 |-> lcas[i]]]
    BY <1>8
  <2>4. k \in 0..n /\ base[k] \notin S
    OBVIOUS
  <2>5. k # 0
    <3> HIDE DEF S
    <3> QED BY <1>1, <2>3, <2>4
  <2>6. k \in 1..n /\ k - 1 \in 0..n /\ k - 1 < k
    BY <1>0, <2>4, <2>5
  <2>7. base[k - 1] \in S
    BY <2>2, <2>6
  <2> HIDE DEF S, T, Body
  <2>8. CASE k = 1 \/ base[k - 1].commit = NoCommit
    <3>1. CASE k = 1
      <4>1. base[k] = Found(h, lcas[1])
        BY <2>3, <2>4, <2>5, <3>1
      <4>2. Found(h, lcas[1]) \in S
        BY <1>2, <2>6, <3>1
      <4> QED BY <2>4, <4>1, <4>2
    <3>2. CASE k # 1 /\ base[k - 1].commit = NoCommit
      <4>1. base[k] = base[k - 1]
        BY <2>3, <2>4, <2>5, <3>2
      <4> QED BY <2>4, <2>7, <4>1
    <3> QED BY <2>8, <3>1, <3>2
  <2>9. CASE k # 1 /\ base[k - 1].commit # NoCommit
    <3>1. base[k] = merge[[h |-> base[k - 1].history, c1 |-> base[k - 1].commit,
                           c2 |-> lcas[k]]]
      BY <2>3, <2>4, <2>5, <2>9
    <3> QED BY <1>3, <2>4, <2>6, <2>7, <2>9, <3>1
  <2> QED BY <2>8, <2>9
<1>11. n \in 0..n
  BY <1>0
<1> QED BY <1>9, <1>10, <1>11

\* What is merged is what a side has, and the other has not changed it, or has nothing
\* where there is no base.
LEMMA MergedSides ==
  ASSUME NEW x, NEW y, NEW old, Merged(old, x, y) # None
  PROVE  LET m == Merged(old, x, y)
         IN /\ m \in {x, y}
            /\ m = x \/ old = x \/ (x = Absent /\ old = None)
            /\ m = y \/ old = y \/ (y = Absent /\ old = None)
<1>1. CASE x = y
  <2>1. Merged(old, x, y) = x
    BY <1>1 DEF Merged
  <2> QED BY <1>1, <2>1
<1>2. CASE x # y /\ old = x
  <2>1. Merged(old, x, y) = y
    BY <1>2 DEF Merged
  <2> QED BY <1>2, <2>1
<1>3. CASE x # y /\ old # x /\ old = y
  <2>1. Merged(old, x, y) = x
    BY <1>3 DEF Merged
  <2> QED BY <1>3, <2>1
<1>4. CASE x # y /\ old # x /\ old # y
  <2>1. CASE old \in {None, Absent} /\ x = Absent
    <3>1. Merged(old, x, y) = y
      BY <1>4, <2>1 DEF Merged
    <3> QED BY <2>1, <3>1
  <2>2. CASE ~(old \in {None, Absent} /\ x = Absent) /\ old \in {None, Absent} /\ y = Absent
    <3>1. Merged(old, x, y) = x
      BY <1>4, <2>2 DEF Merged
    <3> QED BY <2>2, <3>1
  <2>3. CASE ~(old \in {None, Absent} /\ x = Absent) /\ ~(old \in {None, Absent} /\ y = Absent)
    <3>1. Merged(old, x, y) = None
      BY <1>4, <2>3 DEF Merged
    <3> QED BY <3>1
  <2> QED BY <2>1, <2>2, <2>3
<1> QED BY <1>1, <1>2, <1>3, <1>4

\* A common ancestor that is one of the two is a lowest one.
LEMMA AncestorIsLowest ==
  ASSUME NEW h, WellFormed(h), NEW c1 \in Commits(h), NEW c2 \in Commits(h),
         NEW a \in {c1, c2}, a \in Ancestors(h, c1), a \in Ancestors(h, c2)
  PROVE  a \in LowestCommon(h, c1, c2)
<1>1. Graph(h) /\ a \in Commits(h) /\ Commits(h) = 1..Len(h) /\ Len(h) \in Nat
  BY WellFormedGraph
<1>2. ASSUME NEW b \in Ancestors(h, c1) \cap Ancestors(h, c2), a \in Ancestors(h, b)
      PROVE  a = b
  <2>1. b \in Ancestors(h, a) /\ b \in Commits(h)
    BY <1>1, <1>2, AncestorsReach
  <2>2. b \in 1..a /\ a \in 1..b
    BY <1>1, <1>2, <2>1, AncestorsReach
  <2>3. b \in Nat /\ a \in Nat
    BY <1>1, <2>1
  <2> QED BY <2>2, <2>3
<1> QED BY <1>2 DEF LowestCommon

\* One commit is its own base.
LEMMA BaseOfOne ==
  ASSUME NEW h, NEW merge, NEW lcas, Len(lcas) = 1
  PROVE  MergedBase(merge, h, lcas) = Found(h, lcas[1])
<1> DEFINE Body(g) == [i \in 0..1 |->
                        IF i = 0 THEN Found(h, NoCommit)
                        ELSE IF i = 1 THEN Found(h, lcas[1])
                        ELSE IF g[i - 1].commit = NoCommit THEN g[i - 1]
                        ELSE merge[[h |-> g[i - 1].history, c1 |-> g[i - 1].commit,
                                    c2 |-> lcas[i]]]]
           base == CHOOSE g : g = Body(g)
           f == [i \in 0..1 |-> IF i = 0 THEN Found(h, NoCommit) ELSE Found(h, lcas[1])]
<1>1. f = Body(f)
  <2>1. \A i \in 0..1 : i = 0 \/ i = 1
    OBVIOUS
  <2> QED BY <2>1
<1>2. base = Body(base)
  <2> HIDE DEF Body
  <2> QED BY <1>1
<1>3. MergedBase(merge, h, lcas) = base[1]
  BY DEF MergedBase
<1> HIDE DEF base
<1> QED BY <1>2, <1>3

LEMMA MergeCommitKeeps ==
  ASSUME NEW h, WellFormed(h), NEW c1 \in Commits(h), NEW c2 \in Commits(h), c1 # c2,
         NEW info \in Nat, NEW base, Basis(h, Lcas(h, c1, c2), info, base),
         \A a \in Commits(h) : Lcas(h, c1, c2) = {a} => base.commit # NoCommit
  PROVE  Merging(h, c1, c2, info, MergeCommit(h, c1, c2, base, info))
<1> DEFINE old == IF base.commit = NoCommit THEN None ELSE base.history[base.commit].tree
           x == h[c1].tree
           y == h[c2].tree
           tree == Merged(old, x, y)
           join == [parents |-> {c1, c2}, tree |-> tree, info |-> info]
           o == MergeCommit(h, c1, c2, base, info)
           lcas == Lcas(h, c1, c2)
           h2 == base.history
<1> SUFFICES Merging(h, c1, c2, info, o)
  OBVIOUS
<1>1. /\ Graph(h) /\ h \in Seq(Stored) /\ h[c1] \in Stored /\ h[c2] \in Stored
      /\ c1 \in Nat /\ c2 \in Nat /\ NoCommit \notin Commits(h)
      /\ h[c1].parents \subseteq Commits(h) /\ h[c2].parents \subseteq Commits(h)
  BY WellFormedGraph, ParentsOlder DEF WellFormed
<1>2. lcas \subseteq Ancestors(h, c1) \cap Ancestors(h, c2)
  BY <1>1, LcasReached
<1>3. /\ c1 \in Ancestors(h, c1) /\ c2 \in Ancestors(h, c2)
  BY <1>1, AncestorsReach
<1>4. /\ base \in Outcomes /\ Grown(h, info, h2) /\ WellFormed(h2) /\ Extends(h2, h)
      /\ h2 \in Seq(Stored) /\ base.commit \in Nat
  BY DEF Basis, Grown, Outcomes
\* When one of the two comes out, the other is an ancestor of it.
<1>5. ASSUME NEW c \in {c1, c2}, NEW g, Grown(h, info, g), o = Found(g, c),
             \A side \in {c1, c2} : side \notin Joins(h, info) =>
               side = c \/ (side \in Ancestors(h, c))
      PROVE  Merging(h, c1, c2, info, o)
  <2>1. o.history = g /\ o.commit = c /\ o \in Outcomes
    BY <1>1, <1>5 DEF Found, Outcomes, Grown, WellFormed
  <2> HIDE DEF o
  <2>2. /\ c \in Commits(h) /\ c \in Commits(g) /\ g[c] = h[c]
        /\ \A a : Reaches(g, c, a) <=> Reaches(h, c, a)
    BY <1>5, ReachesStay DEF Grown
  <2>3. ASSUME NEW side \in {c1, c2}, side \notin Joins(h, info)
        PROVE  Reaches(g, c, side) /\ Kept(h, c1, c2, g[c].tree, side)
    <3>1. side \in Ancestors(h, c)
      BY <1>3, <1>5, <2>3
    <3>2. Reaches(g, c, side)
      BY <1>1, <2>2, <3>1 DEF Reaches
    <3>3. Kept(h, c1, c2, g[c].tree, side)
      <4>1. CASE side = c
        BY <2>2, <4>1 DEF Kept
      <4>2. CASE side # c
        <5>1. side \in Ancestors(h, c1) /\ side \in Ancestors(h, c2)
          BY <1>3, <3>1, <4>2
        <5>2. side \in LowestCommon(h, c1, c2)
          BY <5>1, AncestorIsLowest
        <5> QED BY <5>2 DEF Kept
      <4> QED BY <4>1, <4>2
    <3> QED BY <3>2, <3>3
  <2> QED BY <1>5, <2>1, <2>2, <2>3 DEF Merging
<1>6. CASE c1 \in h[c2].parents
  <2>1. o = Found(h, c2)
    BY <1>6 DEF MergeCommit
  <2>2. c1 \in Ancestors(h, c2)
    BY <1>1, <1>6, ParentIsAncestor
  <2> HIDE DEF o
  <2> QED BY <1>5, <2>1, <2>2, GrownItself
<1>7. CASE c1 \notin h[c2].parents /\ c2 \in h[c1].parents
  <2>1. o = Found(h, c1)
    BY <1>7 DEF MergeCommit
  <2>2. c2 \in Ancestors(h, c1)
    BY <1>1, <1>7, ParentIsAncestor
  <2> HIDE DEF o
  <2> QED BY <1>5, <2>1, <2>2, GrownItself
<1> DEFINE Unrelated == c1 \notin h[c2].parents /\ c2 \notin h[c1].parents
<1>8. ASSUME NEW c \in {c1, c2}, base.commit = c, c \notin Joins(h, info)
      PROVE  c \in Ancestors(h, c1) /\ c \in Ancestors(h, c2)
  <2>1. c # NoCommit /\ c \in Commits(h)
    BY <1>1
  <2>2. base.commit \in lcas \cup Joins(h2, info)
    BY <1>8, <2>1 DEF Basis
  <2>3. c \notin Joins(h2, info)
    BY <1>4, <1>8, <2>1, JoinsStay
  <2> QED BY <1>2, <1>8, <2>2, <2>3
<1>9. CASE Unrelated /\ base.commit = c1
  <2>1. o = Found(h2, c2)
    BY <1>9 DEF MergeCommit
  <2> HIDE DEF o, lcas
  <2>2. c1 \notin Joins(h, info) => c1 \in Ancestors(h, c2)
    BY <1>8, <1>9
  <2> QED BY <1>4, <1>5, <2>1, <2>2
<1>10. CASE Unrelated /\ base.commit # c1 /\ base.commit = c2
  <2>1. o = Found(h2, c1)
    BY <1>10 DEF MergeCommit
  <2> HIDE DEF o, lcas
  <2>2. c2 \notin Joins(h, info) => c2 \in Ancestors(h, c1)
    BY <1>8, <1>10
  <2> QED BY <1>4, <1>5, <2>1, <2>2
<1> DEFINE Meet == Unrelated /\ base.commit # c1 /\ base.commit # c2
<1>11. CASE Meet /\ tree = None
  <2>1. o = Found(h2, NoCommit)
    BY <1>11 DEF MergeCommit
  <2>2. o.history = h2 /\ o.commit = NoCommit /\ o \in Outcomes
    BY <1>4, <2>1 DEF Found, Outcomes, NoCommit
  <2> HIDE DEF o
  <2> QED BY <1>4, <2>2 DEF Merging
<1>12. CASE Meet /\ tree # None
  <2>1. o = Added(h2, join)
    BY <1>12 DEF MergeCommit
  <2>2. x \in Trees /\ y \in Trees
    BY <1>1 DEF Stored
  <2>3. /\ tree \in {x, y} /\ (tree = x \/ old = x \/ (x = Absent /\ old = None))
        /\ (tree = y \/ old = y \/ (y = Absent /\ old = None))
    BY <1>12, MergedSides
  <2>4. /\ old \in Trees => \E a \in lcas : old = h[a].tree
        /\ old = None => \A a \in Commits(h) : lcas # {a}
    <3>1. old \in Trees => \E a \in lcas : old = h[a].tree
      BY StoreHeadAssumption DEF Basis
    <3>2. base.commit # NoCommit => old # None
      <4>1. h2[base.commit] \in Stored \/ base.commit = NoCommit
        BY <1>4, WellFormedGraph DEF Basis
      <4> QED BY <4>1, StoreHeadAssumption DEF Stored
    <3> QED BY <3>1, <3>2
  <2>5. /\ c1 \in Commits(h2) /\ c2 \in Commits(h2)
        /\ h2[c1] = h[c1] /\ h2[c2] = h[c2]
    BY <1>4, ReachesStay
  <2>6. join \in Stored /\ join.parents = {c1, c2} /\ join.tree = tree /\ join.info = info
    <3> HIDE DEF tree, x, y
    <3> QED BY <1>1, <2>2, <2>3 DEF Stored
  <2> HIDE DEF o, join, tree, old, lcas
  <2>7. /\ WellFormed(o.history) /\ Extends(o.history, h2)
        /\ o.commit \in Commits(o.history) /\ o.history[o.commit] = join
        /\ \A i \in Commits(o.history) \ Commits(h2) : o.history[i] = join
    BY <1>4, <2>1, <2>5, <2>6, AddedKeeps
  <2>8. Cardinality(join.parents) > 1
    <3>1. Cardinality({c1, c2}) = 2
      BY <1>1, FewParents, Zenon
    <3> QED BY <2>6, <3>1
  <2>9. Grown(h2, info, o.history) /\ o.commit \in Joins(o.history, info)
    BY <2>6, <2>7, <2>8 DEF Grown, Joins
  <2>10. Grown(h, info, o.history)
    BY <1>4, <2>9, GrownTwice
  <2>11. o \in Outcomes
    <3>1. o = Found(o.history, o.commit)
      BY <2>1 DEF Added, Found
    <3>2. o.history \in Seq(Stored) /\ o.commit \in Nat
      BY <2>7, WellFormedGraph DEF WellFormed
    <3> QED BY <3>1, <3>2 DEF Found, Outcomes
  <2>12. ASSUME NEW side \in {c1, c2}
         PROVE  Reaches(o.history, o.commit, side) /\ Kept(h, c1, c2, tree, side)
    <3>1. Graph(o.history) /\ o.commit # NoCommit /\ side \in o.history[o.commit].parents
      BY <2>6, <2>7, WellFormedGraph
    <3>2. Reaches(o.history, o.commit, side)
      BY <2>7, <3>1, ParentIsAncestor DEF Reaches
    <3>3. Kept(h, c1, c2, tree, side)
      BY <2>2, <2>3, <2>4 DEF Kept, lcas
    <3> QED BY <3>2, <3>3
  <2> QED BY <2>3, <2>6, <2>7, <2>9, <2>10, <2>11, <2>12 DEF Merging
<1> HIDE DEF o
<1> QED BY <1>6, <1>7, <1>9, <1>10, <1>11, <1>12

\* A merge of two commits that are one.
LEMMA MergeOfOne ==
  ASSUME NEW h, WellFormed(h), NEW c \in Commits(h), NEW info
  PROVE  Merging(h, c, c, info, Found(h, c))
<1> DEFINE o == Found(h, c)
<1>1. Graph(h) /\ h \in Seq(Stored) /\ c \in Nat /\ c # NoCommit /\ c \in Ancestors(h, c)
  BY WellFormedGraph, AncestorsReach DEF WellFormed
<1>2. o.history = h /\ o.commit = c /\ o \in Outcomes
  BY <1>1 DEF Found, Outcomes
<1> HIDE DEF o
<1>3. Merging(h, c, c, info, o)
  BY <1>1, <1>2, GrownItself DEF Merging, Kept, Reaches
<1> QED BY <1>3 DEF o

\* A merge that is given up.
LEMMA MergeOfNone ==
  ASSUME NEW h, WellFormed(h), NEW c1, NEW c2, NEW info
  PROVE  Merging(h, c1, c2, info, Found(h, NoCommit))
<1> DEFINE o == Found(h, NoCommit)
<1>1. o.history = h /\ o.commit = NoCommit /\ o \in Outcomes
  BY DEF Found, Outcomes, WellFormed, NoCommit
<1> HIDE DEF o
<1>2. Merging(h, c1, c2, info, o)
  BY <1>1, GrownItself DEF Merging
<1> QED BY <1>2 DEF o

\* One level of three_way_merge, with the function that merges for bases.
MergeWith(g, a, info) ==
  MergeCommit(a.h, a.c1, a.c2,
              MergedBase(g, a.h, SetToSeq(Lcas(a.h, a.c1, a.c2))), info)

LEMMA MergeWithKeeps ==
  ASSUME NEW info \in Nat, NEW g, Merger(info, g), NEW a \in Merges, a.c1 # a.c2
  PROVE  Merging(a.h, a.c1, a.c2, info, MergeWith(g, a, info))
<1> DEFINE h == a.h
           c1 == a.c1
           c2 == a.c2
           cs == Lcas(h, c1, c2)
           lcas == SetToSeq(cs)
<1>1. WellFormed(h) /\ c1 \in Commits(h) /\ c2 \in Commits(h) /\ c1 # c2
  BY DEF Merges
<1> HIDE DEF h, c1, c2
<1>2. /\ Graph(h) /\ Len(h) \in Nat /\ Commits(h) = 1..Len(h)
      /\ Ancestors(h, c1) \subseteq Commits(h)
  BY <1>1, WellFormedGraph, AncestorsReach
<1>3. cs \subseteq Commits(h) /\ cs \subseteq 1..Len(h)
  BY <1>1, <1>2, LcasReached
<1> HIDE DEF cs
<1>4. /\ lcas \in Seq(cs) /\ \A i \in 1..Len(lcas) : lcas[i] \in cs
      /\ \A c : cs = {c} => Len(lcas) = 1
  <2>1. lcas \in Seq(cs) /\ ToSet(lcas) = cs
    BY <1>2, <1>3, InSomeOrder
  <2> HIDE DEF lcas
  <2>2. \A i \in 1..Len(lcas) : lcas[i] \in cs
    BY <2>1, LenProperties DEF ToSet
  <2>3. \A c : cs = {c} => Len(SetToSeq(cs)) = 1
    BY OneInOrder
  <2> QED BY <2>1, <2>2, <2>3 DEF lcas
<1> HIDE DEF lcas
<1>5. Basis(h, cs, info, MergedBase(g, h, lcas))
  BY <1>1, <1>3, <1>4, MergedBaseKeeps
<1> DEFINE base == MergedBase(g, h, lcas)
<1>6. ASSUME NEW c \in Commits(h), cs = {c}
      PROVE  base.commit # NoCommit
  <2>1. Len(lcas) = 1 /\ lcas[1] = c
    <3>1. Len(lcas) = 1
      BY <1>4, <1>6
    <3>2. 1 \in 1..Len(lcas)
      BY <3>1
    <3>3. lcas[1] \in cs
      BY <1>4, <3>2
    <3> QED BY <1>6, <3>1, <3>3
  <2>2. base = Found(h, lcas[1])
    BY <2>1, BaseOfOne
  <2> HIDE DEF base
  <2> QED BY <1>1, <2>1, <2>2, WellFormedGraph DEF Found
<1> HIDE DEF base
<1>7. Merging(h, c1, c2, info, MergeCommit(h, c1, c2, base, info))
  BY <1>1, <1>5, <1>6, MergeCommitKeeps DEF cs, base
<1> QED BY <1>7 DEF MergeWith, h, c1, c2, cs, lcas, base

\* What three_way_merge promises.
LEMMA ThreeWayMergeKeeps ==
  ASSUME NEW h, WellFormed(h), NEW c1 \in Commits(h), NEW c2 \in Commits(h),
         NEW info \in Nat
  PROVE  Merging(h, c1, c2, info, ThreeWayMerge(h, c1, c2, info))
<1> DEFINE n == 2 * Len(h)
           S == {g \in [Merges -> Outcomes] : Merger(info, g)}
           Level(g) == [a \in Merges |-> IF a.c1 = a.c2 THEN Found(a.h, a.c1)
                                         ELSE MergeWith(g, a, info)]
           b == [a \in Merges |-> IF a.c1 = a.c2 THEN Found(a.h, a.c1)
                                  ELSE Found(a.h, NoCommit)]
           step == [d \in 1..n |-> [g \in S |-> Level(g)]]
           Body(m) ==
             [d \in 0..n |->
               [a \in Merges |->
                 IF a.c1 = a.c2 THEN Found(a.h, a.c1)
                 ELSE IF d = 0 THEN Found(a.h, NoCommit)
                 ELSE MergeCommit(a.h, a.c1, a.c2,
                        MergedBase(m[d - 1], a.h, SetToSeq(Lcas(a.h, a.c1, a.c2))),
                        info)]]
           Levels == CHOOSE m : m = Body(m)
           top == [h |-> h, c1 |-> c1, c2 |-> c2]
<1>0. n \in Nat
  BY WellFormedGraph
<1>1. \A a \in Merges : /\ WellFormed(a.h) /\ a.c1 \in Commits(a.h) /\ a.c2 \in Commits(a.h)
  BY DEF Merges
<1>2. ASSUME NEW a \in Merges, a.c1 = a.c2
      PROVE  Merging(a.h, a.c1, a.c2, info, Found(a.h, a.c1))
  BY <1>1, <1>2, MergeOfOne
<1>3. ASSUME NEW a \in Merges
      PROVE  Merging(a.h, a.c1, a.c2, info, Found(a.h, NoCommit))
  BY <1>1, MergeOfNone
<1>4. b \in S
  <2> DEFINE R(a) == IF a.c1 = a.c2 THEN Found(a.h, a.c1) ELSE Found(a.h, NoCommit)
  <2>1. ASSUME NEW a \in Merges
        PROVE  Merging(a.h, a.c1, a.c2, info, R(a)) /\ R(a) \in Outcomes
    <3>1. Merging(a.h, a.c1, a.c2, info, R(a))
      BY <1>2, <1>3
    <3> HIDE DEF R
    <3> QED BY <3>1 DEF Merging
  <2> HIDE DEF R
  <2>2. [a \in Merges |-> R(a)] \in S
    BY <2>1 DEF Merger
  <2> QED BY <2>2 DEF R
<1>5. ASSUME NEW g \in S
      PROVE  Level(g) \in S
  <2> DEFINE R(a) == IF a.c1 = a.c2 THEN Found(a.h, a.c1) ELSE MergeWith(g, a, info)
  <2>1. ASSUME NEW a \in Merges
        PROVE  Merging(a.h, a.c1, a.c2, info, R(a)) /\ R(a) \in Outcomes
    <3>1. Merging(a.h, a.c1, a.c2, info, R(a))
      BY <1>2, MergeWithKeeps
    <3> HIDE DEF R
    <3> QED BY <3>1 DEF Merging
  <2> HIDE DEF R
  <2>2. [a \in Merges |-> R(a)] \in S
    BY <2>1 DEF Merger
  <2> QED BY <2>2 DEF R
<1>6. step \in [1..n -> [S -> S]]
  <2> HIDE DEF S, Level
  <2> QED BY <1>5
<1>7. PICK f \in [0..n -> S] : Counts(n, b, step, f)
  <2> HIDE DEF S, b, step, n
  <2> QED BY <1>0, <1>4, <1>6, CountExists
<1>8. \A d \in 1..n : d - 1 \in 0..n /\ f[d - 1] \in S /\ step[d][f[d - 1]] = Level(f[d - 1])
  <2> SUFFICES ASSUME NEW d \in 1..n
               PROVE  d - 1 \in 0..n /\ f[d - 1] \in S
                      /\ step[d][f[d - 1]] = Level(f[d - 1])
    OBVIOUS
  <2>1. d - 1 \in 0..n
    BY <1>0
  <2> HIDE DEF S, Level
  <2> QED BY <2>1
\* The levels of the definition.
<1> DEFINE Arm(m, d) == [a \in Merges |->
                          IF a.c1 = a.c2 THEN Found(a.h, a.c1)
                          ELSE IF d = 0 THEN Found(a.h, NoCommit)
                          ELSE MergeCommit(a.h, a.c1, a.c2,
                                 MergedBase(m[d - 1], a.h, SetToSeq(Lcas(a.h, a.c1, a.c2))),
                                 info)]
<1>9. \A m : Arm(m, 0) = b
  OBVIOUS
<1>10. \A m, d : d # 0 => Arm(m, d) = Level(m[d - 1])
  BY DEF MergeWith
<1>11. f = Body(f)
  <2>1. f = [d \in 0..n |-> IF d = 0 THEN b ELSE step[d][f[d - 1]]]
    BY <1>7 DEF Counts
  <2>2. \A d \in 0..n : d # 0 => d \in 1..n
    BY <1>0
  <2>3. \A d \in 0..n : (IF d = 0 THEN b ELSE step[d][f[d - 1]]) = Arm(f, d)
    <3> HIDE DEF S, step, Arm, Level, b
    <3> QED BY <1>8, <1>9, <1>10, <2>2
  <2> HIDE DEF Arm, step, b
  <2>4. f = [d \in 0..n |-> Arm(f, d)]
    BY <2>1, <2>3
  <2> QED BY <2>4 DEF Arm
<1>12. Levels = Body(Levels)
  <2> HIDE DEF Body
  <2> QED BY <1>11
<1>13. ThreeWayMerge(h, c1, c2, info) = Levels[n][top]
  BY DEF ThreeWayMerge
<1> HIDE DEF Levels
<1>14. \A d \in 0..n : Levels[d] = Arm(Levels, d)
  BY <1>12
<1> HIDE DEF Body, Arm, Level, b, step
<1>15. \A d \in 0..n : Levels[d] \in S
  <2> DEFINE T == {d \in 0..n : Levels[d] \notin S}
  <2> SUFFICES ASSUME T # {} PROVE FALSE
    OBVIOUS
  <2>1. T \subseteq Nat
    BY <1>0
  <2>2. PICK k \in T : \A j \in T : k <= j
    <3> HIDE DEF T
    <3> QED BY <2>1, Least
  <2>3. k \in 0..n /\ Levels[k] \notin S
    OBVIOUS
  <2> HIDE DEF S
  <2>4. k # 0
    BY <1>4, <1>9, <1>14, <2>3
  <2>5. k - 1 \in 0..n /\ k - 1 < k
    BY <1>0, <2>3, <2>4
  <2>6. Levels[k - 1] \in S
    BY <2>2, <2>5
  <2>7. Levels[k] = Level(Levels[k - 1])
    BY <1>10, <1>14, <2>3, <2>4
  <2> QED BY <1>5, <2>3, <2>6, <2>7
<1>16. Merger(info, Levels[n])
  BY <1>0, <1>15
<1>17. top \in Merges /\ top.h = h /\ top.c1 = c1 /\ top.c2 = c2
  BY MergesAre
<1> HIDE DEF top
<1>18. Merging(h, c1, c2, info, Levels[n][top])
  BY <1>16, <1>17 DEF Merger
<1> QED BY <1>13, <1>18
-----------------------------------------------------------------------------
(* Retries. *)

\* The head that the call of f is about.
Ref(f) == call[f].request.ref

\* The types that the invariant needs.
Types ==
  /\ pc \in [Fibers -> {"idle", "locking", "reading", "swapping"}]
  /\ tries \in [Fibers -> Nat] /\ rivals \in [Fibers -> Nat]
  /\ DOMAIN result = Fibers /\ DOMAIN call = Fibers
  /\ DOMAIN snap = Fibers /\ DOMAIN head = Refs
  /\ \A f \in Fibers : pc[f] # "idle" => Ref(f) \in Refs

\* A fiber lags when the head it read is not the head any more.
Lags(f) == pc[f] = "swapping" /\ head[Ref(f)] # snap[f]

\* Others made a change for each swap that was lost, and for the one that will be.
Paid ==
  \A f \in Fibers : pc[f] # "idle" =>
    /\ rivals[f] >= tries[f]
    /\ Lags(f) => rivals[f] > tries[f]

Inv == Types /\ Paid /\ RetriesHonest

\* Every call is about a head.
LEMMA CallRef ==
  ASSUME NEW r \in Calls
  PROVE  r.ref \in Refs
BY DEF Calls

LEMMA InvInit ==
  ASSUME Init
  PROVE  Inv
<1>1. PICK past \in Pasts : head = past.head
  BY DEF Init
<1>2. DOMAIN head = Refs
  BY <1>1, StoreHeadAssumption
<1>3. Types
  BY <1>2 DEF Init, Types
<1>4. \A f \in Fibers : pc[f] = "idle" /\ result[f] = None
  BY DEF Init
<1>5. RetriesHonest
  BY <1>4, StoreHeadAssumption DEF Init, RetriesHonest, Results
<1> QED BY <1>3, <1>4, <1>5 DEF Inv, Paid

\* A step of f that changes no head and adds no rival, and where f does not lag
\* after it.
LEMMA AloneKeeps ==
  ASSUME Inv, NEW f \in Fibers, UNCHANGED <<head, rivals, tries>>,
         NEW l \in {"idle", "locking", "reading", "swapping"}, To(f, l),
         l = "idle" \/ (pc[f] # "idle" /\ call' = call),
         DOMAIN call' = Fibers, DOMAIN result' = Fibers, DOMAIN snap' = Fibers,
         l = "swapping" => snap'[f] = head[Ref(f)],
         \A g \in Fibers \ {f} : call'[g] = call[g] /\ snap'[g] = snap[g]
                                 /\ result'[g] = result[g],
         result'[f] = "too_many_retries" => result'[f] = result[f]
  PROVE  Inv'
<1>1. \A g \in Fibers \ {f} : pc'[g] = pc[g] /\ Ref(g)' = Ref(g)
  BY DEF To, Ref, Inv, Types
<1>2. pc'[f] = l /\ (l # "idle" => Ref(f)' = Ref(f) /\ pc[f] # "idle")
  BY DEF To, Ref, Inv, Types
<1>3. Types'
  BY <1>1, <1>2 DEF To, Inv, Types
<1>4. Paid'
  BY <1>1, <1>2 DEF Inv, Types, Paid, Lags
<1>5. RetriesHonest'
  BY DEF Inv, RetriesHonest
<1> QED BY <1>3, <1>4, <1>5 DEF Inv

\* A call that ends with an answer of its own.
LEMMA EndKeeps ==
  ASSUME Inv, NEW f \in Fibers, NEW a, Ends(f, a), a # "too_many_retries",
         UNCHANGED <<head, rivals, tries>>
  PROVE  Inv'
BY AloneKeeps DEF Ends, Inv, Types

\* The commit that f puts in the place of the head it read.
LEMMA PreparedKeeps ==
  ASSUME Inv, NEW f \in Fibers, pc[f] # "idle", NEW made,
         Prepared(f, head[Ref(f)], made), UNCHANGED <<head, rivals, tries>>
  PROVE  Inv'
BY AloneKeeps DEF Prepared, Inv, Types

\* f changes a head and its call ends: a fiber that lags after it has a rival more.
LEMMA PlacedKeeps ==
  ASSUME Inv, NEW f \in Fibers, pc[f] # "idle", NEW c, Placed(f, Ref(f), c),
         Ends(f, "ok"), UNCHANGED tries
  PROVE  Inv'
<1>1. /\ pc' = [pc EXCEPT ![f] = "idle"]
      /\ \A g \in Fibers \ {f} : /\ pc'[g] = pc[g] /\ call'[g] = call[g]
                                 /\ snap'[g] = snap[g] /\ result'[g] = result[g]
      /\ result'[f] = "ok" /\ DOMAIN call' = Fibers
      /\ DOMAIN result' = Fibers /\ DOMAIN snap' = Fibers
  BY DEF Ends, To, Inv, Types
<1>2. /\ head' = [head EXCEPT ![Ref(f)] = c]
      /\ rivals' = [g \in Fibers |->
           IF g # f /\ pc[g] # "idle" /\ call[g].request.ref = Ref(f) /\ head[Ref(f)] # c
           THEN rivals[g] + 1 ELSE rivals[g]]
  BY DEF Placed
<1>3. Types'
  BY <1>1, <1>2 DEF Inv, Types, Ref
<1>4. \A g \in Fibers : rivals'[g] \in Nat /\ rivals'[g] >= rivals[g]
  BY <1>2 DEF Inv, Types
<1>5. Paid'
  <2> SUFFICES ASSUME NEW g \in Fibers, pc'[g] # "idle"
               PROVE  rivals'[g] >= tries'[g] /\ (Lags(g)' => rivals'[g] > tries'[g])
    BY DEF Paid
  <2>1. g # f /\ pc[g] # "idle" /\ pc'[g] = pc[g] /\ snap'[g] = snap[g]
        /\ Ref(g)' = Ref(g) /\ Ref(g) \in Refs
    BY <1>1 DEF Ref, Inv, Types
  <2>2. rivals[g] >= tries[g] /\ (Lags(g) => rivals[g] > tries[g])
    BY <2>1 DEF Inv, Paid
  <2>3. CASE Lags(g)' /\ ~Lags(g)
    <3>1. head'[Ref(g)] # head[Ref(g)]
      BY <2>1, <2>3 DEF Lags
    <3>2. Ref(g) = Ref(f) /\ head[Ref(f)] # c
      BY <2>1, <3>1, <1>2 DEF Inv, Types
    <3>3. rivals'[g] = rivals[g] + 1
      BY <1>2, <2>1, <3>2 DEF Ref
    <3> QED BY <2>2, <3>3 DEF Inv, Types
  <2>4. CASE ~(Lags(g)' /\ ~Lags(g))
    BY <1>4, <2>2, <2>4 DEF Inv, Types
  <2> QED BY <2>3, <2>4
<1>6. RetriesHonest'
  BY <1>1, <1>4, StoreHeadAssumption DEF Inv, Types, RetriesHonest
<1> QED BY <1>3, <1>5, <1>6 DEF Inv
-----------------------------------------------------------------------------
LEMMA CallKeeps ==
  ASSUME Inv, NEW f \in Fibers, Call(f)
  PROVE  Inv'
<1>1. PICK r \in Requests :
        /\ call' = [call EXCEPT ![f] =
             [request |-> r,
              found |-> IF "from" \in DOMAIN r THEN head[r.from] ELSE NoCommit]]
        /\ To(f, IF r.op = "merge" THEN "locking" ELSE "reading")
  BY DEF Call
<1>2. r.ref \in Refs
  BY StoreHeadAssumption, CallRef
<1>3. /\ Ref(f)' = r.ref /\ pc'[f] \in {"locking", "reading"}
      /\ tries'[f] = 0 /\ rivals'[f] = 0 /\ result'[f] = None
      /\ \A g \in Fibers \ {f} :
           /\ pc'[g] = pc[g] /\ Ref(g)' = Ref(g) /\ tries'[g] = tries[g]
           /\ rivals'[g] = rivals[g] /\ result'[g] = result[g]
      /\ head' = head /\ snap' = snap
  BY <1>1 DEF Call, To, Ref, Inv, Types
<1>4. Types'
  BY <1>1, <1>2, <1>3 DEF Call, To, Inv, Types
<1>5. Paid'
  BY <1>3 DEF Inv, Paid, Lags, Types
<1>6. RetriesHonest'
  BY <1>3, StoreHeadAssumption DEF Inv, RetriesHonest, Results
<1> QED BY <1>4, <1>5, <1>6 DEF Inv

LEMMA UpdateKeeps ==
  ASSUME Inv, NEW f \in Fibers, Update(f)
  PROVE  Inv'
<1> DEFINE r == call[f].request
           current == IF head[r.ref] = NoCommit THEN Absent ELSE history[head[r.ref]].tree
           wanted == Wanted(r, current)
<1>1. pc[f] # "idle" /\ UNCHANGED <<head, rivals, tries>>
  BY DEF Update
<1>2. CASE Ends(f, "unchanged")
  BY <1>1, <1>2, EndKeeps
<1>3. CASE "error" \in DOMAIN wanted /\ Ends(f, wanted.error)
  <2>1. wanted.error # "too_many_retries"
    BY <1>3 DEF Update, Wanted
  <2> HIDE DEF wanted
  <2> QED BY <1>1, <1>3, <2>1, EndKeeps
<1>4. ASSUME NEW made, Prepared(f, head[r.ref], made)
      PROVE  Inv'
  BY <1>1, <1>4, PreparedKeeps DEF Ref
<1> QED BY <1>2, <1>3, <1>4 DEF Update

LEMMA LostKeeps ==
  ASSUME Inv, NEW f \in Fibers, Lost(f)
  PROVE  Inv'
<1>1. /\ pc[f] = "swapping" /\ Lags(f) /\ rivals[f] > tries[f]
      /\ UNCHANGED <<head, rivals>>
      /\ tries'[f] \in {tries[f], tries[f] + 1}
      /\ \A g \in Fibers \ {f} : tries'[g] = tries[g]
      /\ tries' \in [Fibers -> Nat]
  BY DEF Lost, Lags, Ref, Inv, Paid, Types
<1>2. /\ DOMAIN call' = Fibers /\ DOMAIN result' = Fibers /\ DOMAIN snap' = Fibers
      /\ pc'[f] \in {"idle", "reading"} /\ (pc'[f] # "idle" => call' = call)
      /\ pc' \in [Fibers -> {"idle", "locking", "reading", "swapping"}]
      /\ \A g \in Fibers \ {f} : /\ pc'[g] = pc[g] /\ call'[g] = call[g]
                                 /\ snap'[g] = snap[g] /\ result'[g] = result[g]
  BY DEF Lost, Ends, To, Inv, Types
<1>3. Types'
  BY <1>1, <1>2 DEF Inv, Types, Ref
<1>4. Paid'
  BY <1>1, <1>2 DEF Inv, Types, Paid, Lags, Ref
<1>5. result'[f] = "too_many_retries" => rivals[f] > Retries
  BY <1>1, StoreHeadAssumption DEF Lost, Ends, Inv, Types, RetriesHonest
<1>6. RetriesHonest'
  BY <1>1, <1>2, <1>5 DEF Inv, RetriesHonest
<1> QED BY <1>3, <1>4, <1>6 DEF Inv

LEMMA InvNext ==
  ASSUME Inv, [Next]_vars
  PROVE  Inv'
<1>1. CASE UNCHANGED vars
  BY <1>1 DEF vars, Inv, Types, Paid, Lags, Ref, RetriesHonest
<1>2. ASSUME NEW f \in Fibers, Call(f)
      PROVE  Inv'
  BY <1>2, CallKeeps
<1>3. ASSUME NEW f \in Fibers, Lock(f)
      PROVE  Inv'
  BY <1>3, AloneKeeps DEF Lock, Inv, Types
<1>4. ASSUME NEW f \in Fibers, Update(f)
      PROVE  Inv'
  BY <1>4, UpdateKeeps
<1>5. ASSUME NEW f \in Fibers, Merge(f)
      PROVE  Inv'
  <2>1. pc[f] # "idle" /\ UNCHANGED <<head, rivals, tries>>
    BY <1>5 DEF Merge
  <2>2. ASSUME NEW a \in {"no_source", "conflict"}, Ends(f, a)
        PROVE  Inv'
    BY <2>1, <2>2, EndKeeps
  <2>3. ASSUME NEW made, Prepared(f, head[Ref(f)], made)
        PROVE  Inv'
    BY <2>1, <2>3, PreparedKeeps
  <2> QED BY <1>5, <2>2, <2>3 DEF Merge, Ref
<1>6. ASSUME NEW f \in Fibers, FastForward(f)
      PROVE  Inv'
  <2>1. pc[f] # "idle" /\ UNCHANGED <<head, rivals, tries>>
    BY <1>6 DEF FastForward
  <2>2. ASSUME NEW a \in {"no_source", "no_change", "rejected"}, Ends(f, a)
        PROVE  Inv'
    BY <2>1, <2>2, EndKeeps
  <2>3. ASSUME NEW made, Prepared(f, head[Ref(f)], made)
        PROVE  Inv'
    BY <2>1, <2>3, PreparedKeeps
  <2> QED BY <1>6, <2>2, <2>3 DEF FastForward, Ref
<1>7. ASSUME NEW f \in Fibers, Overwrite(f) \/ Swap(f)
      PROVE  Inv'
  BY <1>7, PlacedKeeps DEF Overwrite, Swap, Ref
<1>8. ASSUME NEW f \in Fibers, Lost(f)
      PROVE  Inv'
  BY <1>8, LostKeeps
<1> QED BY <1>1, <1>2, <1>3, <1>4, <1>5, <1>6, <1>7, <1>8 DEF Next, Step

\* An update answers too_many_retries only if others changed the head more than
\* Retries times while it ran, for any number of fibers, calls and retries
\* (store.ml retry).
THEOREM GivesUpHonestly == Spec => []RetriesHonest
<1>1. Inv => RetriesHonest
  BY DEF Inv
<1> QED BY InvInit, InvNext, <1>1, PTL DEF Spec
-----------------------------------------------------------------------------
(* The types, and what the other invariants need to know of the calls. *)

Places == {"idle", "locking", "reading", "swapping"}
Updates == {"set", "test_and_set", "merge_tree"}
HeldBy(f, s) == call[f] # None /\ call[f].request.op = "merge" /\ call[f].request.store = s

ITypes ==
  /\ WellFormed(history)
  /\ head \in [Refs -> Commits(history) \cup {NoCommit}]
  /\ lock \in [Stores -> Fibers \cup {None}]
  /\ pc \in [Fibers -> Places]
  /\ call \in [Fibers -> [request : Requests, found : Nat] \cup {None}]
  /\ snap \in [Fibers -> Commits(history) \cup {NoCommit}]
  /\ new \in [Fibers -> Commits(history) \cup {NoCommit}]
  /\ tries \in [Fibers -> 0..(Retries + 1)]
  /\ result \in [Fibers -> Results \cup {None}]

\* A fiber that is idle makes no call, another has tries left, and what it found is a
\* commit; a lock is held by a merge that runs.
ICalls ==
  /\ \A f \in Fibers :
       /\ call[f] = None <=> pc[f] = "idle"
       /\ pc[f] # "idle" => tries[f] <= Retries
       /\ pc[f] = "locking" => call[f].request.op = "merge"
       /\ call[f] # None => call[f].found \in Commits(history) \cup {NoCommit}
  /\ \A s \in Stores : lock[s] # None => HeldBy(lock[s], s)

IType == ITypes /\ ICalls

LEMMA CallFields ==
  ASSUME NEW r \in Requests
  PROVE  /\ r \in Calls /\ r.ref \in Refs /\ r.store \in Stores /\ r.info \in Nat
         /\ r.op \in Updates \cup {"merge", "fast_forward", "force"}
         /\ r.op \in Updates => r.tree \in Trees
         /\ "from" \in DOMAIN r => r.from \in Refs
<1>1. r \in Calls
  BY StoreHeadAssumption
<1>2. CASE r \in [op : {"set"}, store : Stores, ref : Refs, tree : Trees,
                  empty : BOOLEAN, info : Nat]
  BY <1>1, <1>2 DEF Updates
<1>3. CASE r \in [op : {"test_and_set", "merge_tree"}, store : Stores, ref : Refs,
                  test : Trees, tree : Trees, empty : BOOLEAN, info : Nat]
  BY <1>1, <1>3 DEF Updates
<1>4. CASE r \in [op : {"merge", "fast_forward", "force"}, store : Stores, ref : Refs,
                  from : Refs, info : Nat]
  BY <1>1, <1>4 DEF Updates
<1> QED BY <1>1, <1>2, <1>3, <1>4 DEF Calls

\* A call that runs has its fields.
LEMMA CallRuns ==
  ASSUME ITypes, NEW f \in Fibers, call[f] # None
  PROVE  /\ call[f] \in [request : Requests, found : Nat]
         /\ call[f].request \in Requests /\ Ref(f) \in Refs
         /\ call[f].request.store \in Stores
BY CallFields DEF ITypes, Ref

LEMMA ITypeInit ==
  ASSUME Init
  PROVE  IType
<1>1. PICK past \in Pasts : history = past.history /\ head = past.head
  BY DEF Init
<1>2. WellFormed(history) /\ head \in [Refs -> Commits(history) \cup {NoCommit}]
  BY <1>1, StoreHeadAssumption
<1> QED BY <1>2, StoreHeadAssumption DEF Init, IType, ITypes, ICalls, Places

\* A history that grows keeps the commits that it has.
LEMMA CommitsStay ==
  ASSUME ITypes, WellFormed(history'), Extends(history', history)
  PROVE  Commits(history) \subseteq Commits(history')
BY ExtendsItself, ExtendsTwice DEF ITypes

\* A call of f that ends.
LEMMA EndsTypes ==
  ASSUME IType, NEW f \in Fibers, NEW a \in Results, Ends(f, a), UNCHANGED tries,
         WellFormed(history'), Extends(history', history),
         head' \in [Refs -> Commits(history') \cup {NoCommit}]
  PROVE  IType'
<1>1. Commits(history) \subseteq Commits(history')
  BY CommitsStay DEF IType
<1>2. ITypes'
  BY <1>1 DEF IType, ITypes, Ends, To, Places
<1>3. /\ pc'[f] = "idle" /\ call'[f] = None
      /\ \A g \in Fibers \ {f} : pc'[g] = pc[g] /\ call'[g] = call[g]
      /\ \A s \in Stores : lock'[s] = IF lock[s] = f THEN None ELSE lock[s]
  BY DEF IType, ITypes, Ends, To
<1>4. \A g \in Fibers :
       /\ call'[g] = None <=> pc'[g] = "idle"
       /\ pc'[g] # "idle" => tries'[g] <= Retries
       /\ pc'[g] = "locking" => call'[g].request.op = "merge"
       /\ call'[g] # None => call'[g].found \in Commits(history') \cup {NoCommit}
  BY <1>1, <1>3 DEF IType, ICalls
<1>5. ASSUME NEW s \in Stores, lock'[s] # None
      PROVE  HeldBy(lock[s], s)' /\ lock'[s] = lock[s]
  <2>1. lock'[s] = lock[s] /\ lock[s] # f /\ lock[s] # None
    BY <1>3, <1>5
  <2>2. lock[s] \in Fibers
    BY <2>1 DEF IType, ITypes
  <2> QED BY <1>3, <2>1, <2>2 DEF IType, ICalls, HeldBy
<1> QED BY <1>2, <1>4, <1>5 DEF IType, ICalls, HeldBy

\* A call of f that puts a commit in the place of a head.
LEMMA PreparedTypes ==
  ASSUME IType, NEW f \in Fibers, pc[f] # "idle", UNCHANGED <<head, tries>>,
         NEW h \in Commits(history) \cup {NoCommit}, NEW made, Prepared(f, h, made),
         WellFormed(made.history), Extends(made.history, history),
         made.commit \in Commits(made.history)
  PROVE  IType'
<1>1. history' = made.history /\ Commits(history) \subseteq Commits(history')
  BY CommitsStay DEF IType, Prepared
<1>2. ITypes'
  BY <1>1 DEF IType, ITypes, Prepared, To, Places
<1>3. /\ call' = call /\ lock' = lock /\ pc'[f] = "swapping"
      /\ \A g \in Fibers \ {f} : pc'[g] = pc[g]
  BY DEF IType, ITypes, Prepared, To
<1>4. ICalls'
  BY <1>1, <1>3 DEF IType, ICalls, HeldBy
<1> QED BY <1>2, <1>4 DEF IType

LEMMA CallTypes ==
  ASSUME IType, NEW f \in Fibers, Call(f)
  PROVE  IType'
<1>1. PICK r \in Requests :
        /\ call' = [call EXCEPT ![f] =
             [request |-> r,
              found |-> IF "from" \in DOMAIN r THEN head[r.from] ELSE NoCommit]]
        /\ To(f, IF r.op = "merge" THEN "locking" ELSE "reading")
  BY DEF Call
<1> DEFINE found == IF "from" \in DOMAIN r THEN head[r.from] ELSE NoCommit
           c == [request |-> r, found |-> found]
<1>2. found \in Commits(history) \cup {NoCommit} /\ found \in Nat
  <2>1. found \in Commits(history) \cup {NoCommit}
    BY CallFields DEF IType, ITypes
  <2> HIDE DEF found
  <2> QED BY <2>1, WellFormedGraph DEF IType, ITypes, NoCommit
<1> HIDE DEF found
<1>3. /\ c \in [request : Requests, found : Nat] /\ c.found = found /\ c.request = r
      /\ c # None /\ call' = [call EXCEPT ![f] = c]
  <2>1. c \in [request : Calls, found : Nat]
    BY <1>2, CallFields
  <2> QED BY <1>1, <1>2, <2>1, StoreHeadAssumption DEF found
<1> HIDE DEF c
<1>4. /\ pc[f] = "idle" /\ call'[f] = c /\ pc'[f] \in Places \ {"idle"} /\ tries'[f] = 0
      /\ pc'[f] = "locking" => r.op = "merge"
      /\ \A g \in Fibers \ {f} : pc'[g] = pc[g] /\ call'[g] = call[g] /\ tries'[g] = tries[g]
      /\ UNCHANGED <<history, head, lock, snap, new>>
  BY <1>1, <1>3 DEF Call, To, IType, ITypes, Places
<1>5. ITypes'
  BY <1>1, <1>3, <1>4, StoreHeadAssumption DEF Call, To, IType, ITypes, Places
<1>6. \A g \in Fibers :
       /\ call'[g] = None <=> pc'[g] = "idle"
       /\ pc'[g] # "idle" => tries'[g] <= Retries
       /\ pc'[g] = "locking" => call'[g].request.op = "merge"
       /\ call'[g] # None => call'[g].found \in Commits(history) \cup {NoCommit}
  BY <1>2, <1>3, <1>4, StoreHeadAssumption DEF IType, ICalls
<1>7. ASSUME NEW s \in Stores, lock[s] # None
      PROVE  HeldBy(lock[s], s)'
  <2>1. lock[s] \in Fibers /\ HeldBy(lock[s], s)
    BY <1>7 DEF IType, ITypes, ICalls
  <2>2. lock[s] # f
    BY <1>4, <2>1 DEF IType, ICalls, HeldBy
  <2> QED BY <1>4, <2>1, <2>2 DEF HeldBy
<1> QED BY <1>4, <1>5, <1>6, <1>7 DEF IType, ICalls, HeldBy

LEMMA LockTypes ==
  ASSUME IType, NEW f \in Fibers, Lock(f)
  PROVE  IType'
<1> DEFINE s == call[f].request.store
<1>1. call[f] # None /\ s \in Stores /\ call[f].request.op = "merge"
  BY CallRuns DEF IType, ICalls, Lock
<1>2. ITypes'
  BY <1>1 DEF Lock, To, IType, ITypes, Places
<1>3. /\ pc[f] # "idle" /\ pc'[f] = "reading" /\ \A g \in Fibers \ {f} : pc'[g] = pc[g]
      /\ lock'[s] = f /\ \A t \in Stores \ {s} : lock'[t] = lock[t]
      /\ UNCHANGED <<history, call, tries>>
  BY <1>1 DEF Lock, To, IType, ITypes
<1>4. ICalls'
  BY <1>1, <1>3 DEF IType, ICalls, HeldBy
<1> QED BY <1>2, <1>4 DEF IType

\* The tree that a function gives, and that the one it tested is the one there is.
LEMMA WantedIs ==
  ASSUME NEW r \in Requests, r.op \in Updates, NEW current \in Trees,
         "error" \notin DOMAIN Wanted(r, current)
  PROVE  /\ Wanted(r, current).tree \in Trees
         /\ r.op = "test_and_set" => r.test = current /\ Wanted(r, current).tree = r.tree
<1>0. r.tree \in Trees
  BY CallFields
<1>1. CASE r.op = "set"
  <2>1. Wanted(r, current) = [tree |-> r.tree]
    BY <1>1 DEF Wanted
  <2> QED BY <1>0, <1>1, <2>1
<1>2. CASE r.op = "test_and_set"
  <2>1. Wanted(r, current) = IF r.test = current THEN [tree |-> r.tree]
                             ELSE [error |-> "test_was"]
    BY <1>2 DEF Wanted
  <2>2. CASE r.test = current
    <3>1. Wanted(r, current) = [tree |-> r.tree]
      BY <2>1, <2>2
    <3> QED BY <1>0, <2>2, <3>1
  <2>3. CASE r.test # current
    <3>1. Wanted(r, current) = [error |-> "test_was"]
      BY <2>1, <2>3
    <3> QED BY <3>1
  <2> QED BY <2>2, <2>3
<1>3. CASE r.op = "merge_tree"
  <2> DEFINE m == Merged(r.test, current, r.tree)
  <2>1. Wanted(r, current) = IF m = None THEN [error |-> "conflict"] ELSE [tree |-> m]
    BY <1>3 DEF Wanted
  <2>2. m # None => m \in {current, r.tree}
    BY MergedSides
  <2> HIDE DEF m
  <2>3. CASE m = None
    <3>1. Wanted(r, current) = [error |-> "conflict"]
      BY <2>1, <2>3
    <3> QED BY <3>1
  <2>4. CASE m # None
    <3>1. Wanted(r, current) = [tree |-> m]
      BY <2>1, <2>4
    <3> QED BY <1>0, <1>3, <2>2, <2>4, <3>1
  <2> QED BY <2>3, <2>4
<1> QED BY <1>1, <1>2, <1>3 DEF Updates

\* The errors that a function answers.
LEMMA WantedErrors ==
  ASSUME NEW r \in Requests, r.op \in Updates, NEW current,
         "error" \in DOMAIN Wanted(r, current)
  PROVE  Wanted(r, current).error \in {"test_was", "conflict"}
<1>1. CASE r.op = "set"
  <2>1. Wanted(r, current) = [tree |-> r.tree]
    BY <1>1 DEF Wanted
  <2> QED BY <2>1
<1>2. CASE r.op = "test_and_set"
  <2>1. Wanted(r, current) = IF r.test = current THEN [tree |-> r.tree]
                             ELSE [error |-> "test_was"]
    BY <1>2 DEF Wanted
  <2> QED BY <2>1
<1>3. CASE r.op = "merge_tree"
  <2>1. \E m : Wanted(r, current) = IF m = None THEN [error |-> "conflict"]
                                    ELSE [tree |-> m]
    BY <1>3 DEF Wanted
  <2> QED BY <2>1
<1> QED BY <1>1, <1>2, <1>3 DEF Updates

\* The commit that an update makes: it has the tree that is wanted, and the head that
\* was read for its only parent.
UpdateMade(f) ==
  LET r == call[f].request
      h == head[r.ref]
  IN Added(history, [parents |-> IF h = NoCommit THEN {} ELSE {h},
                     tree |-> Wanted(r, TreeOf(history, h)).tree, info |-> r.info])

LEMMA UpdateMakes ==
  ASSUME IType, NEW f \in Fibers, pc[f] # "idle", call[f].request.op \in Updates,
         "error" \notin DOMAIN Wanted(call[f].request, TreeOf(history, head[Ref(f)]))
  PROVE  LET h == head[Ref(f)]
             o == UpdateMade(f)
         IN /\ WellFormed(o.history) /\ Extends(o.history, history)
            /\ o.commit \in Commits(o.history)
            /\ o.history[o.commit].parents = IF h = NoCommit THEN {} ELSE {h}
            /\ Cardinality(o.history[o.commit].parents) \in {0, 1}
            /\ \A i \in Commits(o.history) \ Commits(history) :
                 Cardinality(o.history[i].parents) \in {0, 1}
            /\ call[f].request.op = "test_and_set" =>
                 /\ TreeOf(history, h) = call[f].request.test
                 /\ o.history[o.commit].tree = call[f].request.tree
<1> DEFINE r == call[f].request
           h == head[Ref(f)]
           current == TreeOf(history, h)
           tree == Wanted(r, current).tree
           ps == IF h = NoCommit THEN {} ELSE {h}
           c == [parents |-> ps, tree |-> tree, info |-> r.info]
           o == UpdateMade(f)
<1>1. /\ WellFormed(history) /\ r \in Requests /\ Ref(f) \in Refs /\ r.info \in Nat
      /\ h \in Commits(history) \cup {NoCommit}
  BY CallRuns, CallFields DEF IType, ICalls, ITypes
<1> HIDE DEF h
<1>2. current \in Trees
  <2>1. h # NoCommit => history[h] \in Stored
    BY <1>1, WellFormedGraph
  <2> QED BY <1>1, <2>1 DEF TreeOf, Stored, Trees
<1>3. o = Added(history, c)
  BY DEF UpdateMade, Ref, h
<1> HIDE DEF current
<1>4. tree \in Trees /\ (r.op = "test_and_set" => r.test = current /\ tree = r.tree)
  <2>1. "error" \notin DOMAIN Wanted(r, current)
    BY DEF current, h
  <2> HIDE DEF r
  <2> QED BY <1>1, <1>2, <2>1, WantedIs DEF r
<1> HIDE DEF tree, r
<1>5. /\ ps \subseteq Commits(history) /\ ps \subseteq Nat
      /\ Cardinality(ps) \in {0, 1}
  <2>1. \A x \in Commits(history) : x \in Nat
    BY <1>1, WellFormedGraph
  <2>2. CASE h = NoCommit
    <3>1. Cardinality({}) = 0
      BY FS_EmptySet
    <3> QED BY <2>2, <3>1
  <2>3. CASE h # NoCommit
    <3>1. Cardinality({h}) = 1
      BY FS_Singleton
    <3> QED BY <1>1, <2>1, <2>3, <3>1
  <2> QED BY <2>2, <2>3
<1> HIDE DEF ps
<1>6. c \in Stored /\ c.parents = ps /\ c.tree = tree
  BY <1>1, <1>4, <1>5 DEF Stored
<1> HIDE DEF c, o
<1>7. /\ WellFormed(o.history) /\ Extends(o.history, history)
      /\ o.commit \in Commits(o.history) /\ o.history[o.commit] = c
      /\ \A i \in Commits(o.history) \ Commits(history) : o.history[i] = c
  BY <1>1, <1>3, <1>5, <1>6, AddedKeeps
<1> QED BY <1>4, <1>5, <1>6, <1>7 DEF o, h, ps, current, r

\* What an update does: it ends, or it puts that commit in the place of the head.
LEMMA UpdateDoes ==
  ASSUME IType, NEW f \in Fibers, Update(f)
  PROVE  /\ pc[f] = "reading" /\ call[f].request.op \in Updates
         /\ UNCHANGED <<head, tries, rivals, calls>>
         /\ \/ \E a \in Results \ {"ok"} : Ends(f, a) /\ UNCHANGED history
            \/ /\ "error" \notin DOMAIN Wanted(call[f].request, TreeOf(history, head[Ref(f)]))
               /\ Prepared(f, head[Ref(f)], UpdateMade(f))
<1> DEFINE r == call[f].request
           h == head[r.ref]
           current == TreeOf(history, h)
           wanted == Wanted(r, current)
<1>1. /\ pc[f] = "reading" /\ r.op \in Updates /\ UNCHANGED <<head, tries, rivals, calls>>
      /\ r \in Requests
  BY CallRuns DEF Update, Updates, IType, ICalls
<1>2. \/ Ends(f, "unchanged") /\ UNCHANGED history
      \/ "error" \in DOMAIN wanted /\ Ends(f, wanted.error) /\ UNCHANGED history
      \/ "error" \notin DOMAIN wanted /\ Prepared(f, h, UpdateMade(f))
  BY DEF Update, TreeOf, UpdateMade
<1>3. "error" \in DOMAIN wanted => wanted.error \in {"test_was", "conflict"}
  <2> HIDE DEF r, current
  <2> QED BY <1>1, WantedErrors
<1> HIDE DEF wanted
<1>4. CASE Ends(f, "unchanged") /\ UNCHANGED history
  BY <1>1, <1>4 DEF Results
<1>5. CASE "error" \in DOMAIN wanted /\ Ends(f, wanted.error) /\ UNCHANGED history
  BY <1>1, <1>3, <1>5 DEF Results
<1>6. CASE "error" \notin DOMAIN wanted /\ Prepared(f, h, UpdateMade(f))
  BY <1>1, <1>6 DEF wanted, Ref
<1> QED BY <1>2, <1>4, <1>5, <1>6

Info(f) == call[f].request.info

\* A call that ends with another answer than "ok", and adds at most joins of its own.
Fails(f) ==
  /\ \E a \in Results \ {"ok"} : Ends(f, a)
  /\ Grown(history, Info(f), history')

LEMMA GrownHistory ==
  ASSUME IType, NEW info, UNCHANGED history
  PROVE  /\ Grown(history, info, history') /\ WellFormed(history')
         /\ Extends(history', history)
<1>1. WellFormed(history) /\ history' = history
  BY DEF IType, ITypes
<1>2. Grown(history, info, history) /\ Extends(history, history)
  BY <1>1, GrownItself, ExtendsItself
<1> QED BY <1>1, <1>2

\* What a merge does: it fails, or it puts in the place of the head the commit that it
\* found, if there was no head, or what three_way_merge gave.
LEMMA MergeDoes ==
  ASSUME IType, NEW f \in Fibers, Merge(f)
  PROVE  LET h == head[Ref(f)]
             c == call[f].found
             made == ThreeWayMerge(history, c, h, Info(f))
         IN /\ pc[f] = "reading" /\ call[f].request.op = "merge"
            /\ UNCHANGED <<head, tries, rivals, calls>>
            /\ \/ Fails(f)
               \/ /\ c \in Commits(history) /\ h = NoCommit
                  /\ Prepared(f, h, Found(history, c))
               \/ /\ c \in Commits(history) /\ h \in Commits(history)
                  /\ made.commit # NoCommit /\ Prepared(f, h, made)
                  /\ Merging(history, c, h, Info(f), made)
<1> DEFINE r == call[f].request
           h == head[r.ref]
           c == call[f].found
           made == ThreeWayMerge(history, c, h, r.info)
<1>1. /\ pc[f] = "reading" /\ r.op = "merge" /\ UNCHANGED <<head, tries, rivals, calls>>
      /\ r.info \in Nat /\ r.ref \in Refs /\ WellFormed(history)
      /\ c \in Commits(history) \cup {NoCommit} /\ h \in Commits(history) \cup {NoCommit}
  BY CallRuns, CallFields DEF Merge, IType, ICalls, ITypes
<1>2. \/ c = NoCommit /\ Ends(f, "no_source") /\ UNCHANGED history
      \/ c # NoCommit /\ h = NoCommit /\ Prepared(f, h, Found(history, c))
      \/ /\ c # NoCommit /\ h # NoCommit /\ made.commit = NoCommit
         /\ Ends(f, "conflict") /\ history' = made.history
      \/ c # NoCommit /\ h # NoCommit /\ made.commit # NoCommit /\ Prepared(f, h, made)
  BY DEF Merge
<1>3. c # NoCommit /\ h # NoCommit => Merging(history, c, h, r.info, made)
  <2> HIDE DEF r, c, h
  <2> QED BY <1>1, ThreeWayMergeKeeps
<1> HIDE DEF made
<1>4. CASE c = NoCommit /\ Ends(f, "no_source") /\ UNCHANGED history
  <2>1. Fails(f)
    BY <1>4, GrownHistory DEF Fails, Results
  <2> QED BY <1>1, <2>1
<1>5. CASE c # NoCommit /\ h = NoCommit /\ Prepared(f, h, Found(history, c))
  BY <1>1, <1>5 DEF Ref
<1>6. CASE /\ c # NoCommit /\ h # NoCommit /\ made.commit = NoCommit
           /\ Ends(f, "conflict") /\ history' = made.history
  <2>1. Fails(f)
    BY <1>3, <1>6 DEF Fails, Results, Merging, Info
  <2> QED BY <1>1, <2>1
<1>7. CASE c # NoCommit /\ h # NoCommit /\ made.commit # NoCommit /\ Prepared(f, h, made)
  BY <1>1, <1>3, <1>7 DEF Ref, Info, made
<1> QED BY <1>2, <1>4, <1>5, <1>6, <1>7

\* The commit c is strictly in the future of the head h, if there is one.
Ahead(g, c, h) == h = NoCommit \/ (h # c /\ Reaches(g, c, h))

\* What a fast-forward does: it fails, or it puts the commit that it found in the
\* place of a head that this commit is ahead of.
LEMMA FastForwardDoes ==
  ASSUME IType, NEW f \in Fibers, FastForward(f)
  PROVE  LET h == head[Ref(f)]
             c == call[f].found
         IN /\ pc[f] = "reading" /\ call[f].request.op = "fast_forward"
            /\ UNCHANGED <<head, tries, rivals, calls>>
            /\ \/ Fails(f)
               \/ /\ c \in Commits(history) /\ Ahead(history, c, h)
                  /\ Prepared(f, h, Found(history, c))
<1> DEFINE r == call[f].request
           h == head[r.ref]
           c == call[f].found
<1>1. /\ pc[f] = "reading" /\ r.op = "fast_forward"
      /\ UNCHANGED <<head, tries, rivals, calls>>
      /\ r.ref \in Refs /\ WellFormed(history)
      /\ c \in Commits(history) \cup {NoCommit} /\ h \in Commits(history) \cup {NoCommit}
  BY CallRuns, CallFields DEF FastForward, IType, ICalls, ITypes
<1>2. \/ \E a \in {"no_source", "no_change", "rejected"} : Ends(f, a) /\ UNCHANGED history
      \/ /\ h # c /\ (h = NoCommit \/ Lcas(history, c, h) = {h})
         /\ c # NoCommit /\ Prepared(f, h, Found(history, c))
  BY DEF FastForward
<1>3. CASE \E a \in {"no_source", "no_change", "rejected"} : Ends(f, a) /\ UNCHANGED history
  <2>1. Fails(f)
    BY <1>3, GrownHistory DEF Fails, Results
  <2> QED BY <1>1, <2>1
<1>4. CASE /\ h # c /\ (h = NoCommit \/ Lcas(history, c, h) = {h})
           /\ c # NoCommit /\ Prepared(f, h, Found(history, c))
  <2>1. Ahead(history, c, h)
    <3>1. h # NoCommit => Lcas(history, c, h) \subseteq Ancestors(history, c)
      BY <1>1, <1>4, LcasReached, WellFormedGraph
    <3> QED BY <1>4, <3>1 DEF Ahead, Reaches
  <2> QED BY <1>1, <1>4, <2>1 DEF Ref
<1> QED BY <1>2, <1>3, <1>4

\* The head of the call of f becomes c, and the call ends.
Replaces(f, c) ==
  /\ head' = [head EXCEPT ![Ref(f)] = c]
  /\ Ends(f, "ok") /\ UNCHANGED <<history, tries>>

\* The swap was lost, and is tried again.
TriesAgain(f) ==
  /\ pc[f] = "swapping" /\ To(f, "reading")
  /\ tries' \in [Fibers -> 0..(Retries + 1)] /\ tries'[f] <= Retries
  /\ \A g \in Fibers \ {f} : tries'[g] = tries[g]
  /\ UNCHANGED <<history, head, lock, call, snap, new, result>>

LEMMA LostDoes ==
  ASSUME IType, NEW f \in Fibers, Lost(f)
  PROVE  /\ pc[f] = "swapping" /\ UNCHANGED <<history, head>>
         /\ tries' \in [Fibers -> 0..(Retries + 1)]
         /\ \A g \in Fibers \ {f} : tries'[g] = tries[g]
         /\ \/ \E a \in Results \ {"ok"} : Ends(f, a)
            \/ TriesAgain(f)
<1> DEFINE r == call[f].request
<1>1. /\ pc[f] = "swapping" /\ UNCHANGED <<history, head, rivals, calls>>
      /\ tries' = [tries EXCEPT ![f] = IF r.op = "merge" THEN @ ELSE @ + 1]
      /\ \/ Ends(f, "rejected")
         \/ Ends(f, "too_many_retries")
         \/ /\ r.op = "merge" \/ tries[f] # Retries
            /\ To(f, "reading") /\ UNCHANGED <<lock, call, snap, new, result>>
  BY DEF Lost
<1>2. /\ tries[f] \in Nat /\ tries[f] <= Retries /\ Retries \in Nat
      /\ tries \in [Fibers -> 0..(Retries + 1)]
  BY <1>1, StoreHeadAssumption DEF IType, ITypes, ICalls
<1>3. /\ tries' \in [Fibers -> 0..(Retries + 1)]
      /\ tries'[f] = IF r.op = "merge" THEN tries[f] ELSE tries[f] + 1
      /\ \A g \in Fibers \ {f} : tries'[g] = tries[g]
  <2>1. (IF r.op = "merge" THEN tries[f] ELSE tries[f] + 1) \in 0..(Retries + 1)
    BY <1>2
  <2> QED BY <1>1, <1>2, <2>1
<1>4. CASE Ends(f, "rejected") \/ Ends(f, "too_many_retries")
  BY <1>1, <1>3, <1>4 DEF Results
<1>5. CASE /\ r.op = "merge" \/ tries[f] # Retries
           /\ To(f, "reading") /\ UNCHANGED <<lock, call, snap, new, result>>
  <2>1. tries'[f] <= Retries
    BY <1>2, <1>3, <1>5
  <2> QED BY <1>1, <1>3, <1>5, <2>1 DEF TriesAgain
<1> QED BY <1>1, <1>4, <1>5

\* What a fiber does in a step of its call: it locks, fails, puts a commit that an
\* update, a merge or a fast-forward gives in the place of the head, overwrites the
\* head, swaps it, or tries again.
LEMMA StepDoes ==
  ASSUME IType, NEW f \in Fibers, Step(f)
  PROVE  \/ Lock(f)
         \/ Fails(f) /\ UNCHANGED <<head, tries>>
         \/ Update(f) /\ ~Fails(f)
         \/ Merge(f) /\ ~Fails(f)
         \/ FastForward(f) /\ ~Fails(f)
         \/ /\ pc[f] = "reading" /\ call[f].request.op = "force"
            /\ Replaces(f, call[f].found)
         \/ /\ pc[f] = "swapping" /\ head[Ref(f)] = snap[f]
            /\ Replaces(f, new[f])
         \/ Lost(f)
<1>1. Overwrite(f) => /\ pc[f] = "reading" /\ call[f].request.op = "force"
                      /\ Replaces(f, call[f].found)
  BY DEF Overwrite, Placed, Replaces, Ref
<1>2. Swap(f) => /\ pc[f] = "swapping" /\ head[Ref(f)] = snap[f]
                 /\ Replaces(f, new[f])
  BY DEF Swap, Placed, Replaces, Ref
<1>3. Update(f) \/ Merge(f) \/ FastForward(f) => UNCHANGED <<head, tries>>
  BY DEF Update, Merge, FastForward
<1> QED BY <1>1, <1>2, <1>3 DEF Step

\* A step makes the history grow: it has all that it had.
LEMMA HistoryGrows ==
  ASSUME IType, NEW f \in Fibers, Call(f) \/ Step(f)
  PROVE  WellFormed(history') /\ Extends(history', history)
<1>1. CASE UNCHANGED history
  BY <1>1, GrownHistory
<1>2. CASE Update(f)
  <2>1. CASE UNCHANGED history
    BY <2>1, GrownHistory
  <2>2. CASE ~UNCHANGED history
    BY <1>2, <2>2, UpdateDoes, UpdateMakes DEF Prepared
  <2> QED BY <2>1, <2>2
<1>3. CASE Merge(f)
  <2>1. CASE Fails(f)
    BY <2>1 DEF Fails, Grown
  <2>2. CASE UNCHANGED history
    BY <2>2, GrownHistory
  <2>3. CASE ~UNCHANGED history /\ ~Fails(f)
    BY <1>3, <2>3, MergeDoes DEF Prepared, Found, Merging, Grown
  <2> QED BY <2>1, <2>2, <2>3
<1>4. FastForward(f) => UNCHANGED history
  BY DEF FastForward, Prepared, Found
<1>5. Call(f) \/ Lock(f) \/ Overwrite(f) \/ Swap(f) \/ Lost(f) => UNCHANGED history
  BY DEF Call, Lock, Overwrite, Swap, Lost
<1> QED BY <1>1, <1>2, <1>3, <1>4, <1>5 DEF Step

LEMMA ReplacesTypes ==
  ASSUME IType, NEW f \in Fibers, pc[f] # "idle",
         NEW c \in Commits(history) \cup {NoCommit}, Replaces(f, c)
  PROVE  IType'
<1>1. head' \in [Refs -> Commits(history') \cup {NoCommit}]
  BY DEF Replaces, IType, ITypes
<1>2. WellFormed(history') /\ Extends(history', history)
  BY GrownHistory DEF Replaces
<1>3. "ok" \in Results
  BY DEF Results
<1> QED BY <1>1, <1>2, <1>3, EndsTypes DEF Replaces

LEMMA LostTypes ==
  ASSUME IType, NEW f \in Fibers, Lost(f)
  PROVE  IType'
<1>1. CASE TriesAgain(f)
  <2>1. /\ call' = call /\ lock' = lock /\ history' = history
        /\ pc'[f] = "reading" /\ \A g \in Fibers \ {f} : pc'[g] = pc[g]
    BY <1>1 DEF TriesAgain, To, IType, ITypes
  <2>2. ITypes'
    BY <1>1 DEF TriesAgain, To, IType, ITypes, Places
  <2>3. ICalls'
    BY <1>1, <2>1 DEF TriesAgain, IType, ICalls, HeldBy
  <2> QED BY <2>2, <2>3 DEF IType
<1>2. ASSUME NEW a \in Results, Ends(f, a), UNCHANGED <<history, head>>,
             tries' \in [Fibers -> 0..(Retries + 1)],
             \A g \in Fibers \ {f} : tries'[g] = tries[g]
      PROVE  IType'
  <2>1. ITypes'
    BY <1>2 DEF IType, ITypes, Ends, To, Places
  <2>2. /\ pc'[f] = "idle" /\ call'[f] = None
        /\ \A g \in Fibers \ {f} : pc'[g] = pc[g] /\ call'[g] = call[g]
        /\ \A s \in Stores : lock'[s] = IF lock[s] = f THEN None ELSE lock[s]
    BY <1>2 DEF IType, ITypes, Ends, To
  <2>3. ASSUME NEW s \in Stores, lock'[s] # None
        PROVE  HeldBy(lock[s], s)' /\ lock'[s] = lock[s]
    <3>1. lock'[s] = lock[s] /\ lock[s] # f /\ lock[s] # None
      BY <2>2, <2>3
    <3>2. lock[s] \in Fibers
      BY <3>1 DEF IType, ITypes
    <3> QED BY <2>2, <3>1, <3>2 DEF IType, ICalls, HeldBy
  <2>4. ICalls'
    BY <1>2, <2>2, <2>3 DEF IType, ICalls, HeldBy
  <2> QED BY <2>1, <2>4 DEF IType
<1> QED BY <1>1, <1>2, LostDoes

LEMMA ITypeNext ==
  ASSUME IType, [Next]_vars
  PROVE  IType'
<1>1. CASE UNCHANGED vars
  BY <1>1 DEF vars, IType, ITypes, ICalls, HeldBy
<1>2. ASSUME NEW f \in Fibers, Step(f)
      PROVE  IType'
  <2>0. /\ WellFormed(history') /\ Extends(history', history)
        /\ Commits(history) \subseteq Commits(history')
        /\ head \in [Refs -> Commits(history) \cup {NoCommit}]
    BY <1>2, HistoryGrows, CommitsStay DEF IType, ITypes
  <2>1. ASSUME Fails(f), UNCHANGED <<head, tries>>
        PROVE  IType'
    BY <2>0, <2>1, EndsTypes DEF Fails
  <2>2. ASSUME NEW made, Prepared(f, head[Ref(f)], made), pc[f] = "reading",
               UNCHANGED <<head, tries>>, made.commit \in Commits(made.history)
        PROVE  IType'
    <3>1. head[Ref(f)] \in Commits(history) \cup {NoCommit}
      BY <2>0, <2>2, CallRuns DEF IType, ICalls
    <3>2. WellFormed(made.history) /\ Extends(made.history, history)
      BY <2>0, <2>2 DEF Prepared
    <3> QED BY <2>2, <3>1, <3>2, PreparedTypes
  <2>3. CASE Update(f) /\ ~Fails(f)
    <3>1. CASE \E a \in Results \ {"ok"} : Ends(f, a) /\ UNCHANGED history
      BY <2>3, <3>1, GrownHistory DEF Fails
    <3>2. CASE ~ \E a \in Results \ {"ok"} : Ends(f, a) /\ UNCHANGED history
      BY <2>2, <2>3, <3>2, UpdateDoes, UpdateMakes
    <3> QED BY <3>1, <3>2
  <2>4. CASE Merge(f) /\ ~Fails(f)
    BY <2>2, <2>4, MergeDoes DEF Merging, Found
  <2>5. CASE FastForward(f) /\ ~Fails(f)
    BY <2>2, <2>5, FastForwardDoes DEF Found
  <2>6. CASE pc[f] = "reading" /\ Replaces(f, call[f].found)
    BY <2>6, ReplacesTypes DEF IType, ICalls
  <2>7. CASE pc[f] = "swapping" /\ Replaces(f, new[f])
    BY <2>7, ReplacesTypes DEF IType, ITypes
  <2> QED BY <1>2, <2>1, <2>3, <2>4, <2>5, <2>6, <2>7, StepDoes, LockTypes, LostTypes
<1> QED BY <1>1, <1>2, CallTypes DEF Next

\* Every variable has its type whatever the fibers do: merges leave a history of
\* commits that are stored once, each after its parents, for any calls, histories and
\* fibers (store.ml, commit.ml).
THEOREM TypesHold == Spec => []TypeOK
<1>1. IType => TypeOK
  BY DEF IType, ITypes, ICalls, HeldBy, TypeOK, Places
<1> QED BY ITypeInit, ITypeNext, <1>1, PTL DEF Spec

\* The step of a fiber leaves the others where they are.
LEMMA OthersStay ==
  ASSUME IType, NEW f \in Fibers, Call(f) \/ Step(f), NEW g \in Fibers \ {f}
  PROVE  pc'[g] = pc[g] /\ call'[g] = call[g] /\ snap'[g] = snap[g] /\ new'[g] = new[g]
<1>1. ASSUME NEW a, Ends(f, a)
      PROVE  pc'[g] = pc[g] /\ call'[g] = call[g] /\ snap'[g] = snap[g] /\ new'[g] = new[g]
  BY <1>1 DEF Ends, To, IType, ITypes
<1>2. ASSUME NEW h, NEW made, Prepared(f, h, made)
      PROVE  pc'[g] = pc[g] /\ call'[g] = call[g] /\ snap'[g] = snap[g] /\ new'[g] = new[g]
  BY <1>2 DEF Prepared, To, IType, ITypes
<1>3. CASE Call(f) \/ Lock(f)
  BY <1>3 DEF Call, Lock, To, IType, ITypes
<1>4. CASE Fails(f) \/ (\E c : Replaces(f, c))
  BY <1>1, <1>4 DEF Fails, Replaces
<1>5. CASE Lost(f)
  <2>1. TriesAgain(f) => UNCHANGED <<call, snap, new>> /\ pc'[g] = pc[g]
    BY DEF TriesAgain, To, IType, ITypes
  <2> QED BY <1>1, <1>5, <2>1, LostDoes
<1>6. CASE Update(f)
  BY <1>1, <1>2, <1>6, UpdateDoes
<1>7. CASE Merge(f) /\ ~Fails(f)
  BY <1>2, <1>7, MergeDoes
<1>8. CASE FastForward(f) /\ ~Fails(f)
  BY <1>2, <1>8, FastForwardDoes
<1> QED BY <1>3, <1>4, <1>5, <1>6, <1>7, <1>8, StepDoes

\* How a fiber comes to swap a head: with a commit that its update makes, with the one
\* that a merge found and no head, with what three_way_merge gave, or with one that
\* fast_forward found to be ahead.
Updated(f) ==
  /\ call[f].request.op \in Updates
  /\ "error" \notin DOMAIN Wanted(call[f].request, TreeOf(history, head[Ref(f)]))
  /\ history' = UpdateMade(f).history /\ new'[f] = UpdateMade(f).commit

Brought(f) ==
  /\ call[f].request.op = "merge" /\ head[Ref(f)] = NoCommit
  /\ UNCHANGED history /\ new'[f] = call[f].found /\ new'[f] \in Commits(history)

Joined(f) ==
  LET h == head[Ref(f)]
      c == call[f].found
      made == ThreeWayMerge(history, c, h, Info(f))
  IN /\ call[f].request.op = "merge"
     /\ c \in Commits(history) /\ h \in Commits(history)
     /\ history' = made.history /\ new'[f] = made.commit /\ made.commit # NoCommit
     /\ Merging(history, c, h, Info(f), made)

Forwarded(f) ==
  /\ call[f].request.op = "fast_forward"
  /\ UNCHANGED history /\ new'[f] = call[f].found /\ new'[f] \in Commits(history)
  /\ Ahead(history, new'[f], head[Ref(f)])

LEMMA SwapsNext ==
  ASSUME IType, NEW f \in Fibers, Call(f) \/ Step(f), pc'[f] = "swapping"
  PROVE  /\ pc[f] = "reading" /\ call[f] # None /\ UNCHANGED <<call, head>>
         /\ snap'[f] = head[Ref(f)] /\ head[Ref(f)] \in Commits(history) \cup {NoCommit}
         /\ Updated(f) \/ Brought(f) \/ Joined(f) \/ Forwarded(f)
<1>1. ASSUME NEW a, Ends(f, a)
      PROVE  FALSE
  BY <1>1 DEF Ends, To, IType, ITypes
<1>2. ASSUME NEW h, NEW made, Prepared(f, h, made)
      PROVE  /\ UNCHANGED call /\ snap'[f] = h /\ new'[f] = made.commit
             /\ history' = made.history
  BY <1>2 DEF Prepared, To, IType, ITypes
<1>3. CASE Call(f) \/ Lock(f)
  BY <1>3 DEF Call, Lock, To, IType, ITypes
<1>4. CASE Fails(f) \/ (\E c : Replaces(f, c))
  BY <1>1, <1>4 DEF Fails, Replaces
<1>5. CASE Lost(f)
  <2>1. TriesAgain(f) => pc'[f] # "swapping"
    BY DEF TriesAgain, To, IType, ITypes
  <2> QED BY <1>1, <1>5, <2>1, LostDoes
<1>6. ASSUME pc[f] = "reading"
      PROVE  call[f] # None /\ head[Ref(f)] \in Commits(history) \cup {NoCommit}
  <2>1. call[f] # None
    BY <1>6 DEF IType, ICalls
  <2> QED BY <2>1, CallRuns DEF IType, ITypes
<1>7. CASE Update(f)
  <2>1. /\ pc[f] = "reading" /\ call[f].request.op \in Updates /\ UNCHANGED head
        /\ "error" \notin DOMAIN Wanted(call[f].request, TreeOf(history, head[Ref(f)]))
        /\ Prepared(f, head[Ref(f)], UpdateMade(f))
    BY <1>1, <1>7, UpdateDoes
  <2>2. Updated(f) /\ UNCHANGED call /\ snap'[f] = head[Ref(f)]
    BY <1>2, <2>1 DEF Updated
  <2> QED BY <1>6, <2>1, <2>2
<1>8. CASE Merge(f) /\ ~Fails(f)
  <2> DEFINE h == head[Ref(f)]
             c == call[f].found
             made == ThreeWayMerge(history, c, h, Info(f))
  <2>1. /\ pc[f] = "reading" /\ call[f].request.op = "merge" /\ UNCHANGED head
        /\ \/ /\ c \in Commits(history) /\ h = NoCommit
              /\ Prepared(f, h, Found(history, c))
           \/ /\ c \in Commits(history) /\ h \in Commits(history)
              /\ made.commit # NoCommit /\ Prepared(f, h, made)
              /\ Merging(history, c, h, Info(f), made)
    BY <1>8, MergeDoes
  <2>2. CASE c \in Commits(history) /\ h = NoCommit /\ Prepared(f, h, Found(history, c))
    <3>1. UNCHANGED call /\ snap'[f] = h /\ new'[f] = c /\ history' = history
      BY <1>2, <2>2 DEF Found
    <3> QED BY <1>6, <2>1, <2>2, <3>1 DEF Brought
  <2>3. CASE /\ c \in Commits(history) /\ h \in Commits(history)
             /\ made.commit # NoCommit /\ Prepared(f, h, made)
             /\ Merging(history, c, h, Info(f), made)
    <3>1. UNCHANGED call /\ snap'[f] = h /\ new'[f] = made.commit /\ history' = made.history
      BY <1>2, <2>3
    <3>2. Joined(f)
      BY <2>1, <2>3, <3>1 DEF Joined
    <3> QED BY <1>6, <2>1, <3>1, <3>2
  <2> QED BY <2>1, <2>2, <2>3
<1>9. CASE FastForward(f) /\ ~Fails(f)
  <2> DEFINE h == head[Ref(f)]
             c == call[f].found
  <2>1. /\ pc[f] = "reading" /\ call[f].request.op = "fast_forward" /\ UNCHANGED head
        /\ c \in Commits(history) /\ Ahead(history, c, h)
        /\ Prepared(f, h, Found(history, c))
    BY <1>9, FastForwardDoes
  <2>2. UNCHANGED call /\ snap'[f] = h /\ new'[f] = c /\ history' = history
    BY <1>2, <2>1 DEF Found
  <2> QED BY <1>6, <2>1, <2>2 DEF Forwarded
<1> QED BY <1>3, <1>4, <1>5, <1>7, <1>8, <1>9, StepDoes

(* What a fiber that swaps has. *)

ISwaps ==
  \A f \in Fibers : pc[f] = "swapping" =>
    /\ new[f] \in Commits(history)
    /\ call[f].request.op = "test_and_set" =>
         /\ TreeOf(history, snap[f]) = call[f].request.test
         /\ TreeOf(history, new[f]) = call[f].request.tree

LEMMA TreesStay ==
  ASSUME IType, WellFormed(history'), Extends(history', history),
         NEW c \in Commits(history) \cup {NoCommit}
  PROVE  TreeOf(history', c) = TreeOf(history, c)
<1>1. NoCommit \notin Commits(history)
  BY WellFormedGraph DEF IType, ITypes
<1>2. c # NoCommit => history'[c] = history[c]
  BY ReachesStay DEF IType, ITypes
<1> QED BY <1>2 DEF TreeOf

LEMMA ISwapsNext ==
  ASSUME IType, ISwaps, [Next]_vars
  PROVE  ISwaps'
<1>1. CASE UNCHANGED vars
  BY <1>1 DEF vars, ISwaps
<1>2. ASSUME NEW f \in Fibers, Call(f) \/ Step(f)
      PROVE  ISwaps'
  <2>1. WellFormed(history') /\ Extends(history', history)
    BY <1>2, HistoryGrows
  <2>2. WellFormed(history)
    BY DEF IType, ITypes
  <2> SUFFICES ASSUME NEW g \in Fibers, pc'[g] = "swapping"
               PROVE  /\ new'[g] \in Commits(history')
                      /\ call'[g].request.op = "test_and_set" =>
                           /\ TreeOf(history', snap'[g]) = call'[g].request.test
                           /\ TreeOf(history', new'[g]) = call'[g].request.tree
    BY DEF ISwaps
  <2>3. CASE g # f
    <3>1. /\ pc'[g] = pc[g] /\ call'[g] = call[g] /\ snap'[g] = snap[g]
          /\ new'[g] = new[g]
      BY <1>2, <2>3, OthersStay
    <3>2. /\ new[g] \in Commits(history)
          /\ snap[g] \in Commits(history) \cup {NoCommit}
      BY <3>1 DEF ISwaps, IType, ITypes
    <3>3. /\ TreeOf(history', snap[g]) = TreeOf(history, snap[g])
          /\ TreeOf(history', new[g]) = TreeOf(history, new[g])
      BY <2>1, <3>2, TreesStay
    <3>4. new[g] \in Commits(history')
      BY <2>1, <2>2, <3>2, ReachesStay
    <3> QED BY <3>1, <3>3, <3>4 DEF ISwaps
  <2>4. CASE g = f
    <3>1. /\ pc[f] = "reading" /\ call[f] # None /\ UNCHANGED <<call, head>>
          /\ snap'[f] = head[Ref(f)] /\ head[Ref(f)] \in Commits(history) \cup {NoCommit}
          /\ Updated(f) \/ Brought(f) \/ Joined(f) \/ Forwarded(f)
      BY <1>2, <2>4, SwapsNext
    <3>2. CASE Updated(f)
      <4> DEFINE o == UpdateMade(f)
      <4>1. /\ o.commit \in Commits(o.history)
            /\ call[f].request.op = "test_and_set" =>
                 /\ TreeOf(history, head[Ref(f)]) = call[f].request.test
                 /\ o.history[o.commit].tree = call[f].request.tree
        BY <3>1, <3>2, UpdateMakes DEF Updated
      <4>2. o.history = history' /\ o.commit = new'[f]
        BY <3>2 DEF Updated
      <4> HIDE DEF o
      <4>3. new'[f] \in Commits(history') /\ new'[f] # NoCommit
        BY <2>1, <4>1, <4>2, WellFormedGraph
      <4>4. TreeOf(history', snap'[f]) = TreeOf(history, head[Ref(f)])
        BY <2>1, <3>1, TreesStay
      <4>5. TreeOf(history', new'[f]) = history'[new'[f]].tree
        BY <4>3 DEF TreeOf
      <4> QED BY <2>4, <3>1, <4>1, <4>2, <4>3, <4>4, <4>5
    <3>3. CASE Brought(f) \/ Joined(f) \/ Forwarded(f)
      <4>1. call'[f].request.op # "test_and_set"
        BY <3>1, <3>3 DEF Brought, Joined, Forwarded
      <4>2. new'[f] \in Commits(history')
        BY <3>3 DEF Brought, Joined, Forwarded, Merging
      <4> QED BY <2>4, <4>1, <4>2
    <3> QED BY <3>1, <3>2, <3>3
  <2> QED BY <2>3, <2>4
<1> QED BY <1>1, <1>2 DEF Next

\* A call that ends with "ok" swaps or overwrites its head in that step.
LEMMA OkSwaps ==
  ASSUME IType, [Next]_vars, NEW f \in Fibers, Answers(f, "ok")
  PROVE  /\ Ref(f) \in Refs /\ call[f] # None /\ UNCHANGED history
         /\ \/ /\ call[f].request.op = "force"
               /\ head' = [head EXCEPT ![Ref(f)] = call[f].found]
            \/ /\ pc[f] = "swapping" /\ head[Ref(f)] = snap[f]
               /\ head' = [head EXCEPT ![Ref(f)] = new[f]]
<1>1. /\ call[f] # None /\ Ref(f) \in Refs /\ pc[f] # "idle" /\ pc'[f] = "idle"
      /\ result'[f] = "ok"
  BY CallRuns DEF Answers, IType, ICalls
<1>2. ~UNCHANGED vars
  BY <1>1 DEF vars
<1>3. PICK g \in Fibers : Call(g) \/ Step(g)
  BY <1>2 DEF Next
<1>4. g = f
  BY <1>1, <1>3, OthersStay
<1>5. ASSUME NEW a, Ends(f, a)
      PROVE  a = "ok"
  BY <1>1, <1>5 DEF Ends, IType, ITypes
<1>6. ASSUME NEW h, NEW made, Prepared(f, h, made)
      PROVE  FALSE
  BY <1>1, <1>6 DEF Prepared, To, IType, ITypes
<1>7. ~Call(f) /\ ~Lock(f)
  BY <1>1 DEF Call, Lock, To, IType, ITypes
<1>8. ~Fails(f)
  BY <1>5 DEF Fails
<1>9. ~Lost(f)
  <2>1. ~TriesAgain(f)
    BY <1>1 DEF TriesAgain, To, IType, ITypes
  <2> QED BY <1>5, <2>1, LostDoes
<1>10. ~Update(f) /\ ~Merge(f) /\ ~FastForward(f)
  BY <1>5, <1>6, <1>8, UpdateDoes, MergeDoes, FastForwardDoes
<1>11. \/ /\ call[f].request.op = "force" /\ Replaces(f, call[f].found)
       \/ /\ pc[f] = "swapping" /\ head[Ref(f)] = snap[f] /\ Replaces(f, new[f])
  BY <1>3, <1>4, <1>7, <1>8, <1>9, <1>10, StepDoes
<1> QED BY <1>1, <1>11 DEF Replaces
-----------------------------------------------------------------------------
\* A head that test_and_set replaces has the tree that was tested, for any calls,
\* histories and fibers (store.ml test_and_set_tree).
THEOREM TestsHeldAlways == Spec => TestsHeld
<1>1. Init => ISwaps
  BY DEF Init, ISwaps
<1>2. ASSUME IType, ISwaps, [Next]_vars
      PROVE  [\A f \in Fibers :
                Answers(f, "ok") /\ call[f].request.op = "test_and_set" =>
                  LET r == call[f].request
                  IN /\ TreeOf(history, head[r.ref]) = r.test
                     /\ TreeOf(history', head'[r.ref]) = r.tree]_vars
  <2> SUFFICES ASSUME NEW f \in Fibers, Answers(f, "ok"),
                      call[f].request.op = "test_and_set"
               PROVE  LET r == call[f].request
                      IN /\ TreeOf(history, head[r.ref]) = r.test
                         /\ TreeOf(history', head'[r.ref]) = r.tree
    OBVIOUS
  <2>1. /\ Ref(f) \in Refs /\ UNCHANGED history /\ pc[f] = "swapping"
        /\ head[Ref(f)] = snap[f] /\ head' = [head EXCEPT ![Ref(f)] = new[f]]
    BY <1>2, OkSwaps
  <2>2. head'[Ref(f)] = new[f]
    BY <1>2, <2>1 DEF IType, ITypes
  <2>3. /\ TreeOf(history, snap[f]) = call[f].request.test
        /\ TreeOf(history, new[f]) = call[f].request.tree
    BY <1>2, <2>1 DEF ISwaps
  <2>4. /\ TreeOf(history, head[Ref(f)]) = call[f].request.test
        /\ TreeOf(history', head'[Ref(f)]) = call[f].request.tree
    BY <2>1, <2>2, <2>3
  <2> QED BY <2>4 DEF Ref
<1> QED BY ITypeInit, ITypeNext, <1>1, ISwapsNext, <1>2, PTL DEF Spec, TestsHeld

(* Merges with an info of their own. *)

Runs(f) == call[f] # None /\ call[f].request.op = "merge"

\* No head, no commit that a call brings and no commit of another fiber joins others
\* with the info of a merge that runs, and no other merge that runs has its info.
IFresh ==
  \A f \in Fibers : Runs(f) =>
    /\ \A r \in Refs : head[r] \notin Joins(history, Info(f))
    /\ \A g \in Fibers : call[g] # None => call[g].found \notin Joins(history, Info(f))
    /\ \A g \in Fibers \ {f} : /\ new[g] \notin Joins(history, Info(f))
                               /\ Runs(g) => Info(g) # Info(f)

\* A commit that is no join of the info is none when the history has grown.
LEMMA NoJoinsStay ==
  ASSUME IType, WellFormed(history'), Extends(history', history), NEW i,
         NEW c \in Commits(history) \cup {NoCommit}, c \notin Joins(history, i)
  PROVE  c \notin Joins(history', i)
<1>1. WellFormed(history) /\ NoCommit \notin Commits(history')
  BY WellFormedGraph DEF IType, ITypes
<1>2. c = NoCommit => c \notin Joins(history', i)
  BY <1>1 DEF Joins
<1>3. c \in Commits(history) => c \notin Joins(history', i)
  BY <1>1, JoinsStay
<1> QED BY <1>2, <1>3

LEMMA CallFresh ==
  ASSUME ~SameInfo, IType, IFresh, NEW f \in Fibers, Call(f)
  PROVE  IFresh'
<1>1. PICK r \in Requests :
        /\ r.op = "merge" => NewInfo(r)
        /\ call' = [call EXCEPT ![f] =
             [request |-> r,
              found |-> IF "from" \in DOMAIN r THEN head[r.from] ELSE NoCommit]]
  BY DEF Call
<1> DEFINE found == IF "from" \in DOMAIN r THEN head[r.from] ELSE NoCommit
<1>2. /\ call'[f].request = r /\ call'[f].found = found /\ pc[f] = "idle"
      /\ \A g \in Fibers \ {f} : call'[g] = call[g]
      /\ UNCHANGED <<history, head, new>>
  BY <1>1 DEF Call, IType, ITypes
<1>3. NoCommit \notin Commits(history) /\ (found = NoCommit \/ \E s \in Refs : found = head[s])
  BY CallFields, WellFormedGraph DEF IType, ITypes
<1> HIDE DEF found
<1>4. ASSUME r.op = "merge"
      PROVE  /\ \A c : c \notin Joins(history, r.info)
             /\ \A g \in Fibers : Runs(g) => Info(g) # r.info
  BY <1>1, <1>4 DEF NewInfo, Joins, Runs, Info
<1>5. ASSUME NEW g \in Fibers, Runs(g)'
      PROVE  /\ \A s \in Refs : head[s] \notin Joins(history, Info(g)')
             /\ \A k \in Fibers : call'[k] # None =>
                  call'[k].found \notin Joins(history, Info(g)')
             /\ \A k \in Fibers \ {g} : /\ new[k] \notin Joins(history, Info(g)')
                                        /\ Runs(k)' => Info(k)' # Info(g)'
  <2>1. CASE g = f
    <3>1. r.op = "merge" /\ Info(g)' = r.info
      BY <1>2, <1>5, <2>1 DEF Runs, Info
    <3>2. \A k \in Fibers \ {g} : (Runs(k)' <=> Runs(k)) /\ Info(k)' = Info(k)
      BY <1>2, <2>1 DEF Runs, Info
    <3> QED BY <1>4, <3>1, <3>2
  <2>2. CASE g # f
    <3>1. Runs(g) /\ Info(g)' = Info(g)
      BY <1>2, <1>5, <2>2 DEF Runs, Info
    <3>2. found \notin Joins(history, Info(g))
      BY <1>3, <3>1 DEF IFresh, Joins
    <3>3. Runs(f)' => Info(f)' # Info(g)
      <4>1. Runs(f)' => r.op = "merge" /\ Info(f)' = r.info
        BY <1>2 DEF Runs, Info
      <4> QED BY <1>4, <3>1, <4>1
    <3>4. \A k \in Fibers \ {f} : (Runs(k)' <=> Runs(k)) /\ Info(k)' = Info(k)
      BY <1>2 DEF Runs, Info
    <3> QED BY <1>2, <3>1, <3>2, <3>3, <3>4 DEF IFresh
  <2> QED BY <2>1, <2>2
<1> QED BY <1>2, <1>5 DEF IFresh

\* A step of a call keeps IFresh if the commit that f would put in the place of the
\* head is no join of another merge.
LEMMA StepFresh ==
  ASSUME IType, IFresh, NEW f \in Fibers, WellFormed(history'), Extends(history', history),
         \A g \in Fibers \ {f} : call'[g] = call[g] /\ new'[g] = new[g],
         call[f] # None, call'[f] \in {None, call[f]},
         \A r \in Refs : \/ head'[r] = head[r]
                         \/ call'[f] = None /\ head'[r] \in {new[f], call[f].found},
         new'[f] \in {new[f], NoCommit} \/
           \A g \in Fibers \ {f} : Runs(g) => new'[f] \notin Joins(history', Info(g))
  PROVE  IFresh'
<1> SUFFICES ASSUME NEW g \in Fibers, Runs(g)'
             PROVE  /\ \A r \in Refs : head'[r] \notin Joins(history', Info(g)')
                    /\ \A k \in Fibers : call'[k] # None =>
                         call'[k].found \notin Joins(history', Info(g)')
                    /\ \A k \in Fibers \ {g} : /\ new'[k] \notin Joins(history', Info(g)')
                                               /\ Runs(k)' => Info(k)' # Info(g)'
  BY DEF IFresh
<1>1. \A k \in Fibers : call'[k] # None => call'[k] = call[k]
  OBVIOUS
<1>2. /\ Runs(g) /\ Info(g)' = Info(g)
      /\ \A k \in Fibers : Runs(k)' => Runs(k) /\ Info(k)' = Info(k)
  BY <1>1 DEF Runs, Info
<1> DEFINE i == Info(g)
<1>3. \A c \in Commits(history) \cup {NoCommit} :
        c \notin Joins(history, i) => c \notin Joins(history', i)
  BY NoJoinsStay
<1>4. /\ \A k \in Fibers : /\ new[k] \in Commits(history) \cup {NoCommit}
                           /\ call[k] # None =>
                                call[k].found \in Commits(history) \cup {NoCommit}
      /\ \A r \in Refs : head[r] \in Commits(history) \cup {NoCommit}
      /\ NoCommit \notin Joins(history, i)
  BY WellFormedGraph DEF IType, ITypes, ICalls, Joins
<1>5. /\ \A r \in Refs : head[r] \notin Joins(history, i)
      /\ \A k \in Fibers : call[k] # None => call[k].found \notin Joins(history, i)
      /\ \A k \in Fibers \ {g} : new[k] \notin Joins(history, i) /\ (Runs(k) => Info(k) # i)
  BY <1>2 DEF IFresh
<1> HIDE DEF i
<1>6. ASSUME NEW r \in Refs
      PROVE  head'[r] \notin Joins(history', i)
  <2>1. CASE head'[r] = head[r]
    BY <1>3, <1>4, <1>5, <2>1
  <2>2. CASE call'[f] = None /\ head'[r] \in {new[f], call[f].found}
    <3>1. g # f
      BY <2>2 DEF Runs
    <3> QED BY <1>3, <1>4, <1>5, <2>2, <3>1
  <2> QED BY <2>1, <2>2
<1>7. ASSUME NEW k \in Fibers \ {g}
      PROVE  new'[k] \notin Joins(history', i)
  <2>1. CASE new'[k] = new[k] \/ new'[k] = NoCommit
    BY <1>3, <1>4, <1>5, <2>1
  <2>2. CASE k = f /\ \A g2 \in Fibers \ {f} : Runs(g2) => new'[f] \notin Joins(history', Info(g2))
    BY <1>2, <2>2 DEF i
  <2> QED BY <2>1, <2>2
<1>8. \A k \in Fibers : call'[k] # None => call'[k].found \notin Joins(history', i)
  BY <1>1, <1>3, <1>4, <1>5
<1> QED BY <1>2, <1>5, <1>6, <1>7, <1>8 DEF i

LEMMA IFreshNext ==
  ASSUME ~SameInfo, IType, IFresh, [Next]_vars
  PROVE  IFresh'
<1>1. CASE UNCHANGED vars
  BY <1>1 DEF vars, IFresh, Runs, Info
<1>2. ASSUME NEW f \in Fibers, Step(f)
      PROVE  IFresh'
  <2>1. WellFormed(history') /\ Extends(history', history) /\ WellFormed(history)
    BY <1>2, HistoryGrows DEF IType, ITypes
  <2>2. \A g \in Fibers \ {f} : call'[g] = call[g] /\ new'[g] = new[g]
    BY <1>2, OthersStay
  <2>3. call[f] # None
    BY <1>2 DEF Step, Lock, Update, Merge, FastForward, Overwrite, Swap, Lost, IType, ICalls
  <2>4. /\ call'[f] \in {None, call[f]}
        /\ \A r \in Refs : \/ head'[r] = head[r]
                           \/ call'[f] = None /\ head'[r] \in {new[f], call[f].found}
        /\ new'[f] \in {new[f], NoCommit} \/ pc'[f] = "swapping"
    <3>1. ASSUME NEW a, Ends(f, a)
          PROVE  call'[f] = None /\ new'[f] = NoCommit
      BY <3>1 DEF Ends, IType, ITypes
    <3>2. ASSUME NEW h, NEW made, Prepared(f, h, made)
          PROVE  call' = call /\ pc'[f] = "swapping"
      BY <3>2 DEF Prepared, To, IType, ITypes
    <3>3. CASE Lock(f)
      BY <3>3 DEF Lock
    <3>4. CASE Fails(f) /\ UNCHANGED head
      BY <3>1, <3>4 DEF Fails
    <3>5. ASSUME NEW c \in {new[f], call[f].found}, Replaces(f, c)
          PROVE  /\ call'[f] = None /\ new'[f] = NoCommit
                 /\ \A r \in Refs : head'[r] \in {head[r], c}
      BY <3>1, <3>5 DEF Replaces, IType, ITypes
    <3>6. CASE Lost(f)
      BY <3>1, <3>6, LostDoes DEF TriesAgain
    <3>7. CASE Update(f) /\ ~Fails(f)
      BY <3>1, <3>2, <3>7, UpdateDoes
    <3>8. CASE Merge(f) /\ ~Fails(f)
      BY <3>2, <3>8, MergeDoes
    <3>9. CASE FastForward(f) /\ ~Fails(f)
      BY <3>2, <3>9, FastForwardDoes
    <3> QED BY <1>2, <3>3, <3>4, <3>5, <3>6, <3>7, <3>8, <3>9, StepDoes
  <2>5. ASSUME pc'[f] = "swapping", NEW g \in Fibers \ {f}, Runs(g)
        PROVE  new'[f] \notin Joins(history', Info(g))
    <3>1. /\ pc[f] = "reading" /\ head[Ref(f)] \in Commits(history) \cup {NoCommit}
          /\ Ref(f) \in Refs
          /\ Updated(f) \/ Brought(f) \/ Joined(f) \/ Forwarded(f)
      BY <1>2, <2>3, <2>5, SwapsNext, CallRuns DEF IType
    <3>2. /\ head[Ref(f)] \notin Joins(history, Info(g))
          /\ call[f].found \notin Joins(history, Info(g))
      BY <2>3, <2>5, <3>1 DEF IFresh
    <3>3. CASE Updated(f)
      <4>1. Cardinality(history'[new'[f]].parents) \in {0, 1}
        BY <3>1, <3>3, UpdateMakes DEF Updated
      <4> QED BY <4>1 DEF Joins
    <3>4. CASE Brought(f) \/ Forwarded(f)
      BY <3>2, <3>4 DEF Brought, Forwarded
    <3>5. CASE Joined(f)
      <4>1. /\ new'[f] \in {call[f].found, head[Ref(f)]} \cup Joins(history', Info(f))
            /\ call[f].found \in Commits(history)
        BY <3>5 DEF Joined, Merging
      <4>2. Info(f) # Info(g)
        BY <2>3, <2>5, <3>5 DEF IFresh, Runs, Joined
      <4>3. new'[f] \in Joins(history', Info(f)) => new'[f] \notin Joins(history', Info(g))
        BY <4>2 DEF Joins
      <4>4. /\ head[Ref(f)] \notin Joins(history', Info(g))
            /\ call[f].found \notin Joins(history', Info(g))
        BY <2>1, <3>1, <3>2, <4>1, NoJoinsStay
      <4> QED BY <4>1, <4>3, <4>4
    <3> QED BY <3>1, <3>3, <3>4, <3>5
  <2> QED BY <2>1, <2>2, <2>3, <2>4, <2>5, StepFresh
<1> QED BY <1>1, <1>2, CallFresh DEF Next
-----------------------------------------------------------------------------
\* The commit that a fiber would put in the place of a head reaches that head.
IReaches ==
  \A f \in Fibers : pc[f] = "swapping" =>
    /\ new[f] \in Commits(history)
    /\ snap[f] = NoCommit \/ Reaches(history, new[f], snap[f])

LEMMA IReachesNext ==
  ASSUME IType, IFresh, IReaches, [Next]_vars
  PROVE  IReaches'
<1>1. CASE UNCHANGED vars
  BY <1>1 DEF vars, IReaches
<1>2. ASSUME NEW f \in Fibers, Call(f) \/ Step(f)
      PROVE  IReaches'
  <2>1. WellFormed(history') /\ Extends(history', history) /\ WellFormed(history)
    BY <1>2, HistoryGrows DEF IType, ITypes
  <2> SUFFICES ASSUME NEW g \in Fibers, pc'[g] = "swapping"
               PROVE  /\ new'[g] \in Commits(history')
                      /\ snap'[g] = NoCommit \/ Reaches(history', new'[g], snap'[g])
    BY DEF IReaches
  <2>2. CASE g # f
    <3>1. /\ pc'[g] = pc[g] /\ snap'[g] = snap[g] /\ new'[g] = new[g]
      BY <1>2, <2>2, OthersStay
    <3>2. /\ new[g] \in Commits(history)
          /\ snap[g] = NoCommit \/ Reaches(history, new[g], snap[g])
      BY <3>1 DEF IReaches
    <3> QED BY <2>1, <3>1, <3>2, ReachesStay
  <2>3. CASE g = f
    <3> DEFINE h == head[Ref(f)]
    <3>1. /\ pc[f] = "reading" /\ call[f] # None /\ snap'[f] = h
          /\ h \in Commits(history) \cup {NoCommit} /\ Ref(f) \in Refs
          /\ Updated(f) \/ Brought(f) \/ Joined(f) \/ Forwarded(f)
      BY <1>2, <2>3, SwapsNext, CallRuns DEF IType
    <3> HIDE DEF h
    <3>2. CASE Updated(f)
      <4>1. /\ new'[f] \in Commits(history')
            /\ history'[new'[f]].parents = IF h = NoCommit THEN {} ELSE {h}
        BY <3>1, <3>2, UpdateMakes DEF Updated, h
      <4>2. h # NoCommit => Reaches(history', new'[f], h)
        BY <2>1, <4>1, ParentIsAncestor, WellFormedGraph DEF Reaches
      <4> QED BY <2>3, <3>1, <4>1, <4>2
    <3>3. CASE Brought(f)
      BY <2>3, <3>1, <3>3 DEF Brought, h
    <3>4. CASE Joined(f)
      <4>1. Runs(f) /\ h \notin Joins(history, Info(f))
        BY <3>1, <3>4 DEF Joined, IFresh, Runs, h
      <4>2. new'[f] \in Commits(history') /\ Reaches(history', new'[f], h)
        BY <3>4, <4>1 DEF Joined, Merging, h
      <4> QED BY <2>3, <3>1, <4>2
    <3>5. CASE Forwarded(f)
      BY <2>3, <3>1, <3>5 DEF Forwarded, Ahead, h
    <3> QED BY <3>1, <3>2, <3>3, <3>4, <3>5
  <2> QED BY <2>2, <2>3
<1> QED BY <1>1, <1>2 DEF Next

\* A head changes only when a call ends with "ok".
LEMMA HeadMoves ==
  ASSUME IType, [Next]_vars, NEW r \in Refs, head'[r] # head[r]
  PROVE  \E f \in Fibers : Answers(f, "ok") /\ Ref(f) = r
<1>1. ~UNCHANGED vars
  BY DEF vars
<1>2. PICK f \in Fibers : Call(f) \/ Step(f)
  BY <1>1 DEF Next
<1>3. ~UNCHANGED head
  OBVIOUS
<1>4. \E c : pc[f] # "idle" /\ Replaces(f, c)
  BY <1>2, <1>3, StepDoes, LostDoes DEF Call, Lock, Update, Merge, FastForward
<1>5. Answers(f, "ok")
  BY <1>4 DEF Answers, Replaces, Ends, To, IType, ITypes, ICalls
<1>6. Ref(f) = r
  BY <1>4 DEF Replaces, IType, ITypes
<1> QED BY <1>5, <1>6

\* If merges have infos of their own, no commit of a head is lost: whatever the
\* fibers do, a head is replaced by a commit that reaches it, but for the calls that
\* set the head without a look at it, for any calls, histories and fibers (store.ml
\* update: "Ensure the no commit becomes orphan in the process").
THEOREM NoCommitOrphaned ==
  ASSUME ~SameInfo
  PROVE  Spec => NoOrphan
<1>1. Init => IFresh /\ IReaches
  BY DEF Init, IFresh, IReaches, Runs
<1>2. ASSUME IType, IReaches, [Next]_vars
      PROVE  [\A r \in Refs :
                \/ head[r] \in {NoCommit, head'[r]}
                \/ Reaches(history', head'[r], head[r])
                \/ \E f \in Fibers : /\ Answers(f, "ok")
                                    /\ call[f].request.op = "force"
                                    /\ call[f].request.ref = r]_vars
  <2> SUFFICES ASSUME NEW r \in Refs, head'[r] # head[r], head[r] # NoCommit
               PROVE  \/ Reaches(history', head'[r], head[r])
                      \/ \E f \in Fibers : /\ Answers(f, "ok")
                                          /\ call[f].request.op = "force"
                                          /\ call[f].request.ref = r
    OBVIOUS
  <2>1. PICK f \in Fibers : Answers(f, "ok") /\ Ref(f) = r
    BY <1>2, HeadMoves
  <2>2. /\ UNCHANGED history
        /\ \/ call[f].request.op = "force"
           \/ /\ pc[f] = "swapping" /\ head[Ref(f)] = snap[f]
              /\ head' = [head EXCEPT ![Ref(f)] = new[f]]
    BY <1>2, <2>1, OkSwaps
  <2>3. CASE call[f].request.op = "force"
    BY <2>1, <2>3 DEF Ref
  <2>4. CASE /\ pc[f] = "swapping" /\ head[Ref(f)] = snap[f]
             /\ head' = [head EXCEPT ![Ref(f)] = new[f]]
    <3>1. head'[r] = new[f] /\ head[r] = snap[f]
      BY <1>2, <2>1, <2>4 DEF IType, ITypes
    <3>2. Reaches(history, new[f], snap[f])
      BY <1>2, <2>4, <3>1 DEF IReaches
    <3> QED BY <2>2, <3>1, <3>2
  <2> QED BY <2>2, <2>3, <2>4
<1> QED BY ITypeInit, ITypeNext, <1>1, IFreshNext, IReachesNext, <1>2, PTL DEF Spec, NoOrphan
-----------------------------------------------------------------------------
(* What a merge keeps of its two sides. *)

\* The commits since which a side may have changed nothing: the common ancestors, or
\* the lowest of them.
Bases(h, c1, c2, which) ==
  {a \in Ancestors(h, c1) \cap Ancestors(h, c2) :
     which = "lowest" => a \in LowestCommon(h, c1, c2)}

\* A side is reached, and its tree is the one of the merge, or it has changed nothing
\* since one of the bases, or has nothing where there is not one base alone.
SideKept(h, c, c1, c2, which, side) ==
  /\ Reaches(h, c, side)
  /\ \/ h[c].tree = h[side].tree
     \/ \E a \in Bases(h, c1, c2, which) : h[a].tree = h[side].tree
     \/ /\ h[side].tree = Absent
        /\ \A a \in Bases(h, c1, c2, which) : Bases(h, c1, c2, which) # {a}

ISides(which) ==
  \A f \in Fibers : pc[f] = "swapping" /\ call[f].request.op = "merge" =>
    /\ new[f] \in Commits(history) /\ call[f].found \in Commits(history)
    /\ IF snap[f] = NoCommit THEN new[f] = call[f].found
       ELSE \A side \in {call[f].found, snap[f]} :
              SideKept(history, new[f], call[f].found, snap[f], which, side)

LEMMA BasesStay ==
  ASSUME NEW h, NEW h2, WellFormed(h), WellFormed(h2), Extends(h2, h),
         NEW c1 \in Commits(h), NEW c2 \in Commits(h), NEW which
  PROVE  /\ Bases(h2, c1, c2, which) = Bases(h, c1, c2, which)
         /\ Bases(h, c1, c2, which) \subseteq Commits(h)
<1>1. /\ Ancestors(h2, c1) = Ancestors(h, c1) /\ Ancestors(h2, c2) = Ancestors(h, c2)
      /\ Ancestors(h, c1) \subseteq Commits(h)
      /\ \A b \in Commits(h) : Ancestors(h2, b) = Ancestors(h, b)
  BY ReachesStay, AncestorsReach, WellFormedGraph
<1>2. LowestCommon(h2, c1, c2) = LowestCommon(h, c1, c2)
  BY <1>1 DEF LowestCommon
<1> QED BY <1>1, <1>2 DEF Bases

\* Later commits change nothing of a merge.
LEMMA SideKeptStays ==
  ASSUME NEW h, NEW h2, WellFormed(h), WellFormed(h2), Extends(h2, h),
         NEW c \in Commits(h), NEW c1 \in Commits(h), NEW c2 \in Commits(h),
         NEW side \in Commits(h), NEW which, SideKept(h, c, c1, c2, which, side)
  PROVE  SideKept(h2, c, c1, c2, which, side)
<1>1. /\ \A d \in Commits(h) : h2[d] = h[d]
      /\ Reaches(h2, c, side)
  BY ReachesStay DEF SideKept
<1>2. /\ Bases(h2, c1, c2, which) = Bases(h, c1, c2, which)
      /\ Bases(h, c1, c2, which) \subseteq Commits(h)
  BY BasesStay
<1> QED BY <1>1, <1>2 DEF SideKept

LEMMA ISidesNext ==
  ASSUME IType, IFresh, NEW which, which = "lowest" => LcasExact, ISides(which), [Next]_vars
  PROVE  ISides(which)'
<1>1. CASE UNCHANGED vars
  BY <1>1 DEF vars, ISides
<1>2. ASSUME NEW f \in Fibers, Call(f) \/ Step(f)
      PROVE  ISides(which)'
  <2>1. WellFormed(history') /\ Extends(history', history) /\ WellFormed(history)
    BY <1>2, HistoryGrows DEF IType, ITypes
  <2> SUFFICES ASSUME NEW g \in Fibers, pc'[g] = "swapping", call'[g].request.op = "merge"
               PROVE  /\ new'[g] \in Commits(history') /\ call'[g].found \in Commits(history')
                      /\ snap'[g] = NoCommit => new'[g] = call'[g].found
                      /\ snap'[g] # NoCommit =>
                           \A side \in {call'[g].found, snap'[g]} :
                             SideKept(history', new'[g], call'[g].found, snap'[g], which, side)
    BY DEF ISides
  <2>2. CASE g # f
    <3>1. /\ pc'[g] = pc[g] /\ call'[g] = call[g] /\ snap'[g] = snap[g]
          /\ new'[g] = new[g]
      BY <1>2, <2>2, OthersStay
    <3> DEFINE c == new[g]
               c1 == call[g].found
               c2 == snap[g]
    <3>2. /\ c \in Commits(history) /\ c1 \in Commits(history)
          /\ c2 \in Commits(history) \cup {NoCommit}
          /\ c2 = NoCommit => c = c1
          /\ c2 # NoCommit => \A side \in {c1, c2} : SideKept(history, c, c1, c2, which, side)
      BY <3>1 DEF ISides, IType, ITypes
    <3> HIDE DEF c, c1, c2
    <3>3. c \in Commits(history') /\ c1 \in Commits(history')
      BY <2>1, <3>2, ReachesStay
    <3>4. ASSUME c2 # NoCommit, NEW side \in {c1, c2}
          PROVE  SideKept(history', c, c1, c2, which, side)
      BY <2>1, <3>2, <3>4, SideKeptStays
    <3> QED BY <3>1, <3>2, <3>3, <3>4 DEF c, c1, c2
  <2>3. CASE g = f
    <3> DEFINE h == head[Ref(f)]
               c == call[f].found
    <3>1. /\ pc[f] = "reading" /\ call[f] # None /\ snap'[f] = h /\ UNCHANGED call
          /\ h \in Commits(history) \cup {NoCommit} /\ Ref(f) \in Refs
          /\ call[f].request.op = "merge"
          /\ Brought(f) \/ Joined(f)
      <4>1. /\ pc[f] = "reading" /\ call[f] # None /\ snap'[f] = h /\ UNCHANGED call
            /\ h \in Commits(history) \cup {NoCommit} /\ Ref(f) \in Refs
            /\ Updated(f) \/ Brought(f) \/ Joined(f) \/ Forwarded(f)
        BY <1>2, <2>3, SwapsNext, CallRuns DEF IType
      <4>2. call[f].request.op = "merge"
        BY <2>3, <4>1
      <4> QED BY <4>1, <4>2 DEF Updated, Updates, Forwarded
    <3>2. CASE Brought(f)
      <4>1. /\ snap'[f] = NoCommit /\ new'[f] = c /\ call'[f].found = c
            /\ c \in Commits(history')
        BY <3>1, <3>2 DEF Brought
      <4> QED BY <2>3, <4>1
    <3>3. CASE Joined(f)
      <4>1. /\ Runs(f) /\ h \notin Joins(history, Info(f)) /\ c \notin Joins(history, Info(f))
        BY <3>1 DEF IFresh, Runs
      <4>2. /\ c \in Commits(history) /\ h \in Commits(history) /\ NoCommit \notin Commits(history)
            /\ new'[f] \in Commits(history')
        BY <2>1, <3>3, WellFormedGraph DEF Joined, Merging
      <4>3. /\ Lcas(history, c, h) \subseteq Bases(history, c, h, which)
            /\ LowestCommon(history, c, h) \subseteq Bases(history, c, h, which)
        <5>1. which = "lowest" => Lcas(history, c, h) = LowestCommon(history, c, h)
          BY <3>1, <4>2 DEF LcasExact, Ref
        <5>2. Lcas(history, c, h) \subseteq Ancestors(history, c) \cap Ancestors(history, h)
          BY <2>1, <4>2, LcasReached, WellFormedGraph
        <5>3. LowestCommon(history, c, h) \subseteq Ancestors(history, c) \cap Ancestors(history, h)
          BY DEF LowestCommon
        <5> HIDE DEF c, h
        <5> QED BY <5>1, <5>2, <5>3 DEF Bases
      <4>4. ASSUME NEW side \in {c, h}
            PROVE  /\ Reaches(history', new'[f], side)
                   /\ Kept(history, c, h, history'[new'[f]].tree, side)
        BY <3>3, <4>1, <4>4 DEF Joined, Merging
      <4>5. /\ Bases(history', c, h, which) = Bases(history, c, h, which)
            /\ Bases(history, c, h, which) \subseteq Commits(history)
            /\ \A d \in Commits(history) : d \in Commits(history') /\ history'[d] = history[d]
        BY <2>1, <4>2, BasesStay, ReachesStay
      <4> HIDE DEF h, c
      <4>6. \A a : Bases(history, c, h, which) = {a} => Lcas(history, c, h) = {a}
        <5> SUFFICES ASSUME NEW a, Bases(history, c, h, which) = {a}
                     PROVE  a \in Lcas(history, c, h)
          BY <4>3
        <5>1. a \in LowestCommon(history, c, h)
          BY DEF Bases, LowestCommon
        <5>2. LowestCommon(history, c, h) \subseteq Lcas(history, c, h)
          BY <2>1, <4>2, LcasFinds, WellFormedGraph
        <5> QED BY <5>1, <5>2
      <4>7. ASSUME NEW side \in {c, h}
            PROVE  SideKept(history', new'[f], c, h, which, side)
        BY <4>2, <4>3, <4>4, <4>5, <4>6, <4>7 DEF SideKept, Kept
      <4> QED BY <2>3, <3>1, <4>2, <4>5, <4>7 DEF c, h
    <3> QED BY <3>1, <3>2, <3>3
  <2> QED BY <2>2, <2>3
<1> QED BY <1>1, <1>2 DEF Next

\* The merges that succeed in a step bring in both sides, and a side of another tree has
\* changed nothing since one of the bases, or has nothing where there is not one alone.
KeepsSides(which) ==
  \A f \in Fibers :
    Answers(f, "ok") /\ call[f].request.op = "merge" =>
      LET ref == call[f].request.ref
      IN \A side \in {call[f].found, head[ref]} \ {NoCommit} :
           /\ Reaches(history', head'[ref], side)
           /\ \/ history[head'[ref]].tree = history[side].tree
              \/ \E a \in Bases(history, call[f].found, head[ref], which) :
                   history[a].tree = history[side].tree
              \/ /\ history[side].tree = Absent
                 /\ \A a \in Bases(history, call[f].found, head[ref], which) :
                      Bases(history, call[f].found, head[ref], which) # {a}

LEMMA SidesKept ==
  ASSUME IType, NEW which, ISides(which), [Next]_vars
  PROVE  KeepsSides(which)
<1> SUFFICES ASSUME NEW f \in Fibers, Answers(f, "ok"), call[f].request.op = "merge",
                    NEW side \in {call[f].found, head[Ref(f)]} \ {NoCommit}
             PROVE  /\ SideKept(history, head'[Ref(f)], call[f].found, head[Ref(f)], which, side)
                    /\ history' = history
  BY DEF KeepsSides, SideKept, Ref
<1>1. /\ UNCHANGED history /\ Ref(f) \in Refs
      /\ pc[f] = "swapping" /\ head[Ref(f)] = snap[f]
      /\ head' = [head EXCEPT ![Ref(f)] = new[f]]
  BY OkSwaps
<1>2. head'[Ref(f)] = new[f]
  BY <1>1 DEF IType, ITypes
<1>3. CASE snap[f] # NoCommit
  BY <1>1, <1>2, <1>3 DEF ISides
<1>4. CASE snap[f] = NoCommit
  <2>1. side = call[f].found /\ new[f] = side /\ side \in Commits(history)
    BY <1>1, <1>4 DEF ISides
  <2>2. side \in Ancestors(history, side) /\ side # NoCommit
    BY <2>1, WellFormedGraph, AncestorsReach DEF IType, ITypes
  <2> QED BY <1>1, <1>2, <2>1, <2>2 DEF SideKept, Reaches
<1> QED BY <1>3, <1>4

\* If merges have infos of their own, a merge that succeeds keeps both sides: each is
\* reached, and one whose tree is not that of the merge has the tree of a common
\* ancestor, or nothing, if there is not just one common ancestor; for any calls, histories and fibers (commit.ml merge_commit,
\* three_way_merge, and Head.merge of store.ml, which retries).
THEOREM MergesKeepSides ==
  ASSUME ~SameInfo
  PROVE  Spec => [][KeepsSides("common")]_vars
<1>1. Init => IFresh /\ ISides("common")
  BY DEF Init, IFresh, ISides, Runs
<1>2. ASSUME IType, IFresh, ISides("common"), [Next]_vars PROVE ISides("common")'
  BY <1>2, ISidesNext
<1>3. ASSUME IType, ISides("common"), [Next]_vars PROVE [KeepsSides("common")]_vars
  BY <1>3, SidesKept
<1> QED BY ITypeInit, ITypeNext, <1>1, IFreshNext, <1>2, <1>3, PTL DEF Spec

\* If moreover searches find no other commits than the lowest common ancestors, a side
\* of another tree has the tree of a lowest common ancestor, or nothing, if there is not
\* just one of them (store_intf.ml merge): what a three-way merge is for.
THEOREM MergesKeepBoth ==
  ASSUME ~SameInfo
  PROVE  Spec /\ []LcasExact => MergeKeepsBoth
<1>1. Init => IFresh /\ ISides("lowest")
  BY DEF Init, IFresh, ISides, Runs
<1>2. ASSUME IType, IFresh, LcasExact, ISides("lowest"), [Next]_vars PROVE ISides("lowest")'
  BY <1>2, ISidesNext
<1>3. ASSUME IType, ISides("lowest"), [Next]_vars
      PROVE  [\A f \in Fibers :
                Answers(f, "ok") /\ call[f].request.op = "merge" =>
                  LET ref == call[f].request.ref
                      c == head'[ref]
                      sides == {call[f].found, head[ref]} \ {NoCommit}
                      bases == LowestCommon(history, call[f].found, head[ref])
                  IN \A side \in sides :
                       /\ Reaches(history', c, side)
                       /\ \/ history[c].tree = history[side].tree
                          \/ \E a \in bases : history[a].tree = history[side].tree
                          \/ history[side].tree = Absent /\ \A a \in bases : bases # {a}]_vars
  <2>1. KeepsSides("lowest")
    BY <1>3, SidesKept
  <2>2. \A c1, c2 : Bases(history, c1, c2, "lowest") = LowestCommon(history, c1, c2)
    BY DEF Bases, LowestCommon
  <2> QED BY <2>1, <2>2 DEF KeepsSides
<1> QED BY ITypeInit, ITypeNext, <1>1, IFreshNext, <1>2, <1>3, PTL DEF Spec, MergeKeepsBoth

\* Whatever the history and the two commits, a search for their lowest common ancestors
\* ends, misses none of them and finds common ancestors only (commit.ml lcas: the marks
\* of update_mark, the queues of update_ancestors_marks and traverse_bfs, and the stop
\* at the depth where all commits were seen from both sides).
THEOREM SearchFindsAll ==
  ASSUME NEW h, WellFormed(h), NEW c1 \in Commits(h), NEW c2 \in Commits(h)
  PROVE  /\ LowestCommon(h, c1, c2) \subseteq Lcas(h, c1, c2)
         /\ Lcas(h, c1, c2) \subseteq Ancestors(h, c1) \cap Ancestors(h, c2)
BY LcasFinds, WellFormedGraph

\* No search of a merge or of a fast-forward misses a lowest common ancestor, or finds
\* a commit that is not a common ancestor (commit.ml lcas, store.ml three_way_merge).
THEOREM SearchesFind == Spec => []LcasFound
<1>1. IType => LcasFound
  <2> SUFFICES ASSUME IType, NEW f \in Fibers, pc[f] = "reading",
                      NoCommit \notin {call[f].found, head[Ref(f)]},
                      call[f].request.op \in {"merge", "fast_forward"}
               PROVE  LET c1 == call[f].found
                          c2 == head[Ref(f)]
                      IN /\ LowestCommon(history, c1, c2) \subseteq Lcas(history, c1, c2)
                         /\ Lcas(history, c1, c2)
                              \subseteq Ancestors(history, c1) \cap Ancestors(history, c2)
    BY DEF LcasFound, Ref
  <2>1. call[f].found \in Commits(history) /\ head[Ref(f)] \in Commits(history)
    BY CallRuns, CallFields DEF IType, ITypes, ICalls
  <2> QED BY <2>1, SearchFindsAll DEF IType, ITypes
<1> QED BY ITypeInit, ITypeNext, <1>1, PTL DEF Spec

\* Both of the history: it stays well-formed, and searches in it find what they have to
\* (commit.ml).
THEOREM HistoryStaysOK == Spec => []HistoryOK
<1>1. TypeOK /\ LcasFound => HistoryOK
  BY DEF HistoryOK
<1> QED BY TypesHold, SearchesFind, <1>1, PTL
-----------------------------------------------------------------------------
(* Fast-forwards. *)

\* A fast-forward puts the commit that it found in the place of the head that it read,
\* and is ahead of it.
IForwards ==
  \A f \in Fibers :
    pc[f] = "swapping" /\ call[f].request.op = "fast_forward" =>
      /\ new[f] = call[f].found /\ new[f] \in Commits(history)
      /\ Ahead(history, new[f], snap[f])

LEMMA IForwardsNext ==
  ASSUME IType, IForwards, [Next]_vars
  PROVE  IForwards'
<1>1. CASE UNCHANGED vars
  BY <1>1 DEF vars, IForwards
<1>2. ASSUME NEW f \in Fibers, Call(f) \/ Step(f)
      PROVE  IForwards'
  <2>1. WellFormed(history') /\ Extends(history', history) /\ WellFormed(history)
    BY <1>2, HistoryGrows DEF IType, ITypes
  <2> SUFFICES ASSUME NEW g \in Fibers, pc'[g] = "swapping",
                      call'[g].request.op = "fast_forward"
               PROVE  /\ new'[g] = call'[g].found /\ new'[g] \in Commits(history')
                      /\ Ahead(history', new'[g], snap'[g])
    BY DEF IForwards
  <2>2. CASE g # f
    <3>1. pc'[g] = pc[g] /\ call'[g] = call[g] /\ snap'[g] = snap[g] /\ new'[g] = new[g]
      BY <1>2, <2>2, OthersStay
    <3>2. new[g] = call[g].found /\ new[g] \in Commits(history) /\ Ahead(history, new[g], snap[g])
      BY <3>1 DEF IForwards
    <3> QED BY <2>1, <3>1, <3>2, ReachesStay DEF Ahead
  <2>3. CASE g = f
    <3>1. /\ UNCHANGED call /\ snap'[f] = head[Ref(f)]
          /\ Updated(f) \/ Brought(f) \/ Joined(f) \/ Forwarded(f)
      BY <1>2, <2>3, SwapsNext
    <3>2. Forwarded(f)
      BY <2>3, <3>1 DEF Updated, Updates, Brought, Joined
    <3> QED BY <2>3, <3>1, <3>2 DEF Forwarded
  <2> QED BY <2>2, <2>3
<1> QED BY <1>1, <1>2 DEF Next

\* A fast-forward is rejected where its commit is not ahead of the head, or when it lost
\* the head to another call.
LEMMA Rejects ==
  ASSUME IType, Inv, [Next]_vars, NEW f \in Fibers, Answers(f, "rejected"),
         call[f].request.op = "fast_forward"
  PROVE  rivals[f] > 0 \/ ~Reaches(history, call[f].found, head[Ref(f)])
<1> DEFINE c == call[f].found
           h == head[Ref(f)]
<1>1. /\ call[f] # None /\ Ref(f) \in Refs /\ pc[f] # "idle" /\ pc'[f] = "idle"
      /\ result'[f] = "rejected"
  BY CallRuns DEF Answers, IType, ICalls
<1>2. ~UNCHANGED vars
  BY <1>1 DEF vars
<1>3. PICK g \in Fibers : Call(g) \/ Step(g)
  BY <1>2 DEF Next
<1>4. g = f
  BY <1>1, <1>3, OthersStay
<1>5. ASSUME NEW a, Ends(f, a)
      PROVE  a = "rejected"
  BY <1>1, <1>5 DEF Ends, IType, ITypes
<1>6. ASSUME NEW h0, NEW made, Prepared(f, h0, made)
      PROVE  FALSE
  BY <1>1, <1>6 DEF Prepared, To, IType, ITypes
<1>7. ~Call(f) /\ ~Lock(f)
  BY <1>1 DEF Call, Lock, To, IType, ITypes
<1>8. ~Update(f) /\ ~Merge(f) /\ ~Overwrite(f)
  BY DEF Update, Merge, Overwrite
<1>9. ~Swap(f)
  BY <1>5 DEF Swap
<1>10. CASE Lost(f)
  <2>1. Lags(f) /\ rivals[f] > tries[f] /\ tries[f] \in Nat /\ rivals[f] \in Nat
    BY <1>1, <1>10 DEF Lost, Lags, Ref, Inv, Types, Paid
  <2> QED BY <2>1
<1>11. CASE FastForward(f)
  <2>1. c # NoCommit /\ h # c /\ h # NoCommit /\ Lcas(history, c, h) # {h}
    BY <1>5, <1>6, <1>11 DEF FastForward, Ref
  <2>2. /\ c \in Commits(history) /\ h \in Commits(history) /\ Graph(history)
    BY <1>1, <2>1, WellFormedGraph DEF IType, ITypes, ICalls
  <2>3. h \notin Ancestors(history, c)
    BY <2>1, <2>2, LcasOfAncestor
  <2> QED BY <2>3 DEF Reaches
<1> QED BY <1>3, <1>4, <1>7, <1>8, <1>9, <1>10, <1>11 DEF Step

\* fast_forward answers "ok" only when its commit is strictly in the future of the head
\* that it replaces, and "rejected" only when it is not in its future or another call has
\* changed the head meanwhile; for any histories, calls and fibers (store.ml
\* Head.fast_forward, and the search of commit.ml that it asks).
THEOREM FastForwardsHonest == Spec => FastForwardsExact
<1>1. Init => IForwards
  BY DEF Init, IForwards
<1>2. ASSUME IType, Inv, IForwards, [Next]_vars
      PROVE  [\A f \in Fibers :
                call[f] # None /\ call[f].request.op = "fast_forward" =>
                  LET c == call[f].found
                      h == head[call[f].request.ref]
                  IN /\ Answers(f, "ok") => h = NoCommit \/ (h # c /\ Reaches(history, c, h))
                     /\ Answers(f, "rejected") =>
                          rivals[f] > 0 \/ ~Reaches(history, c, h)]_vars
  <2> SUFFICES ASSUME NEW f \in Fibers, call[f] # None,
                      call[f].request.op = "fast_forward"
               PROVE  LET c == call[f].found
                          h == head[Ref(f)]
                      IN /\ Answers(f, "ok") => Ahead(history, c, h)
                         /\ Answers(f, "rejected") =>
                              rivals[f] > 0 \/ ~Reaches(history, c, h)
    BY DEF Ahead, Ref
  <2>1. ASSUME Answers(f, "ok")
        PROVE  Ahead(history, call[f].found, head[Ref(f)])
    <3>1. pc[f] = "swapping" /\ head[Ref(f)] = snap[f]
      BY <1>2, <2>1, OkSwaps
    <3> QED BY <1>2, <3>1 DEF IForwards
  <2>2. Answers(f, "rejected") =>
          rivals[f] > 0 \/ ~Reaches(history, call[f].found, head[Ref(f)])
    BY <1>2, Rejects
  <2> QED BY <2>1, <2>2
<1> QED
  BY ITypeInit, ITypeNext, InvInit, InvNext, <1>1, IForwardsNext, <1>2, PTL
  DEF Spec, FastForwardsExact

\* A test_and_set and a fast-forward answer what was so of the head that they replaced,
\* for any histories, calls and fibers (store.ml).
THEOREM AnswersAlwaysHonest == Spec => AnswersHonest
<1>1. Spec => TestsHeld
  BY TestsHeldAlways
<1>2. Spec => FastForwardsExact
  BY FastForwardsHonest
<1> QED BY <1>1, <1>2, PTL DEF AnswersHonest
=============================================================================
