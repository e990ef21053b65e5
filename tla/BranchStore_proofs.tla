------------------------- MODULE BranchStore_proofs -------------------------
(***************************************************************************)
(* Proofs about BranchStore: the file has one record for a key, the tables  *)
(* of the process that writes say what it says, and so the store is an      *)
(* atomic map, whatever the watchers and the readers do.                    *)
(***************************************************************************)
EXTENDS BranchStore, SequenceTheorems, TLAPS

\* The types that the lemmas need.
Types == file \in [Stores -> Seq(Records)] /\ rw \in [Stores -> Tables]

Inv == Types /\ OneRecordPerKey /\ FileMatchesTable

\* A file with one record for a key.
OneEach(f) == \A i, j \in 1..Len(f) : f[i].key = f[j].key => i = j

\* What the tables of a store are, for its file.
Matches(t, f) ==
  \A k \in Keys :
    LET p == PlaceAfter(f, 0, k)
    IN t.index[k] = p /\ t.cache[k] = IF p = 0 THEN None ELSE f[p].head
-----------------------------------------------------------------------------
(* The place of a key. *)

LEMMA PlaceFound ==
  ASSUME NEW f \in Seq(Records), OneEach(f), NEW i \in 1..Len(f)
  PROVE  PlaceAfter(f, 0, f[i].key) = i
<1> DEFINE places == {j \in 1..Len(f) : f[j].key = f[i].key}
<1>1. places = {i}
  BY DEF OneEach
<1>2. (CHOOSE j \in {i} : \A l \in {i} : l <= j) = i
  OBVIOUS
<1>3. 0 + 1 = 1
  OBVIOUS
<1> QED BY <1>1, <1>2, <1>3 DEF PlaceAfter

LEMMA PlaceNone ==
  ASSUME NEW f \in Seq(Records), NEW k, \A i \in 1..Len(f) : f[i].key # k
  PROVE  PlaceAfter(f, 0, k) = 0
BY DEF PlaceAfter

LEMMA PlaceIs ==
  ASSUME NEW f \in Seq(Records), OneEach(f), NEW k
  PROVE  \/ PlaceAfter(f, 0, k) = 0 /\ \A i \in 1..Len(f) : f[i].key # k
         \/ PlaceAfter(f, 0, k) \in 1..Len(f) /\ f[PlaceAfter(f, 0, k)].key = k
<1>1. CASE \A i \in 1..Len(f) : f[i].key # k
  BY <1>1, PlaceNone
<1>2. CASE \E i \in 1..Len(f) : f[i].key = k
  BY <1>2, PlaceFound
<1> QED BY <1>1, <1>2

LEMMA RecordPut ==
  ASSUME NEW f \in Seq(Records), NEW i \in 1..Len(f), NEW k \in Keys, NEW v \in Held
  PROVE  LET r == [key |-> k, head |-> v]
         IN /\ [f EXCEPT ![i] = r] \in Seq(Records)
            /\ Len([f EXCEPT ![i] = r]) = Len(f)
            /\ [f EXCEPT ![i] = r][i] = r
            /\ \A j \in 1..Len(f) : j # i => [f EXCEPT ![i] = r][j] = f[j]
BY DEF Records

\* Records that are overwritten for their keys keep every place.
LEMMA PlaceOverwritten ==
  ASSUME NEW f \in Seq(Records), OneEach(f), NEW g \in Seq(Records),
         Len(g) = Len(f), \A i \in 1..Len(f) : g[i].key = f[i].key
  PROVE  OneEach(g) /\ \A x : PlaceAfter(g, 0, x) = PlaceAfter(f, 0, x)
<1>1. OneEach(g)
  BY DEF OneEach
<1>2. ASSUME NEW x PROVE PlaceAfter(g, 0, x) = PlaceAfter(f, 0, x)
  <2>1. CASE \A i \in 1..Len(f) : f[i].key # x
    <3>1. PlaceAfter(f, 0, x) = 0
      BY <2>1, PlaceNone
    <3>2. PlaceAfter(g, 0, x) = 0
      BY <2>1, PlaceNone
    <3> QED BY <3>1, <3>2
  <2>2. CASE \E i \in 1..Len(f) : f[i].key = x
    BY <1>1, <2>2, PlaceFound
  <2> QED BY <2>1, <2>2
<1> QED BY <1>1, <1>2

\* A record that is appended for a new key takes the last place and moves none.
LEMMA PlaceAppended ==
  ASSUME NEW f \in Seq(Records), OneEach(f), NEW k,
         \A i \in 1..Len(f) : f[i].key # k,
         NEW g \in Seq(Records), Len(g) = Len(f) + 1, g[Len(g)].key = k,
         \A i \in 1..Len(f) : g[i] = f[i]
  PROVE  /\ OneEach(g) /\ PlaceAfter(g, 0, k) = Len(g)
         /\ \A x : x # k => PlaceAfter(g, 0, x) = PlaceAfter(f, 0, x)
<1>1. Len(g) \in 1..Len(g) /\ \A i \in 1..Len(g) : i = Len(g) \/ i \in 1..Len(f)
  OBVIOUS
<1>2. OneEach(g)
  BY <1>1 DEF OneEach
<1>3. PlaceAfter(g, 0, k) = Len(g)
  BY <1>1, <1>2, PlaceFound
<1>4. ASSUME NEW x, x # k PROVE PlaceAfter(g, 0, x) = PlaceAfter(f, 0, x)
  <2>1. CASE \A i \in 1..Len(f) : f[i].key # x
    <3>1. PlaceAfter(f, 0, x) = 0
      BY <2>1, PlaceNone
    <3>2. \A i \in 1..Len(g) : g[i].key # x
      BY <1>1, <1>4, <2>1
    <3>3. PlaceAfter(g, 0, x) = 0
      BY <3>2, PlaceNone
    <3> QED BY <3>1, <3>3
  <2>2. CASE \E i \in 1..Len(f) : f[i].key = x
    <3>1. PICK i \in 1..Len(f) : f[i].key = x
      BY <2>2
    <3>2. i \in 1..Len(g) /\ g[i].key = x
      BY <3>1
    <3> QED BY <1>2, <3>1, <3>2, PlaceFound
  <2> QED BY <2>1, <2>2
<1> QED BY <1>2, <1>3, <1>4
-----------------------------------------------------------------------------
(* The steps of the process that writes. *)

LEMMA InvMatches ==
  ASSUME Types, OneRecordPerKey, NEW s \in Stores
  PROVE  /\ file[s] \in Seq(Records) /\ OneEach(file[s])
         /\ (\A k \in Keys : /\ rw[s].cache[k] = FileHead(s, k)
                            /\ rw[s].index[k] = PlaceAfter(file[s], 0, k))
              <=> Matches(rw[s], file[s])
BY DEF Types, OneRecordPerKey, OneEach, Matches, FileHead

\* A store that is open has the tables of its file.
LEMMA OpenMatches ==
  ASSUME Inv, NEW s \in Stores, rw[s].open
  PROVE  Matches(rw[s], file[s])
BY InvMatches DEF Inv, FileMatchesTable

\* A step that only changes the file and the tables of one store.
LEMMA OneStore ==
  ASSUME Inv, NEW s \in Stores, NEW f \in Seq(Records), NEW t \in Tables, OneEach(f),
         t.open => Matches(t, f),
         file' = [file EXCEPT ![s] = f], rw' = [rw EXCEPT ![s] = t]
  PROVE  Inv'
<1>1. Types'
  BY DEF Inv, Types
<1>2. file'[s] = f /\ rw'[s] = t
  BY DEF Inv, Types
<1>3. \A u \in Stores \ {s} : file'[u] = file[u] /\ rw'[u] = rw[u]
  BY DEF Inv, Types
<1>4. OneRecordPerKey'
  <2> SUFFICES ASSUME NEW u \in Stores PROVE OneEach(file'[u])
    BY DEF OneRecordPerKey, OneEach
  <2> QED BY <1>2, <1>3 DEF Inv, OneRecordPerKey, OneEach
<1>5. FileMatchesTable'
  <2> SUFFICES ASSUME NEW u \in Stores, rw'[u].open, NEW k \in Keys
               PROVE  /\ rw'[u].cache[k] = FileHead(u, k)'
                      /\ rw'[u].index[k] = PlaceAfter(file'[u], 0, k)
    BY DEF FileMatchesTable
  <2>1. CASE u = s
    BY <1>2, <2>1 DEF Matches, FileHead
  <2>2. CASE u # s
    BY <1>3, <2>2 DEF Inv, FileMatchesTable, FileHead
  <2> QED BY <2>1, <2>2
<1> QED BY <1>1, <1>4, <1>5 DEF Inv

\* Records are overwritten for their keys, or added at the end.
Grown(f, g) == Len(f) <= Len(g) /\ \A i \in 1..Len(f) : g[i].key = f[i].key

\* What a change of the head of k leaves in the file and in the tables.
ChangedTo(s, k, v, f, t) ==
  /\ f \in Seq(Records) /\ OneEach(f) /\ Grown(file[s], f) /\ t \in Tables /\ t.open = rw[s].open
  /\ Matches(t, f)
  /\ t.cache = [rw[s].cache EXCEPT ![k] = v]
  /\ file' = [file EXCEPT ![s] = f] /\ rw' = [rw EXCEPT ![s] = t]

\* A record of k that is overwritten, with the head in the cache.
LEMMA InPlace ==
  ASSUME Inv, NEW s \in Stores, NEW k \in Keys, NEW v \in Held, rw[s].open,
         rw[s].index[k] # 0,
         file' = [file EXCEPT ![s][rw[s].index[k]] = [key |-> k, head |-> v]],
         rw' = [rw EXCEPT ![s].cache[k] = v]
  PROVE  \E f, t : ChangedTo(s, k, v, f, t)
<1> DEFINE p == rw[s].index[k]
           f == [file[s] EXCEPT ![p] = [key |-> k, head |-> v]]
           t == [rw[s] EXCEPT !.cache[k] = v]
<1>1. /\ file[s] \in Seq(Records) /\ OneEach(file[s]) /\ Matches(rw[s], file[s])
      /\ rw[s] \in Tables
  BY InvMatches, OpenMatches DEF Inv, Types
<1>2. p = PlaceAfter(file[s], 0, k)
  BY <1>1 DEF Matches
<1>3. p \in 1..Len(file[s]) /\ file[s][p].key = k
  BY <1>1, <1>2, PlaceIs
<1> HIDE DEF p
<1>4. /\ f \in Seq(Records) /\ OneEach(f) /\ f[p].head = v
      /\ \A x : PlaceAfter(f, 0, x) = PlaceAfter(file[s], 0, x)
      /\ \A i \in 1..Len(file[s]) : i # p => f[i] = file[s][i]
      /\ Grown(file[s], f)
  <2> DEFINE h == file[s]
  <2>0. h \in Seq(Records)
    BY <1>1
  <2>1. f \in Seq(Records) /\ Len(f) = Len(h)
    <3> HIDE DEF h
    <3>1. [h EXCEPT ![p] = [key |-> k, head |-> v]] \in Seq(Records)
          /\ Len([h EXCEPT ![p] = [key |-> k, head |-> v]]) = Len(h)
      BY <1>3, <2>0, RecordPut DEF h
    <3> QED BY <3>1 DEF h
  <2>2. /\ f[p] = [key |-> k, head |-> v]
        /\ \A i \in 1..Len(h) : i # p => f[i] = h[i]
    BY <1>1, <1>3
  <2>3. \A i \in 1..Len(file[s]) : f[i].key = file[s][i].key
    BY <1>3, <2>2
  <2>4. Grown(file[s], f)
    <3> HIDE DEF f
    <3>1. Len(f) = Len(file[s]) /\ Len(f) \in Nat
      BY <2>0, <2>1
    <3> QED BY <2>3, <3>1 DEF Grown
  <2> HIDE DEF f
  <2> QED BY <1>1, <2>1, <2>2, <2>3, <2>4, PlaceOverwritten
<1>5. /\ t \in Tables /\ t.open = rw[s].open /\ t.index = rw[s].index
      /\ t.cache = [rw[s].cache EXCEPT ![k] = v]
  BY <1>1 DEF Tables, Heads
<1>6. file' = [file EXCEPT ![s] = f] /\ rw' = [rw EXCEPT ![s] = t]
  BY DEF p
<1> HIDE DEF f, t
<1>7. Matches(t, f)
  <2> SUFFICES ASSUME NEW x \in Keys
               PROVE  LET q == PlaceAfter(f, 0, x)
                      IN t.index[x] = q /\ t.cache[x] = IF q = 0 THEN None ELSE f[q].head
    BY DEF Matches
  <2> DEFINE q == PlaceAfter(file[s], 0, x)
  <2>1. PlaceAfter(f, 0, x) = q /\ t.index[x] = q
    BY <1>1, <1>4, <1>5 DEF Matches
  <2>2. CASE x = k
    <3>1. q = p /\ p # 0
      BY <1>2, <1>3, <2>2
    <3>2. t.cache[x] = v
      BY <1>1, <1>5, <2>2 DEF Tables, Heads
    <3> QED BY <1>4, <2>1, <3>1, <3>2
  <2>3. CASE x # k
    <3>1. t.cache[x] = rw[s].cache[x]
      BY <1>1, <1>5, <2>3 DEF Tables, Heads
    <3>2. rw[s].cache[x] = IF q = 0 THEN None ELSE file[s][q].head
      BY <1>1 DEF Matches
    <3>3. q # 0 => q \in 1..Len(file[s]) /\ file[s][q].key = x
      BY <1>1, PlaceIs
    <3>4. q # 0 => f[q] = file[s][q]
      BY <1>3, <1>4, <2>3, <3>3
    <3> QED BY <2>1, <3>1, <3>2, <3>4
  <2> QED BY <2>2, <2>3
<1> QED BY <1>4, <1>5, <1>6, <1>7 DEF ChangedTo

\* A record that is appended for a key that has none.
LEMMA AtEnd ==
  ASSUME Inv, NEW s \in Stores, NEW k \in Keys, NEW v \in Held, rw[s].open,
         rw[s].index[k] = 0,
         file' = [file EXCEPT ![s] = Append(@, [key |-> k, head |-> v])],
         rw' = [rw EXCEPT ![s].cache[k] = v, ![s].index[k] = Len(file[s]) + 1]
  PROVE  \E f, t : ChangedTo(s, k, v, f, t)
<1> DEFINE h == file[s]
           r == [key |-> k, head |-> v]
           f == Append(h, r)
           t == [rw[s] EXCEPT !.cache[k] = v, !.index[k] = Len(h) + 1]
<1>1. h \in Seq(Records) /\ OneEach(h) /\ Matches(rw[s], h) /\ rw[s] \in Tables
  BY InvMatches, OpenMatches DEF Inv, Types
<1>2. file' = [file EXCEPT ![s] = f] /\ rw' = [rw EXCEPT ![s] = t]
  BY DEF Inv, Types
<1>3. /\ t \in Tables /\ t.open = rw[s].open
      /\ t.cache = [rw[s].cache EXCEPT ![k] = v]
      /\ t.index = [rw[s].index EXCEPT ![k] = Len(h) + 1]
  <2> DEFINE a == rw[s]
             n == Len(h) + 1
  <2>1. a \in Tables /\ n \in Nat
    <3> HIDE DEF h
    <3> QED BY <1>1
  <2>2. t = [a EXCEPT !.cache[k] = v, !.index[k] = n]
    OBVIOUS
  <2>3. /\ t.open = a.open /\ t.cache = [a.cache EXCEPT ![k] = v]
        /\ t.index = [a.index EXCEPT ![k] = n] /\ t \in Tables
    <3> HIDE DEF a, n, t
    <3> QED BY <2>1, <2>2 DEF Tables, Heads
  <2> QED BY <2>3
<1>4. \A i \in 1..Len(h) : h[i].key # k
  <2>1. PlaceAfter(h, 0, k) = 0
    BY <1>1 DEF Matches
  <2> HIDE DEF h
  <2> QED BY <1>1, <2>1, PlaceIs
<1>5. r \in Records /\ r.key = k /\ r.head = v
  BY DEF Records
<1> HIDE DEF h, r, t
<1>6. /\ f \in Seq(Records) /\ Len(f) = Len(h) + 1 /\ f[Len(f)] = r
      /\ \A i \in 1..Len(h) : f[i] = h[i]
  BY <1>1, <1>5
<1> HIDE DEF f
<1>7. /\ OneEach(f) /\ PlaceAfter(f, 0, k) = Len(f)
      /\ \A x : x # k => PlaceAfter(f, 0, x) = PlaceAfter(h, 0, x)
  <2>1. f[Len(f)].key = k
    BY <1>5, <1>6
  <2> QED BY <1>1, <1>4, <1>6, <2>1, PlaceAppended
<1>8. Matches(t, f)
  <2> SUFFICES ASSUME NEW x \in Keys
               PROVE  LET q == PlaceAfter(f, 0, x)
                      IN t.index[x] = q /\ t.cache[x] = IF q = 0 THEN None ELSE f[q].head
    BY DEF Matches
  <2>1. CASE x = k
    <3>1. t.index[x] = Len(f) /\ t.cache[x] = v
      BY <1>1, <1>3, <1>6, <2>1 DEF Tables, Heads
    <3>2. Len(f) # 0
      BY <1>1, <1>6
    <3> QED BY <1>5, <1>6, <1>7, <2>1, <3>1, <3>2
  <2>2. CASE x # k
    <3> DEFINE q == PlaceAfter(h, 0, x)
    <3>1. t.cache[x] = rw[s].cache[x] /\ t.index[x] = rw[s].index[x]
      BY <1>1, <1>3, <2>2 DEF Tables, Heads
    <3>2. rw[s].index[x] = q /\ rw[s].cache[x] = IF q = 0 THEN None ELSE h[q].head
      BY <1>1 DEF Matches
    <3>3. q # 0 => q \in 1..Len(h)
      BY <1>1, PlaceIs
    <3> QED BY <1>6, <1>7, <2>2, <3>1, <3>2, <3>3
  <2> QED BY <2>1, <2>2
<1>9. Grown(h, f)
  <2>1. Len(h) \in Nat /\ Len(h) <= Len(f)
    BY <1>1, <1>6
  <2> QED BY <1>6, <2>1 DEF Grown
<1> QED BY <1>2, <1>3, <1>6, <1>7, <1>8, <1>9 DEF ChangedTo, h

\* A key that has no record is removed from the cache, which has no head for it.
LEMMA NoRecord ==
  ASSUME Inv, NEW s \in Stores, NEW k \in Keys, rw[s].open, rw[s].index[k] = 0,
         file' = file, rw' = [rw EXCEPT ![s].cache[k] = None]
  PROVE  \E f, t : ChangedTo(s, k, None, f, t)
<1>1. /\ file[s] \in Seq(Records) /\ OneEach(file[s]) /\ Matches(rw[s], file[s])
      /\ rw[s] \in Tables
  BY InvMatches, OpenMatches DEF Inv, Types
<1>2. rw[s].cache[k] = None
  BY <1>1 DEF Matches
<1>3. rw[s].cache = [rw[s].cache EXCEPT ![k] = None]
  BY <1>1, <1>2 DEF Tables, Heads
<1>4. file' = [file EXCEPT ![s] = file[s]] /\ rw' = [rw EXCEPT ![s] = rw[s]]
  BY <1>1, <1>2 DEF Inv, Types, Tables, Heads
<1>5. Grown(file[s], file[s])
  BY <1>1 DEF Grown
<1> QED BY <1>1, <1>3, <1>4, <1>5 DEF ChangedTo

LEMMA ChangedIs ==
  ASSUME Inv, NEW s \in Stores, NEW k \in Keys, NEW v \in Held, rw[s].open,
         Changed(s, k, v)
  PROVE  \E f, t : ChangedTo(s, k, v, f, t)
<1>1. CASE v # None
  BY <1>1, InPlace, AtEnd DEF Changed, Written
<1>2. CASE v = None
  BY <1>2, InPlace, NoRecord DEF Changed, Erased
<1> QED BY <1>1, <1>2

\* A change keeps the invariant and gives the key its head, and no other.
LEMMA ChangeKeeps ==
  ASSUME Inv, NEW s \in Stores, NEW k \in Keys, NEW v \in Held, rw[s].open,
         Changed(s, k, v)
  PROVE  /\ Inv'
         /\ \A u \in Stores, x \in Keys :
              FileHead(u, x)' = IF u = s /\ x = k THEN v ELSE FileHead(u, x)
<1>1. PICK f, t : ChangedTo(s, k, v, f, t)
  BY ChangedIs
<1>2. Inv'
  BY <1>1, OneStore DEF ChangedTo
<1>3. file'[s] = f /\ \A u \in Stores \ {s} : file'[u] = file[u]
  BY <1>1 DEF ChangedTo, Inv, Types
<1>4. ASSUME NEW u \in Stores, NEW x \in Keys
      PROVE  FileHead(u, x)' = IF u = s /\ x = k THEN v ELSE FileHead(u, x)
  <2>1. CASE u # s
    BY <1>3, <2>1 DEF FileHead
  <2>2. CASE u = s
    <3>1. FileHead(u, x)' = t.cache[x]
      BY <1>1, <1>3, <2>2 DEF FileHead, ChangedTo, Matches
    <3>2. t.cache[x] = IF x = k THEN v ELSE rw[s].cache[x]
      BY <1>1 DEF ChangedTo, Inv, Types, Tables, Heads
    <3>3. rw[s].cache[x] = FileHead(s, x)
      BY DEF Inv, FileMatchesTable
    <3> QED BY <2>2, <3>1, <3>2, <3>3
  <2> QED BY <2>1, <2>2
<1> QED BY <1>2, <1>4

\* The tables that refill builds from the whole file.
LEMMA OpenKeeps ==
  ASSUME Inv, NEW s \in Stores, Open(s)
  PROVE  Inv' /\ file' = file
<1> DEFINE t == [open |-> TRUE,
                 cache |-> RefilledCache(file[s], 0, Nothing),
                 index |-> RefilledIndex(file[s], 0, Nowhere)]
<1>1. file[s] \in Seq(Records) /\ OneEach(file[s])
  BY InvMatches DEF Inv
<1>2. \A k \in Keys : PlaceAfter(file[s], 0, k) = 0 \/
                      PlaceAfter(file[s], 0, k) \in 1..Len(file[s])
  BY <1>1, PlaceIs
<1>3. t \in Tables
  <2>1. ASSUME NEW i \in 1..Len(file[s]) PROVE file[s][i].head \in Held
    <3>1. file[s][i] \in Records
      BY <1>1
    <3> QED BY <3>1 DEF Records
  <2>2. RefilledCache(file[s], 0, Nothing) \in Heads
    BY <1>2, <2>1 DEF RefilledCache, Nothing, Heads, Held
  <2>3. RefilledIndex(file[s], 0, Nowhere) \in [Keys -> Nat]
    BY <1>1, <1>2 DEF RefilledIndex, Nowhere
  <2> QED BY <2>2, <2>3 DEF Tables
<1>4. Matches(t, file[s])
  <2> SUFFICES ASSUME NEW k \in Keys
               PROVE  LET p == PlaceAfter(file[s], 0, k)
                      IN t.index[k] = p /\ t.cache[k] = IF p = 0 THEN None ELSE file[s][p].head
    BY DEF Matches
  <2>1. t.index[k] = PlaceAfter(file[s], 0, k)
    BY DEF RefilledIndex, Nowhere
  <2>2. t.cache[k] = LET p == PlaceAfter(file[s], 0, k)
                     IN IF p = 0 THEN None ELSE file[s][p].head
    BY DEF RefilledCache, Nothing
  <2> QED BY <2>1, <2>2
<1>5. rw' = [rw EXCEPT ![s] = t] /\ file' = file
  BY DEF Open
<1>6. file' = [file EXCEPT ![s] = file[s]]
  BY <1>5 DEF Inv, Types
<1> HIDE DEF t
<1>7. Inv'
  BY <1>1, <1>3, <1>4, <1>5, <1>6, OneStore
<1> QED BY <1>5, <1>7

\* A step that leaves the file alone and the tables of each store, or closes it.
Quiet ==
  /\ file' = file /\ rw' \in [Stores -> Tables]
  /\ \A s \in Stores : rw'[s] = rw[s] \/ ~rw'[s].open

LEMMA QuietKeeps == ASSUME Inv, Quiet PROVE Inv'
<1>1. Types'
  BY DEF Inv, Types, Quiet
<1>2. OneRecordPerKey'
  BY DEF Inv, OneRecordPerKey, Quiet
<1>3. FileMatchesTable'
  BY DEF Inv, FileMatchesTable, Quiet, FileHead
<1> QED BY <1>1, <1>2, <1>3 DEF Inv

LEMMA QuietHeads ==
  ASSUME file' = file
  PROVE  \A s \in Stores, k \in Keys : FileHead(s, k)' = FileHead(s, k)
BY DEF FileHead

LEMMA ClosedIsTable == Closed \in Tables /\ ~Closed.open
BY DEF Closed, Tables, Heads, Held, Nothing, Nowhere

LEMMA StayIsQuiet == ASSUME Inv, UNCHANGED <<file, rw>> PROVE Quiet
BY DEF Quiet, Inv, Types

\* The kinds of steps, for the file and the tables of the process that writes.
LEMMA StepKinds ==
  ASSUME Inv, Next
  PROVE  \/ Quiet /\ answer' = None
         \/ \E s \in Stores : Open(s)
         \/ \E s \in Stores, k \in Keys, v \in Held : Set(s, k, v)
         \/ \E s \in Stores, k \in Keys, t, v \in Held : TestAndSet(s, k, t, v)
<1>1. ASSUME NEW s \in Stores, Close(s) PROVE Quiet /\ answer' = None
  <2>1. file' = file /\ rw' = [rw EXCEPT ![s] = Closed] /\ answer' = None
    BY <1>1 DEF Close, NoAnswer
  <2> QED BY <2>1, ClosedIsTable DEF Quiet, Inv, Types
<1>2. ASSUME Die PROVE Quiet /\ answer' = None
  BY <1>2, ClosedIsTable DEF Die, NoAnswer, Quiet
<1>3. ASSUME NEW s \in Stores, RoOpen(s) \/ RoFind(s) \/ RoClose(s)
      PROVE  Quiet /\ answer' = None
  BY <1>3, StayIsQuiet DEF RoOpen, RoFind, RoClose, NoAnswer
<1>4. ASSUME NEW s \in Stores, NEW ks, NEW glob, WatchHeads(s, ks, glob)
      PROVE  Quiet /\ answer' = None
  BY <1>4, StayIsQuiet DEF WatchHeads, NoAnswer, storeVars
<1>5. ASSUME (\E r \in Registrations : Unwatch(r)) \/ Run
      PROVE  Quiet /\ answer' = None
  BY <1>5, StayIsQuiet DEF Unwatch, Run, NoAnswer, storeVars
<1> QED BY <1>1, <1>2, <1>3, <1>4, <1>5 DEF Next
-----------------------------------------------------------------------------
(* The invariant. *)

LEMMA InvInit == Init => Inv
<1> SUFFICES ASSUME Init PROVE Inv
  OBVIOUS
<1>1. file \in [Stores -> Seq(Records)] /\ \A s \in Stores : file[s] = << >>
  BY DEF Init
<1>2. rw \in [Stores -> Tables] /\ \A s \in Stores : ~rw[s].open
  BY ClosedIsTable DEF Init
<1> QED BY <1>1, <1>2 DEF Inv, Types, OneRecordPerKey, FileMatchesTable

LEMMA InvNext == Inv /\ [Next]_vars => Inv'
<1> SUFFICES ASSUME Inv, [Next]_vars PROVE Inv'
  OBVIOUS
<1>1. CASE UNCHANGED vars
  BY <1>1, StayIsQuiet, QuietKeeps DEF vars, storeVars
<1>2. CASE Quiet
  BY <1>2, QuietKeeps
<1>3. ASSUME NEW s \in Stores, Open(s) PROVE Inv'
  BY <1>3, OpenKeeps
<1>4. ASSUME NEW s \in Stores, NEW k \in Keys, NEW v \in Held, Set(s, k, v) PROVE Inv'
  BY <1>4, ChangeKeeps DEF Set
<1>5. ASSUME NEW s \in Stores, NEW k \in Keys, NEW t \in Held, NEW v \in Held,
             TestAndSet(s, k, t, v)
      PROVE  Inv'
  <2>1. CASE rw[s].cache[k] = t
    BY <1>5, <2>1, ChangeKeeps DEF TestAndSet
  <2>2. CASE rw[s].cache[k] # t
    BY <1>5, <2>2, StayIsQuiet, QuietKeeps DEF TestAndSet
  <2> QED BY <2>1, <2>2
<1> QED BY <1>1, <1>2, <1>3, <1>4, <1>5, StepKinds

LEMMA SpecInv == Spec => []Inv
BY InvInit, InvNext, PTL DEF Spec

\* In every reachable state a branch file has one record for each key, however
\* many stores the process has and however the heads change (atomic_write.ml
\* unsafe_set, unsafe_remove, refill).
THEOREM OneRecord == Spec => []OneRecordPerKey
<1>1. Inv => OneRecordPerKey
  BY DEF Inv
<1> QED BY <1>1, SpecInv, PTL

\* In every reachable state the tables of a store that is open say what its file
\* says, so that a death loses nothing that find answered (atomic_write.ml v,
\* refill, unsafe_set, unsafe_remove).
THEOREM TablesAreTheFile == Spec => []FileMatchesTable
<1>1. Inv => FileMatchesTable
  BY DEF Inv
<1> QED BY <1>1, SpecInv, PTL
-----------------------------------------------------------------------------
(* The stores are an atomic map. *)

\* The heads of all branches, as the atomic map has them.
Branches == [p \in Stores \X Keys |-> FileHead(p[1], p[2])]

LEMMA MapSet ==
  ASSUME NEW s \in Stores, NEW k \in Keys, NEW v \in Held,
         \A u \in Stores, x \in Keys :
           FileHead(u, x)' = IF u = s /\ x = k THEN v ELSE FileHead(u, x)
  PROVE  Branches' = [Branches EXCEPT ![<<s, k>>] = v]
<1>1. ASSUME NEW p \in Stores \X Keys
      PROVE  Branches'[p] = [Branches EXCEPT ![<<s, k>>] = v][p]
  <2>1. PICK u \in Stores, x \in Keys : p = <<u, x>>
    OBVIOUS
  <2>2. Branches'[p] = FileHead(u, x)' /\ Branches[p] = FileHead(u, x)
    BY <2>1 DEF Branches
  <2>3. p = <<s, k>> <=> u = s /\ x = k
    BY <2>1
  <2>4. [Branches EXCEPT ![<<s, k>>] = v][p] = IF p = <<s, k>> THEN v ELSE Branches[p]
    BY DEF Branches
  <2> QED BY <2>2, <2>3, <2>4
<1> QED BY <1>1 DEF Branches

LEMMA MapChange ==
  ASSUME Inv, NEW s \in Stores, NEW k \in Keys, NEW v \in Held, rw[s].open,
         Changed(s, k, v)
  PROVE  Branches' = [Branches EXCEPT ![<<s, k>>] = v]
<1>1. \A u \in Stores, x \in Keys :
        FileHead(u, x)' = IF u = s /\ x = k THEN v ELSE FileHead(u, x)
  BY ChangeKeeps
<1> QED BY <1>1, MapSet

LEMMA MapStay ==
  ASSUME \A u \in Stores, x \in Keys : FileHead(u, x)' = FileHead(u, x)
  PROVE  Branches' = Branches
<1> SUFFICES ASSUME NEW p \in Stores \X Keys
             PROVE  FileHead(p[1], p[2])' = FileHead(p[1], p[2])
  BY DEF Branches
<1> QED OBVIOUS

LEMMA MapInit == Init => Map!Init
<1> SUFFICES ASSUME Init PROVE Map!Init
  OBVIOUS
<1>1. \A s \in Stores, k \in Keys : FileHead(s, k) = None
  <2>1. \A s \in Stores : file[s] = << >>
    BY DEF Init
  <2> QED BY <2>1 DEF FileHead, PlaceAfter
<1>2. answer = None
  BY DEF Init
<1>3. \A p \in Stores \X Keys : FileHead(p[1], p[2]) = None
  BY <1>1
<1> QED BY <1>2, <1>3 DEF Map!Init

LEMMA MapNext == Inv /\ [Next]_vars => [Map!Next]_(Map!vars)
<1> SUFFICES ASSUME Inv, [Next]_vars PROVE Map!Next \/ UNCHANGED Map!vars
  OBVIOUS
<1>1. CASE UNCHANGED vars
  <2>1. Branches' = Branches /\ answer' = answer
    BY <1>1, QuietHeads, MapStay DEF vars, storeVars
  <2> QED BY <2>1 DEF Map!vars, Branches
<1>2. ASSUME file' = file, answer' = None PROVE Map!Next
  <2>1. Branches' = Branches
    BY <1>2, QuietHeads, MapStay
  <2> QED BY <1>2, <2>1 DEF Map!Next, Map!Read, Branches
<1>3. ASSUME NEW s \in Stores, NEW k \in Keys, NEW v \in Held, Set(s, k, v)
      PROVE  Map!Next
  <2>1. rw[s].open /\ Changed(s, k, v) /\ answer' = None
    BY <1>3 DEF Set, NoAnswer
  <2>2. Branches' = [Branches EXCEPT ![<<s, k>>] = v]
    BY <2>1, MapChange
  <2>3. Map!Set(<<s, k>>, v) /\ <<s, k>> \in Stores \X Keys /\ v \in Map!Held
    BY <2>1, <2>2 DEF Map!Set, Map!Held, Held, Branches
  <2> QED BY <2>3 DEF Map!Next
<1>4. ASSUME NEW s \in Stores, NEW k \in Keys, NEW t \in Held, NEW v \in Held,
             TestAndSet(s, k, t, v)
      PROVE  Map!Next
  <2>1. answer' = [key |-> <<s, k>>, test |-> t, set |-> v, ok |-> rw[s].cache[k] = t]
    BY <1>4 DEF TestAndSet
  <2>2. rw[s].cache[k] = FileHead(s, k) /\ Branches[<<s, k>>] = FileHead(s, k)
    BY <1>4 DEF TestAndSet, Inv, FileMatchesTable, Branches
  <2>3. Branches' = IF Branches[<<s, k>>] = t THEN [Branches EXCEPT ![<<s, k>>] = v] ELSE Branches
    <3>1. CASE rw[s].cache[k] = t
      <4>1. Changed(s, k, v) /\ rw[s].open
        BY <1>4, <3>1 DEF TestAndSet
      <4>2. Branches' = [Branches EXCEPT ![<<s, k>>] = v]
        BY <4>1, MapChange
      <4> QED BY <2>2, <3>1, <4>2
    <3>2. CASE rw[s].cache[k] # t
      <4>1. file' = file
        BY <1>4, <3>2 DEF TestAndSet
      <4>2. Branches' = Branches
        BY <4>1, QuietHeads, MapStay
      <4> QED BY <2>2, <3>2, <4>2
    <3> QED BY <3>1, <3>2
  <2>4. Map!TestAndSet(<<s, k>>, t, v) /\ <<s, k>> \in Stores \X Keys
        /\ t \in Map!Held /\ v \in Map!Held
    BY <2>1, <2>2, <2>3 DEF Map!TestAndSet, Map!Held, Held, Branches
  <2> QED BY <2>4 DEF Map!Next
<1>5. ASSUME NEW s \in Stores, Open(s) PROVE Map!Next
  BY <1>2, <1>5 DEF Open, NoAnswer
<1>6. ASSUME Quiet, answer' = None PROVE Map!Next
  BY <1>2, <1>6 DEF Quiet
<1> QED BY <1>1, <1>3, <1>4, <1>5, <1>6, StepKinds

\* Every behaviour of the stores is one of the atomic map whose heads are those
\* of the files: set, remove and test_and_set take effect in one step, a
\* test_and_set that answers no changes nothing, and opening, closing and dying
\* lose nothing (atomic_write_intf.ml test_and_set).
THEOREM StoresAreMap == Spec => MapSpec
<1>1. Spec => []Inv /\ Init /\ [][Next]_vars
  BY SpecInv DEF Spec
<1> QED BY <1>1, MapInit, MapNext, PTL DEF MapSpec, Map!Spec
-----------------------------------------------------------------------------
(* The reader. *)

\* p is the place of k among the first n records, or 0.
IsPlace(p, f, n, k) ==
  \/ p = 0 /\ \A i \in 1..n : f[i].key # k
  \/ p \in 1..n /\ f[p].key = k

LEMMA PrefixPlace ==
  ASSUME NEW f \in Seq(Records), OneEach(f), NEW n \in 0..Len(f), NEW k, NEW p
  PROVE  p = PlaceAfter(SubSeq(f, 1, n), 0, k) <=> IsPlace(p, f, n, k)
<1> DEFINE g == SubSeq(f, 1, n)
<1>1. Len(f) \in Nat /\ n \in Nat /\ n <= Len(f)
  OBVIOUS
<1>2. /\ g \in Seq(Records) /\ Len(g) = n
      /\ \A i \in 1..n : g[i] = f[i]
  BY <1>1
<1> HIDE DEF g
<1>3. OneEach(g)
  BY <1>1, <1>2 DEF OneEach
<1>4. IsPlace(PlaceAfter(g, 0, k), f, n, k)
  BY <1>2, <1>3, PlaceIs DEF IsPlace
<1>5. ASSUME IsPlace(p, f, n, k) PROVE p = PlaceAfter(g, 0, k)
  BY <1>1, <1>4, <1>5 DEF IsPlace, OneEach
<1> QED BY <1>4, <1>5 DEF g

\* The place of a key among the records after the first n.
LEMMA PlaceAfterIs ==
  ASSUME NEW f \in Seq(Records), OneEach(f), NEW n \in 0..Len(f), NEW k
  PROVE  LET p == PlaceAfter(f, n, k)
         IN \/ p = 0 /\ \A i \in n + 1..Len(f) : f[i].key # k
            \/ p \in n + 1..Len(f) /\ f[p].key = k /\ p = PlaceAfter(f, 0, k)
<1> DEFINE places == {i \in n + 1..Len(f) : f[i].key = k}
<1>1. Len(f) \in Nat /\ n \in Nat
  OBVIOUS
<1>2. CASE places = {}
  BY <1>2 DEF PlaceAfter
<1>3. CASE places # {}
  <2>1. PICK i \in n + 1..Len(f) : f[i].key = k
    BY <1>3
  <2>2. i \in 1..Len(f)
    BY <1>1, <2>1
  <2>3. places = {i}
    BY <1>1, <2>1, <2>2 DEF OneEach
  <2>4. (CHOOSE j \in {i} : \A l \in {i} : l <= j) = i
    BY <2>2
  <2>5. PlaceAfter(f, n, k) = i
    BY <2>3, <2>4 DEF PlaceAfter
  <2>6. PlaceAfter(f, 0, k) = i
    BY <2>1, <2>2, PlaceFound
  <2> QED BY <2>1, <2>5, <2>6
<1> QED BY <1>2, <1>3

RoTables == [open : BOOLEAN, cache : Heads, index : [Keys -> Nat], size : Nat]

\* What the reader's tables of a store are, for its file and the heads it had.
Reads(r, f, h) ==
  /\ r.size <= Len(f)
  /\ \A k \in Keys : IsPlace(r.index[k], f, r.size, k) /\ r.cache[k] \in h[k]

ReaderInv ==
  /\ ro \in [Stores -> RoTables] /\ held \in [Stores -> [Keys -> SUBSET Held]]
  /\ \A s \in Stores : ro[s].open => Reads(ro[s], file[s], held[s])
  /\ \A s \in Stores, k \in Keys : None \in held[s][k] /\ FileHead(s, k) \in held[s][k]

LEMMA ReaderTablesHold == Inv /\ ReaderInv => ReaderTables
<1> SUFFICES ASSUME Inv, ReaderInv, NEW s \in Stores, ro[s].open
             PROVE  /\ ro[s].size <= Len(file[s])
                    /\ \A k \in Keys :
                         /\ ro[s].index[k] = PlaceAfter(SubSeq(file[s], 1, ro[s].size), 0, k)
                         /\ ro[s].cache[k] \in held[s][k]
  BY DEF ReaderTables
<1>1. file[s] \in Seq(Records) /\ OneEach(file[s])
  BY InvMatches DEF Inv
<1>2. ro[s].size \in 0..Len(file[s])
  BY <1>1 DEF ReaderInv, Reads, RoTables
<1> QED BY <1>1, <1>2, PrefixPlace DEF ReaderInv, Reads

\* The tables after a refill from the n-th record on.
LEMMA Refilled ==
  ASSUME NEW f \in Seq(Records), OneEach(f), NEW n \in 0..Len(f),
         NEW cache \in Heads, NEW index \in [Keys -> Nat],
         NEW h \in [Keys -> SUBSET Held],
         \A k \in Keys : IsPlace(index[k], f, n, k) /\ cache[k] \in h[k],
         \A i \in 1..Len(f) : f[i].head \in h[f[i].key]
  PROVE  LET c == RefilledCache(f, n, cache)
             x == RefilledIndex(f, n, index)
         IN /\ c \in Heads /\ x \in [Keys -> Nat]
            /\ \A r : r.cache = c /\ r.index = x /\ r.size = Len(f) => Reads(r, f, h)
<1> DEFINE c == RefilledCache(f, n, cache)
           x == RefilledIndex(f, n, index)
<1>1. Len(f) \in Nat /\ n \in Nat /\ n <= Len(f)
  OBVIOUS
<1>2. ASSUME NEW k \in Keys PROVE c[k] \in Held /\ c[k] \in h[k]
  <2> DEFINE p == PlaceAfter(f, n, k)
  <2>1. c[k] = IF p = 0 \/ f[p].head = None THEN cache[k] ELSE f[p].head
    BY DEF RefilledCache
  <2>2. p = 0 \/ (p \in 1..Len(f) /\ f[p].key = k)
    BY <1>1, PlaceAfterIs
  <2> HIDE DEF p
  <2>3. p # 0 => f[p].head \in h[k]
    BY <2>2
  <2>4. h[k] \subseteq Held
    OBVIOUS
  <2> QED BY <2>1, <2>3, <2>4
<1>3. ASSUME NEW k \in Keys PROVE x[k] \in Nat /\ IsPlace(x[k], f, Len(f), k)
  <2> DEFINE p == PlaceAfter(f, n, k)
  <2>1. x[k] = IF p = 0 THEN index[k] ELSE p
    BY DEF RefilledIndex
  <2>2. \/ p = 0 /\ \A i \in n + 1..Len(f) : f[i].key # k
        \/ p \in n + 1..Len(f) /\ f[p].key = k
    BY PlaceAfterIs
  <2> HIDE DEF p
  <2>3. IsPlace(index[k], f, n, k) /\ index[k] \in Nat
    OBVIOUS
  <2>4. CASE p = 0
    <3>1. \A i \in 1..Len(f) : i \in 1..n \/ i \in n + 1..Len(f)
      BY <1>1
    <3>2. 1..n \subseteq 1..Len(f)
      BY <1>1
    <3>3. \A i \in n + 1..Len(f) : f[i].key # k
      BY <1>1, <2>2, <2>4
    <3> QED BY <2>1, <2>3, <2>4, <3>1, <3>2, <3>3 DEF IsPlace
  <2>5. CASE p # 0
    BY <1>1, <2>1, <2>2, <2>5 DEF IsPlace
  <2> QED BY <2>4, <2>5
<1>4. c \in Heads /\ x \in [Keys -> Nat]
  BY <1>2, <1>3 DEF RefilledCache, RefilledIndex, Heads
<1> HIDE DEF c, x
<1>5. \A r : r.cache = c /\ r.index = x /\ r.size = Len(f) => Reads(r, f, h)
  BY <1>1, <1>2, <1>3 DEF Reads
<1> QED BY <1>4, <1>5 DEF c, x

\* The heads in a file are those that its keys had.
LEMMA HeadsHeld ==
  ASSUME Inv, ReaderInv, NEW s \in Stores
  PROVE  \A i \in 1..Len(file[s]) : file[s][i].head \in held[s][file[s][i].key]
<1> SUFFICES ASSUME NEW i \in 1..Len(file[s])
             PROVE  file[s][i].head \in held[s][file[s][i].key]
  OBVIOUS
<1> DEFINE k == file[s][i].key
<1>1. file[s] \in Seq(Records) /\ OneEach(file[s])
  BY InvMatches DEF Inv
<1>2. k \in Keys
  <2>1. file[s][i] \in Records
    BY <1>1
  <2> QED BY <2>1 DEF Records
<1>3. PlaceAfter(file[s], 0, k) = i
  BY <1>1, PlaceFound
<1>4. i # 0
  BY <1>1
<1>5. FileHead(s, k) = file[s][i].head
  BY <1>3, <1>4 DEF FileHead
<1> QED BY <1>2, <1>5 DEF ReaderInv

\* Reading stays right as a file grows and its heads join those it had.
LEMMA ReadsKept ==
  ASSUME NEW f \in Seq(Records), NEW g \in Seq(Records), Grown(f, g),
         NEW h, NEW i, \A k \in Keys : h[k] \subseteq i[k],
         NEW r \in RoTables, Reads(r, f, h)
  PROVE  Reads(r, g, i)
<1>1. /\ Len(f) \in Nat /\ Len(g) \in Nat /\ r.size \in Nat
      /\ r.size <= Len(f) /\ Len(f) <= Len(g)
  BY DEF Grown, Reads, RoTables
<1>2. \A j \in 1..r.size : g[j].key = f[j].key
  BY <1>1 DEF Grown
<1>3. ASSUME NEW k \in Keys PROVE IsPlace(r.index[k], g, r.size, k)
  BY <1>2 DEF Reads, IsPlace
<1> QED BY <1>1, <1>3 DEF Reads

LEMMA ReaderChange ==
  ASSUME Inv, ReaderInv, NEW s \in Stores, NEW k \in Keys, NEW v \in Held, rw[s].open,
         Changed(s, k, v), ro' = ro
  PROVE  ReaderInv'
<1>1. PICK f, t : ChangedTo(s, k, v, f, t)
  BY ChangedIs
<1>2. /\ file'[s] = f /\ \A u \in Stores \ {s} : file'[u] = file[u]
      /\ f \in Seq(Records) /\ Grown(file[s], f) /\ file[s] \in Seq(Records)
  BY <1>1 DEF ChangedTo, Inv, Types
<1>3. held' = [held EXCEPT ![s][k] = @ \cup {v}]
  BY DEF Changed
<1>4. held' \in [Stores -> [Keys -> SUBSET Held]]
  BY <1>3 DEF ReaderInv
<1>5. \A u \in Stores, x \in Keys :
        held'[u][x] = IF u = s /\ x = k THEN held[u][x] \cup {v} ELSE held[u][x]
  BY <1>3 DEF ReaderInv
<1>6. ASSUME NEW u \in Stores, ro[u].open PROVE Reads(ro[u], file'[u], held'[u])
  <2>1. Reads(ro[u], file[u], held[u]) /\ ro[u] \in RoTables
    BY <1>6 DEF ReaderInv
  <2>2. \A x \in Keys : held[u][x] \subseteq held'[u][x]
    BY <1>5
  <2>3. CASE u = s
    BY <1>2, <2>1, <2>2, <2>3, ReadsKept
  <2>4. CASE u # s
    BY <1>2, <2>1, <2>2, <2>4 DEF Reads
  <2> QED BY <2>3, <2>4
<1>7. \A u \in Stores, x \in Keys : None \in held'[u][x] /\ FileHead(u, x)' \in held'[u][x]
  <2>1. \A u \in Stores, x \in Keys :
          FileHead(u, x)' = IF u = s /\ x = k THEN v ELSE FileHead(u, x)
    BY ChangeKeeps
  <2> QED BY <1>5, <2>1 DEF ReaderInv
<1> QED BY <1>4, <1>6, <1>7 DEF ReaderInv

\* A step that leaves files and heads alone, and the reader's tables but those
\* of s.
LEMMA ReaderStep ==
  ASSUME ReaderInv, file' = file, held' = held, NEW s \in Stores,
         NEW r \in RoTables, ro' = [ro EXCEPT ![s] = r],
         r.open => Reads(r, file[s], held[s])
  PROVE  ReaderInv'
<1>1. ro' \in [Stores -> RoTables]
  BY DEF ReaderInv
<1>2. \A u \in Stores : ro'[u] = IF u = s THEN r ELSE ro[u]
  BY DEF ReaderInv
<1>3. \A u \in Stores : ro'[u].open => Reads(ro'[u], file'[u], held'[u])
  BY <1>2 DEF ReaderInv
<1>4. \A u \in Stores, k \in Keys : FileHead(u, k)' = FileHead(u, k)
  BY QuietHeads
<1> QED BY <1>1, <1>3, <1>4 DEF ReaderInv

LEMMA ReaderStays ==
  ASSUME ReaderInv, file' = file, held' = held, ro' = ro
  PROVE  ReaderInv'
<1>1. \A u \in Stores, k \in Keys : FileHead(u, k)' = FileHead(u, k)
  BY QuietHeads
<1> QED BY <1>1 DEF ReaderInv

LEMMA ReaderInit == Init => ReaderInv
<1> SUFFICES ASSUME Init PROVE ReaderInv
  OBVIOUS
<1>1. RoClosed \in RoTables /\ ~RoClosed.open
  BY DEF RoClosed, RoTables, Heads, Held, Nothing, Nowhere
<1>2. ro \in [Stores -> RoTables] /\ \A s \in Stores : ~ro[s].open
  BY <1>1 DEF Init
<1>3. \A s \in Stores, k \in Keys : FileHead(s, k) = None
  <2>1. \A s \in Stores : file[s] = << >>
    BY DEF Init
  <2> QED BY <2>1 DEF FileHead, PlaceAfter
<1>4. /\ held \in [Stores -> [Keys -> SUBSET Held]]
      /\ \A s \in Stores, k \in Keys : held[s][k] = {None}
  BY DEF Init, Held
<1> QED BY <1>2, <1>3, <1>4 DEF ReaderInv

LEMMA ReaderNext == Inv /\ ReaderInv /\ [Next]_vars => ReaderInv'
<1> SUFFICES ASSUME Inv, ReaderInv, [Next]_vars PROVE ReaderInv'
  OBVIOUS
<1>1. CASE UNCHANGED vars
  BY <1>1, ReaderStays DEF vars, storeVars
<1>2. ASSUME NEW s \in Stores, Open(s) \/ Close(s) PROVE ReaderInv'
  BY <1>2, ReaderStays DEF Open, Close
<1>3. CASE Die
  BY <1>3, ReaderStays DEF Die
<1>4. ASSUME NEW s \in Stores, RoOpen(s) PROVE ReaderInv'
  <2> DEFINE f == file[s]
             c == RefilledCache(f, 0, Nothing)
             x == RefilledIndex(f, 0, Nowhere)
             r == [open |-> TRUE, cache |-> c, index |-> x, size |-> Len(f)]
  <2>1. f \in Seq(Records) /\ OneEach(f) /\ held[s] \in [Keys -> SUBSET Held]
    BY InvMatches DEF Inv, ReaderInv
  <2>2. \A i \in 1..Len(f) : f[i].head \in held[s][f[i].key]
    BY HeadsHeld
  <2>3. Nothing \in Heads /\ Nowhere \in [Keys -> Nat] /\ 0 \in 0..Len(f)
    BY <2>1 DEF Nothing, Nowhere, Heads, Held
  <2>4. \A k \in Keys : IsPlace(Nowhere[k], f, 0, k) /\ Nothing[k] \in held[s][k]
    BY DEF IsPlace, Nowhere, Nothing, ReaderInv
  <2>5. ro' = [ro EXCEPT ![s] = r] /\ file' = file /\ held' = held
    BY <1>4 DEF RoOpen
  <2> HIDE DEF f
  <2>6. /\ c \in Heads /\ x \in [Keys -> Nat] /\ Len(f) \in Nat
        /\ \A q : q.cache = c /\ q.index = x /\ q.size = Len(f) => Reads(q, f, held[s])
    <3> DEFINE h == held[s]
    <3>1. h \in [Keys -> SUBSET Held] /\ Len(f) \in Nat
      BY <2>1
    <3> HIDE DEF h
    <3>2. /\ c \in Heads /\ x \in [Keys -> Nat]
          /\ \A q : q.cache = c /\ q.index = x /\ q.size = Len(f) => Reads(q, f, h)
      BY <3>1, <2>1, <2>2, <2>3, <2>4, Refilled DEF h
    <3> QED BY <3>1, <3>2 DEF h
  <2> HIDE DEF c, x
  <2>7. r \in RoTables /\ Reads(r, f, held[s])
    BY <2>6 DEF RoTables
  <2> HIDE DEF r
  <2> QED BY <2>5, <2>7, ReaderStep DEF f
<1>5. ASSUME NEW s \in Stores, RoFind(s) PROVE ReaderInv'
  <2> DEFINE f == file[s]
             n == ro[s].size
             c == RefilledCache(f, n, ro[s].cache)
             x == RefilledIndex(f, n, ro[s].index)
             r == [ro[s] EXCEPT !.cache = c, !.index = x, !.size = Len(f)]
  <2>1. f \in Seq(Records) /\ OneEach(f) /\ held[s] \in [Keys -> SUBSET Held]
    BY InvMatches DEF Inv, ReaderInv
  <2>2. \A i \in 1..Len(f) : f[i].head \in held[s][f[i].key]
    BY HeadsHeld
  <2>3. ro[s] \in RoTables /\ ro[s].open /\ Reads(ro[s], f, held[s])
    BY <1>5 DEF RoFind, ReaderInv
  <2>4. /\ ro[s].cache \in Heads /\ ro[s].index \in [Keys -> Nat] /\ n \in 0..Len(f)
        /\ \A k \in Keys : IsPlace(ro[s].index[k], f, n, k) /\ ro[s].cache[k] \in held[s][k]
    BY <2>1, <2>3 DEF RoTables, Reads
  <2>5. ro' = [ro EXCEPT ![s] = r] /\ file' = file /\ held' = held
    BY <1>5 DEF RoFind, ReaderInv
  <2> HIDE DEF f, n
  <2>6. /\ c \in Heads /\ x \in [Keys -> Nat] /\ Len(f) \in Nat
        /\ \A q : q.cache = c /\ q.index = x /\ q.size = Len(f) => Reads(q, f, held[s])
    <3> DEFINE h == held[s]
    <3>1. h \in [Keys -> SUBSET Held] /\ Len(f) \in Nat
      BY <2>1
    <3> HIDE DEF h
    <3>2. /\ c \in Heads /\ x \in [Keys -> Nat]
          /\ \A q : q.cache = c /\ q.index = x /\ q.size = Len(f) => Reads(q, f, h)
      BY <3>1, <2>1, <2>2, <2>4, Refilled DEF h
    <3> QED BY <3>1, <3>2 DEF h
  <2> HIDE DEF c, x
  <2>7. r \in RoTables /\ r.cache = c /\ r.index = x /\ r.size = Len(f)
    BY <2>3, <2>6 DEF RoTables
  <2>8. Reads(r, f, held[s])
    BY <2>6, <2>7
  <2> HIDE DEF r
  <2> QED BY <2>5, <2>7, <2>8, ReaderStep DEF f
<1>6. ASSUME NEW s \in Stores, RoClose(s) PROVE ReaderInv'
  <2>1. RoClosed \in RoTables /\ ~RoClosed.open
    BY DEF RoClosed, RoTables, Heads, Held, Nothing, Nowhere
  <2>2. ro' = [ro EXCEPT ![s] = RoClosed] /\ file' = file /\ held' = held
    BY <1>6 DEF RoClose
  <2> QED BY <2>1, <2>2, ReaderStep
<1>7. ASSUME NEW s \in Stores, NEW k \in Keys, NEW v \in Held, Set(s, k, v)
      PROVE  ReaderInv'
  BY <1>7, ReaderChange DEF Set
<1>8. ASSUME NEW s \in Stores, NEW k \in Keys, NEW t \in Held, NEW v \in Held,
             TestAndSet(s, k, t, v)
      PROVE  ReaderInv'
  <2>1. CASE rw[s].cache[k] = t
    BY <1>8, <2>1, ReaderChange DEF TestAndSet
  <2>2. CASE rw[s].cache[k] # t
    BY <1>8, <2>2, ReaderStays DEF TestAndSet
  <2> QED BY <2>1, <2>2
<1>9. ASSUME NEW s \in Stores, NEW ks, NEW glob, WatchHeads(s, ks, glob) PROVE ReaderInv'
  BY <1>9, ReaderStays DEF WatchHeads, storeVars
<1>10. ASSUME (\E r \in Registrations : Unwatch(r)) \/ Run PROVE ReaderInv'
  BY <1>10, ReaderStays DEF Unwatch, Run, storeVars
<1> QED BY <1>1, <1>2, <1>3, <1>4, <1>5, <1>6, <1>7, <1>8, <1>9, <1>10 DEF Next
-----------------------------------------------------------------------------
(* The watchers: types. *)

Streams == [jobs : Seq(SUBSET Calls), running : SUBSET Calls]

WatchTypes ==
  /\ handle \in Seq(Nat) /\ Len(handle) <= MaxWatches
  /\ next \in Nat /\ next <= Len(handle)
  /\ DOMAIN watchers \subseteq 0..next - 1
  /\ \A i \in DOMAIN watchers : watchers[i] \in Watchers
  /\ streams \in Seq(Streams)
  /\ pushes \in BOOLEAN /\ (pushes => streams # << >>)
  /\ given \in [Registrations -> BOOLEAN]
  /\ promised \in [Registrations -> Heads] /\ seen \in [Registrations -> Heads]

\* A watcher has the id of the handle of its registration, open or given back.
Ids == \A i \in DOMAIN watchers :
         watchers[i].reg \in Registrations /\ handle[watchers[i].reg] = i

\* What a step does to the watchers.
WatchStep ==
  \/ UNCHANGED watchVars
  \/ \E k \in Keys, v \in Held : Notify(k, v)
  \/ \E keys \in SUBSET Keys, glob \in BOOLEAN, init \in Heads : Registered(keys, glob, init)
  \/ \E r \in Registrations : Unwatched(r)
  \/ \E R : Cleared(R)
  \/ WatchGone
  \/ Deliver

LEMMA WatchKinds == ASSUME Inv, Next PROVE WatchStep
<1>1. ASSUME NEW s \in Stores, Open(s) \/ RoOpen(s) \/ RoFind(s) \/ RoClose(s)
      PROVE  WatchStep
  BY <1>1 DEF Open, RoOpen, RoFind, RoClose, WatchStep
<1>2. ASSUME NEW s \in Stores, Close(s) PROVE WatchStep
  <2>1. Cleared({r \in Registrations : storeOf[r] = s})
    BY <1>2 DEF Close
  <2> QED BY <2>1 DEF WatchStep
<1>3. ASSUME NEW s \in Stores, NEW k \in Keys, NEW v \in Held, Set(s, k, v)
      PROVE  WatchStep
  BY <1>3 DEF Set, Changed, WatchStep
<1>4. ASSUME NEW s \in Stores, NEW k \in Keys, NEW t \in Held, NEW v \in Held,
             TestAndSet(s, k, t, v)
      PROVE  WatchStep
  BY <1>4 DEF TestAndSet, Changed, WatchStep
<1>5. CASE Die
  BY <1>5 DEF Die, WatchStep
<1>6. ASSUME NEW s \in Stores, NEW ks \in SUBSET Keys, NEW glob \in BOOLEAN,
             WatchHeads(s, ks, glob)
      PROVE  WatchStep
  <2>1. Nothing \in Heads
    BY DEF Nothing, Heads, Held
  <2>2. rw[s] \in Tables
    BY DEF Inv, Types
  <2>3. [k \in Keys |-> IF k \in ks THEN rw[s].cache[k] ELSE None] \in Heads
    BY <2>2 DEF Tables, Heads, Held
  <2>4. \E init \in Heads : Registered(ks, glob, init)
    BY <1>6, <2>1, <2>3 DEF WatchHeads
  <2> QED BY <2>4 DEF WatchStep
<1>7. ASSUME NEW r \in Registrations, Unwatch(r) PROVE WatchStep
  BY <1>7 DEF Unwatch, WatchStep
<1>8. CASE Run
  BY <1>8 DEF Run, WatchStep
<1>9. Keys \in SUBSET Keys /\ TRUE \in BOOLEAN /\ FALSE \in BOOLEAN
      /\ \A k \in Keys : {k} \in SUBSET Keys
  OBVIOUS
<1> QED BY <1>1, <1>2, <1>3, <1>4, <1>5, <1>6, <1>7, <1>8, <1>9 DEF Next

LEMMA AppendFunction ==
  ASSUME NEW n \in Nat, NEW S, NEW f \in [1..n -> S], NEW x \in S
  PROVE  /\ Append(f, x) \in [1..n + 1 -> S] /\ Append(f, x)[n + 1] = x
         /\ \A i \in 1..n : Append(f, x)[i] = f[i]
<1>1. f \in Seq(S) /\ Len(f) = n
  BY SeqDef
<1>2. Append(f, x) \in Seq(S) /\ Len(Append(f, x)) = n + 1
  BY <1>1
<1>3. Append(f, x) \in [1..n + 1 -> S]
  BY <1>2, LenProperties
<1> QED BY <1>1, <1>3

\* The streams after jobs were queued: they go behind all others.
LEMMA TwoJobs ==
  ASSUME NEW A \in SUBSET Calls, NEW B \in SUBSET Calls
  PROVE  LET js == JobOf(A) \o JobOf(B)
         IN /\ js \in Seq(SUBSET Calls)
            /\ \A n \in 1..Len(js) : js[n] \in {A, B}
            /\ A # {} => \E n \in 1..Len(js) : js[n] = A
            /\ B # {} => \E n \in 1..Len(js) : js[n] = B
            /\ \A n, m \in 1..Len(js) : js[n] = js[m] => n = m \/ A = B
<1> DEFINE a == JobOf(A)
           b == JobOf(B)
           js == a \o b
<1>0. << >> \in Seq(SUBSET Calls) /\ <<A>> \in Seq(SUBSET Calls) /\ <<B>> \in Seq(SUBSET Calls)
  OBVIOUS
<1>1. a \in Seq(SUBSET Calls) /\ b \in Seq(SUBSET Calls)
  BY <1>0 DEF JobOf
<1>2. IF A = {} THEN Len(a) = 0 ELSE Len(a) = 1 /\ a[1] = A
  BY DEF JobOf
<1>3. IF B = {} THEN Len(b) = 0 ELSE Len(b) = 1 /\ b[1] = B
  BY DEF JobOf
<1> HIDE DEF a, b
<1>4. /\ js \in Seq(SUBSET Calls) /\ Len(js) = Len(a) + Len(b)
      /\ \A n \in 1..Len(js) : js[n] = IF n <= Len(a) THEN a[n] ELSE b[n - Len(a)]
  BY <1>1, ConcatProperties
<1> HIDE DEF js
<1>5. /\ \A n \in 1..Len(js) : js[n] \in {A, B}
      /\ A # {} => \E n \in 1..Len(js) : js[n] = A
      /\ B # {} => \E n \in 1..Len(js) : js[n] = B
      /\ \A n, m \in 1..Len(js) : js[n] = js[m] => n = m \/ A = B
  <2>1. CASE A = {} /\ B = {}
    BY <1>2, <1>3, <1>4, <2>1
  <2>2. CASE A = {} /\ B # {}
    BY <1>2, <1>3, <1>4, <2>2
  <2>3. CASE A # {} /\ B = {}
    BY <1>2, <1>3, <1>4, <2>3
  <2>4. CASE A # {} /\ B # {}
    BY <1>2, <1>3, <1>4, <2>4
  <2> QED BY <2>1, <2>2, <2>3, <2>4
<1> QED BY <1>4, <1>5 DEF a, b, js

\* The call that a change of the head of k to v is for a watcher.
CallTo(i, k, v) ==
  [reg |-> watchers[i].reg, key |-> k, old |-> watchers[i].known[k], new |-> v]

LEMMA JobsAre ==
  ASSUME WatchTypes, Ids, NEW k \in Keys, NEW v \in Held
  PROVE  LET js == Jobs(k, v)
         IN /\ js \in Seq(SUBSET Calls)
            /\ \A n \in 1..Len(js) : \A c \in js[n] : \E i \in Fired(k, v) : c = CallTo(i, k, v)
            /\ \A i \in Fired(k, v) : \E n \in 1..Len(js) : CallTo(i, k, v) \in js[n]
            /\ \A n, m \in 1..Len(js) : \A c : c \in js[n] /\ c \in js[m] => n = m
<1> DEFINE To(glob) == {CallTo(i, k, v) : i \in {j \in Fired(k, v) : watchers[j].glob = glob}}
           js == JobOf(To(TRUE)) \o JobOf(To(FALSE))
<1>1. Jobs(k, v) = js
  BY DEF Jobs, CallTo
<1>2. ASSUME NEW i \in Fired(k, v)
      PROVE  CallTo(i, k, v) \in Calls /\ watchers[i].glob \in BOOLEAN
  <2>1. watchers[i] \in Watchers
    BY DEF Fired, WatchTypes
  <2> QED BY <2>1 DEF Watchers, Calls, CallTo, Heads
<1>3. To(TRUE) \in SUBSET Calls /\ To(FALSE) \in SUBSET Calls
  BY <1>2
<1>4. ASSUME NEW c, c \in To(TRUE), c \in To(FALSE) PROVE FALSE
  <2>1. PICK i \in Fired(k, v) : watchers[i].glob = TRUE /\ c = CallTo(i, k, v)
    BY <1>4
  <2>2. PICK j \in Fired(k, v) : watchers[j].glob = FALSE /\ c = CallTo(j, k, v)
    BY <1>4
  <2>3. watchers[i].reg = watchers[j].reg
    BY <2>1, <2>2 DEF CallTo
  <2>4. i = j
    BY <2>3 DEF Ids, Fired
  <2> QED BY <2>1, <2>2, <2>4
<1>5. \A g \in BOOLEAN : \A c \in To(g) : \E i \in Fired(k, v) : c = CallTo(i, k, v)
  OBVIOUS
<1>6. \A i \in Fired(k, v) : CallTo(i, k, v) \in To(TRUE) \/ CallTo(i, k, v) \in To(FALSE)
  BY <1>2
<1> DEFINE A == To(TRUE)
           B == To(FALSE)
<1>7. /\ js = JobOf(A) \o JobOf(B) /\ A \in SUBSET Calls /\ B \in SUBSET Calls
      /\ \A c : ~(c \in A /\ c \in B)
      /\ \A c : c \in A \/ c \in B => \E i \in Fired(k, v) : c = CallTo(i, k, v)
      /\ \A i \in Fired(k, v) : CallTo(i, k, v) \in A \/ CallTo(i, k, v) \in B
  BY <1>3, <1>4, <1>5, <1>6
<1> HIDE DEF To, A, B, js
<1>8. /\ js \in Seq(SUBSET Calls)
      /\ \A n \in 1..Len(js) : js[n] \in {A, B}
      /\ A # {} => \E n \in 1..Len(js) : js[n] = A
      /\ B # {} => \E n \in 1..Len(js) : js[n] = B
      /\ \A n, m \in 1..Len(js) : js[n] = js[m] => n = m \/ A = B
  <2> DEFINE xs == JobOf(A) \o JobOf(B)
  <2>1. /\ xs \in Seq(SUBSET Calls)
        /\ \A n \in 1..Len(xs) : xs[n] \in {A, B}
        /\ A # {} => \E n \in 1..Len(xs) : xs[n] = A
        /\ B # {} => \E n \in 1..Len(xs) : xs[n] = B
        /\ \A n, m \in 1..Len(xs) : xs[n] = xs[m] => n = m \/ A = B
    BY <1>7, TwoJobs
  <2> QED BY <1>7, <2>1
<1>9. \A n \in 1..Len(js) : \A c \in js[n] : \E i \in Fired(k, v) : c = CallTo(i, k, v)
  BY <1>7, <1>8
<1>10. \A i \in Fired(k, v) : \E n \in 1..Len(js) : CallTo(i, k, v) \in js[n]
  BY <1>7, <1>8
<1>11. \A n, m \in 1..Len(js) : \A c : c \in js[n] /\ c \in js[m] => n = m
  <2> SUFFICES ASSUME NEW n \in 1..Len(js), NEW m \in 1..Len(js), NEW c,
                      c \in js[n], c \in js[m]
               PROVE  n = m
    OBVIOUS
  <2>1. js[n] = js[m] /\ A # B
    BY <1>7, <1>8
  <2> QED BY <1>8, <2>1
<1> QED BY <1>1, <1>8, <1>9, <1>10, <1>11

\* The call c is left, in the j-th job of stream i.
At(i, j, c) ==
  i \in 1..Len(streams) /\ j \in 0..Len(streams[i].jobs) /\ c \in JobAt(i, j)

\* Jobs that are queued go behind all the others, in the last stream.
LEMMA EnqueuedIs ==
  ASSUME WatchTypes, NEW js \in Seq(SUBSET Calls), js # << >>, Enqueued(js)
  PROVE  /\ streams' \in Seq(Streams) /\ streams' # << >> /\ pushes' = TRUE
         /\ Len(streams') = IF pushes THEN Len(streams) ELSE Len(streams) + 1
         /\ \E m \in Nat : \A i, j, c :
              /\ At(i, j, c)' <=> \/ At(i, j, c)
                                  \/ /\ i = Len(streams')
                                     /\ \E n \in 1..Len(js) : j = m + n /\ c \in js[n]
              /\ At(i, j, c) => i < Len(streams') \/ (i = Len(streams') /\ j <= m)
<1> DEFINE l == Len(streams)
<1>0. l \in Nat /\ streams \in Seq(Streams) /\ Len(js) \in Nat
  BY DEF WatchTypes
<1>1. CASE pushes
  <2>1. streams' = [streams EXCEPT ![l].jobs = @ \o js] /\ pushes' = TRUE
    BY <1>1 DEF Enqueued, WatchTypes
  <2>2. l \in 1..l /\ streams[l] \in Streams
    BY <1>0, <1>1 DEF WatchTypes
  <2> DEFINE a == streams[l]
             q == a.jobs
             b == [a EXCEPT !.jobs = q \o js]
             m == Len(q)
  <2>3. q \in Seq(SUBSET Calls) /\ m \in Nat
    BY <2>2 DEF Streams
  <2> HIDE DEF q
  <2>4. /\ q \o js \in Seq(SUBSET Calls) /\ Len(q \o js) = m + Len(js)
        /\ \A n \in 1..m + Len(js) : (q \o js)[n] = IF n <= m THEN q[n] ELSE js[n - m]
    BY <2>3, ConcatProperties
  <2>5. b \in Streams /\ b.running = a.running /\ b.jobs = q \o js
    <3> DEFINE x == q \o js
    <3>1. x \in Seq(SUBSET Calls) /\ a \in Streams
      BY <2>2, <2>4
    <3> HIDE DEF x, a
    <3> QED BY <3>1 DEF Streams, x
  <2>6. streams' = [streams EXCEPT ![l] = b]
    BY <2>1 DEF q
  <2> HIDE DEF b
  <2>7. /\ streams' \in Seq(Streams) /\ Len(streams') = l /\ streams'[l] = b
        /\ \A i \in 1..l : i # l => streams'[i] = streams[i]
    BY <1>0, <2>2, <2>5, <2>6, ExceptSeq
  <2>8. ASSUME NEW i, NEW j, NEW c
        PROVE  /\ At(i, j, c)' <=> \/ At(i, j, c)
                                   \/ i = l /\ \E n \in 1..Len(js) : j = m + n /\ c \in js[n]
               /\ At(i, j, c) => i < l \/ (i = l /\ j <= m)
    <3>1. CASE i \notin 1..l
      BY <2>2, <2>7, <3>1 DEF At
    <3>2. CASE i \in 1..l /\ i # l
      <4>1. i < l
        BY <1>0, <3>2
      <4> QED BY <2>7, <3>2, <4>1 DEF At, JobAt
    <3>3. CASE i = l
      <4>1. At(i, j, c) <=> j \in 0..m /\ c \in IF j = 0 THEN a.running ELSE q[j]
        BY <2>2, <3>3 DEF At, JobAt, q
      <4>2. At(i, j, c)' <=> /\ j \in 0..m + Len(js)
                             /\ c \in IF j = 0 THEN a.running ELSE (q \o js)[j]
        BY <2>2, <2>4, <2>5, <2>7, <3>3 DEF At, JobAt
      <4>3. ASSUME j \in 0..m + Len(js), j > m
            PROVE  (q \o js)[j] = js[j - m] /\ j - m \in 1..Len(js) /\ j = m + (j - m)
        BY <1>0, <2>3, <2>4, <4>3
      <4>4. ASSUME j \in 0..m PROVE j \in 0..m + Len(js) /\ (j # 0 => (q \o js)[j] = q[j])
        BY <1>0, <2>3, <2>4, <4>4
      <4>5. \A n \in 1..Len(js) : j = m + n => j \in 0..m + Len(js) /\ j > m /\ n = j - m
        BY <1>0, <2>3
      <4>6. j \in 0..m + Len(js) => j \in 0..m \/ j > m
        BY <1>0, <2>3
      <4> HIDE DEF m
      <4>7. ASSUME At(i, j, c)'
            PROVE  At(i, j, c) \/ \E n \in 1..Len(js) : j = m + n /\ c \in js[n]
        <5>1. CASE j \in 0..m
          BY <4>1, <4>2, <4>4, <4>7, <5>1
        <5>2. CASE j > m
          <6>1. j # 0
            BY <2>3, <5>2
          <6> QED BY <4>2, <4>3, <4>7, <5>2, <6>1
        <5> QED BY <4>2, <4>6, <4>7, <5>1, <5>2
      <4>8. ASSUME At(i, j, c) PROVE At(i, j, c)' /\ j <= m
        <5>1. j <= m
          BY <2>3, <4>1, <4>8
        <5> QED BY <4>1, <4>2, <4>4, <4>8, <5>1
      <4>9. ASSUME NEW n \in 1..Len(js), j = m + n, c \in js[n] PROVE At(i, j, c)'
        <5>1. j \in 0..m + Len(js) /\ j > m /\ n = j - m /\ j # 0
          BY <2>3, <4>5, <4>9
        <5> QED BY <4>2, <4>3, <4>9, <5>1
      <4> QED BY <3>3, <4>7, <4>8, <4>9
    <3> QED BY <3>1, <3>2, <3>3
  <2> HIDE DEF m
  <2>9. l # 0
    BY <1>0, <2>2
  <2> QED BY <1>1, <2>1, <2>3, <2>7, <2>8, <2>9
<1>2. CASE ~pushes
  <2> DEFINE b == [jobs |-> js, running |-> {}]
             m == 0
  <2>1. streams' = Append(streams, b) /\ pushes' = TRUE
    BY <1>2 DEF Enqueued
  <2>2. b \in Streams /\ b.jobs = js /\ b.running = {}
    BY DEF Streams
  <2> HIDE DEF b
  <2>3. /\ streams' \in Seq(Streams) /\ streams' # << >> /\ Len(streams') = l + 1
        /\ streams'[l + 1] = b
        /\ \A i \in 1..l : streams'[i] = streams[i]
    BY <1>0, <2>1, <2>2, AppendProperties
  <2>4. ASSUME NEW i, NEW j, NEW c
        PROVE  /\ At(i, j, c)' <=> \/ At(i, j, c)
                                   \/ i = l + 1 /\ \E n \in 1..Len(js) : j = m + n /\ c \in js[n]
               /\ At(i, j, c) => i < l + 1 \/ (i = l + 1 /\ j <= m)
    <3>1. CASE i \in 1..l
      <4>1. i \in 1..l + 1 /\ i < l + 1 /\ i # l + 1
        BY <1>0, <3>1
      <4> QED BY <2>3, <3>1, <4>1 DEF At, JobAt
    <3>2. CASE i = l + 1
      <4>1. i \in 1..l + 1 /\ i \notin 1..l
        BY <1>0, <3>2
      <4>2. At(i, j, c)' <=> j \in 0..Len(js) /\ c \in IF j = 0 THEN {} ELSE js[j]
        BY <2>2, <2>3, <3>2, <4>1 DEF At, JobAt
      <4>3. \A n \in 1..Len(js) : m + n = n /\ n \in 0..Len(js) /\ n # 0
        BY <1>0
      <4>4. j \in 0..Len(js) /\ j # 0 => j \in 1..Len(js)
        BY <1>0
      <4> QED BY <3>2, <4>1, <4>2, <4>3, <4>4 DEF At
    <3>3. CASE i \notin 1..l + 1
      <4>1. i \notin 1..l /\ i # l + 1
        BY <1>0, <3>3
      <4> QED BY <2>3, <3>3, <4>1 DEF At
    <3>4. i \in 1..l + 1 => i \in 1..l \/ i = l + 1
      BY <1>0
    <3> QED BY <3>1, <3>2, <3>3, <3>4
  <2>5. m \in Nat
    OBVIOUS
  <2> HIDE DEF m
  <2>6. \A i, j, c :
          /\ At(i, j, c)' <=> \/ At(i, j, c)
                              \/ /\ i = Len(streams')
                                 /\ \E n \in 1..Len(js) : j = m + n /\ c \in js[n]
          /\ At(i, j, c) => i < Len(streams') \/ (i = Len(streams') /\ j <= m)
    <3> DEFINE k == l + 1
    <3>1. Len(streams') = k
      BY <2>3
    <3> HIDE DEF l
    <3>2. \A i, j, c :
            /\ At(i, j, c)' <=> \/ At(i, j, c)
                                \/ i = k /\ \E n \in 1..Len(js) : j = m + n /\ c \in js[n]
            /\ At(i, j, c) => i < k \/ (i = k /\ j <= m)
      BY <2>4
    <3> HIDE DEF k
    <3> QED BY <3>1, <3>2
  <2>7. streams' # << >> /\ streams' \in Seq(Streams) /\ pushes' = TRUE
        /\ Len(streams') = IF pushes THEN Len(streams) ELSE Len(streams) + 1
    BY <1>2, <2>1, <2>3
  <2> QED BY <2>5, <2>6, <2>7
<1> QED BY <1>1, <1>2

LEMMA HeadPut ==
  ASSUME NEW h \in Heads, NEW k \in Keys, NEW v \in Held
  PROVE  /\ [h EXCEPT ![k] = v] \in Heads
         /\ \A x \in Keys : [h EXCEPT ![k] = v][x] = IF x = k THEN v ELSE h[x]
BY DEF Heads

\* What a notification does to the watchers.
LEMMA NotifyWatchers ==
  ASSUME WatchTypes, NEW k \in Keys, NEW v \in Held, Notify(k, v)
  PROVE  /\ DOMAIN watchers' = DOMAIN watchers
         /\ \A i \in DOMAIN watchers :
              /\ watchers'[i] \in Watchers
              /\ watchers'[i].reg = watchers[i].reg /\ watchers'[i].keys = watchers[i].keys
              /\ watchers'[i].known = IF i \in Fired(k, v) THEN [watchers[i].known EXCEPT ![k] = v]
                                                           ELSE watchers[i].known
<1>1. watchers' = [i \in DOMAIN watchers |->
                    IF i \in Fired(k, v) THEN [watchers[i] EXCEPT !.known[k] = v]
                                         ELSE watchers[i]]
  BY DEF Notify
<1>2. ASSUME NEW i \in DOMAIN watchers
      PROVE  LET w == [watchers[i] EXCEPT !.known[k] = v]
             IN /\ w \in Watchers /\ w.reg = watchers[i].reg /\ w.keys = watchers[i].keys
                /\ w.known = [watchers[i].known EXCEPT ![k] = v]
  <2> DEFINE a == watchers[i]
             h == [a.known EXCEPT ![k] = v]
             w == [a EXCEPT !.known = h]
  <2>1. a \in Watchers
    BY DEF WatchTypes
  <2>2. h \in Heads
    BY <2>1, HeadPut DEF Watchers
  <2> HIDE DEF a, h
  <2>3. w \in Watchers /\ w.reg = a.reg /\ w.keys = a.keys /\ w.known = h
    BY <2>1, <2>2 DEF Watchers
  <2> QED BY <2>3 DEF a, h
<1>3. ASSUME NEW i \in DOMAIN watchers
      PROVE  /\ watchers'[i] \in Watchers
             /\ watchers'[i].reg = watchers[i].reg /\ watchers'[i].keys = watchers[i].keys
             /\ watchers'[i].known = IF i \in Fired(k, v) THEN [watchers[i].known EXCEPT ![k] = v]
                                                          ELSE watchers[i].known
  <2>1. CASE i \in Fired(k, v)
    BY <1>1, <1>2, <2>1
  <2>2. CASE i \notin Fired(k, v)
    BY <1>1, <2>2 DEF WatchTypes
  <2> QED BY <2>1, <2>2
<1>4. DOMAIN watchers' = DOMAIN watchers
  BY <1>1
<1> QED BY <1>3, <1>4

\* What it does to the streams.
LEMMA NotifyStreams ==
  ASSUME WatchTypes, Ids, NEW k \in Keys, NEW v \in Held, Notify(k, v)
  PROVE  /\ streams' \in Seq(Streams) /\ pushes' \in BOOLEAN /\ (pushes' => streams' # << >>)
         /\ \/ /\ Fired(k, v) = {}
               /\ UNCHANGED <<streams, pushes>>
            \/ /\ pushes' = TRUE
               /\ Len(streams') = IF pushes THEN Len(streams) ELSE Len(streams) + 1
               /\ \E m \in Nat, js \in Seq(SUBSET Calls) :
                    /\ js = Jobs(k, v)
                    /\ \A i, j, c :
                         /\ At(i, j, c)' <=> \/ At(i, j, c)
                                             \/ /\ i = Len(streams')
                                                /\ \E n \in 1..Len(js) : j = m + n /\ c \in js[n]
                         /\ At(i, j, c) => i < Len(streams') \/ (i = Len(streams') /\ j <= m)
<1> DEFINE js == Jobs(k, v)
<1>1. /\ js \in Seq(SUBSET Calls)
      /\ \A i \in Fired(k, v) : \E n \in 1..Len(js) : CallTo(i, k, v) \in js[n]
  BY JobsAre
<1>2. Enqueued(js)
  BY DEF Notify
<1> HIDE DEF js
<1>3. CASE js = << >>
  <2>1. UNCHANGED <<streams, pushes>>
    BY <1>2, <1>3 DEF Enqueued
  <2>2. Fired(k, v) = {}
    BY <1>1, <1>3
  <2> QED BY <2>1, <2>2 DEF WatchTypes
<1>4. CASE js # << >>
  <2>1. /\ streams' \in Seq(Streams) /\ streams' # << >> /\ pushes' = TRUE
        /\ Len(streams') = IF pushes THEN Len(streams) ELSE Len(streams) + 1
        /\ \E m \in Nat : \A i, j, c :
             /\ At(i, j, c)' <=> \/ At(i, j, c)
                                 \/ /\ i = Len(streams')
                                    /\ \E n \in 1..Len(js) : j = m + n /\ c \in js[n]
             /\ At(i, j, c) => i < Len(streams') \/ (i = Len(streams') /\ j <= m)
    BY <1>1, <1>2, <1>4, EnqueuedIs
  <2> QED BY <1>1, <2>1 DEF js
<1> QED BY <1>3, <1>4

LEMMA NotifyKeeps ==
  ASSUME WatchTypes, Ids, NEW k \in Keys, NEW v \in Held, Notify(k, v)
  PROVE  WatchTypes' /\ Ids'
<1>1. next' = next /\ handle' = handle /\ given' = given /\ seen' = seen
  BY DEF Notify
<1>2. promised' \in [Registrations -> Heads]
  <2>1. ASSUME NEW r \in Registrations
        PROVE  promised[r] \in Heads /\ [promised[r] EXCEPT ![k] = v] \in Heads
    BY HeadPut DEF WatchTypes
  <2>2. promised' = [r \in Registrations |->
                      IF \E i \in Fired(k, v) : watchers[i].reg = r
                      THEN [promised[r] EXCEPT ![k] = v] ELSE promised[r]]
    BY DEF Notify
  <2> QED BY <2>1, <2>2
<1>3. Registrations' = Registrations
  BY <1>1 DEF Registrations
<1>4. WatchTypes'
  BY <1>1, <1>2, <1>3, NotifyWatchers, NotifyStreams DEF WatchTypes
<1>5. Ids'
  BY <1>1, <1>3, NotifyWatchers DEF Ids
<1> QED BY <1>4, <1>5

LEMMA RegisteredKeeps ==
  ASSUME WatchTypes, Ids, NEW keys \in SUBSET Keys, NEW glob \in BOOLEAN, NEW init \in Heads,
         Registered(keys, glob, init)
  PROVE  WatchTypes' /\ Ids'
<1> DEFINE n == Len(handle)
           w == [reg |-> n + 1, glob |-> glob, keys |-> keys, known |-> init]
<1>1. /\ n \in Nat /\ MaxWatches \in Nat /\ n < MaxWatches /\ n + 1 \in 1..MaxWatches
      /\ next \in Nat /\ next <= n /\ handle \in Seq(Nat)
  BY WatchAssumption DEF Registered, WatchTypes
<1>2. /\ handle' = Append(handle, next) /\ next' = next + 1
      /\ given' = Append(given, FALSE)
      /\ promised' = Append(promised, init) /\ seen' = Append(seen, init)
      /\ UNCHANGED <<streams, pushes>>
      /\ watchers' = [i \in DOMAIN watchers \cup {next} |-> IF i = next THEN w ELSE watchers[i]]
  BY DEF Registered
<1>3. /\ handle' \in Seq(Nat) /\ Len(handle') = n + 1 /\ handle'[n + 1] = next
      /\ \A i \in 1..n : handle'[i] = handle[i]
  BY <1>1, <1>2, AppendProperties
<1>4. Registrations = 1..n /\ Registrations' = 1..n + 1
  BY <1>3 DEF Registrations
<1>5. given' \in [Registrations' -> BOOLEAN]
  BY <1>1, <1>2, <1>4, AppendFunction DEF WatchTypes
<1>6. promised' \in [Registrations' -> Heads] /\ seen' \in [Registrations' -> Heads]
  BY <1>1, <1>2, <1>4, AppendFunction DEF WatchTypes
<1>7. w \in Watchers /\ w.reg = n + 1
  BY <1>1 DEF Watchers
<1> HIDE DEF w
<1>8. DOMAIN watchers' \subseteq 0..next' - 1
  BY <1>1, <1>2 DEF WatchTypes
<1>9. \A i \in DOMAIN watchers' : watchers'[i] \in Watchers
  BY <1>2, <1>7 DEF WatchTypes
<1>10. WatchTypes'
  <2>1. Len(handle') <= MaxWatches /\ next' \in Nat /\ next' <= Len(handle')
    BY <1>1, <1>2, <1>3
  <2>2. streams' \in Seq(Streams) /\ pushes' \in BOOLEAN /\ (pushes' => streams' # << >>)
    BY <1>2 DEF WatchTypes
  <2> QED BY <1>3, <1>5, <1>6, <1>8, <1>9, <2>1, <2>2 DEF WatchTypes
<1>11. Ids'
  <2> SUFFICES ASSUME NEW i \in DOMAIN watchers'
               PROVE  watchers'[i].reg \in Registrations' /\ handle'[watchers'[i].reg] = i
    BY DEF Ids
  <2>1. CASE i = next
    <3>1. watchers'[i].reg = n + 1
      BY <1>2, <1>7, <2>1
    <3> QED BY <1>1, <1>3, <1>4, <2>1, <3>1
  <2>2. CASE i # next
    <3>1. i \in DOMAIN watchers /\ watchers'[i] = watchers[i]
      BY <1>2, <2>2
    <3>2. watchers[i].reg \in 1..n /\ handle[watchers[i].reg] = i
      BY <1>4, <3>1 DEF Ids
    <3>3. watchers[i].reg \in 1..n + 1
      BY <1>1, <3>2
    <3> QED BY <1>3, <1>4, <3>1, <3>2, <3>3
  <2> QED BY <2>1, <2>2
<1> QED BY <1>10, <1>11

LEMMA UnwatchedKeeps ==
  ASSUME WatchTypes, Ids, NEW r \in Registrations, Unwatched(r)
  PROVE  WatchTypes' /\ Ids'
<1>1. /\ watchers' = [i \in DOMAIN watchers \ {handle[r]} |-> watchers[i]]
      /\ pushes' = (pushes /\ DOMAIN watchers' # {})
      /\ given' = [given EXCEPT ![r] = TRUE]
      /\ UNCHANGED <<next, streams, handle, promised, seen>>
  BY DEF Unwatched
<1>2. DOMAIN watchers' \subseteq DOMAIN watchers /\ \A i \in DOMAIN watchers' : watchers'[i] = watchers[i]
  BY <1>1
<1>3. pushes' \in BOOLEAN /\ (pushes' => pushes)
  BY <1>1
<1>4. given' \in [Registrations -> BOOLEAN] /\ Registrations' = Registrations
  BY <1>1 DEF WatchTypes, Registrations
<1>5. WatchTypes'
  BY <1>1, <1>2, <1>3, <1>4 DEF WatchTypes
<1> QED BY <1>1, <1>2, <1>4, <1>5 DEF Ids

LEMMA ClearedKeeps ==
  ASSUME WatchTypes, NEW R, Cleared(R)
  PROVE  WatchTypes' /\ Ids'
<1>1. /\ watchers' = << >> /\ next' = 0 /\ UNCHANGED <<streams, pushes, handle, promised, seen>>
      /\ given' = [r \in Registrations |-> given[r] \/ r \in R]
  BY DEF Cleared
<1>2. DOMAIN watchers' = {}
  BY <1>1
<1>3. given' \in [Registrations -> BOOLEAN] /\ Registrations' = Registrations
  BY <1>1 DEF Registrations
<1>4. 0 \in Nat /\ Len(handle) \in Nat /\ 0 <= Len(handle)
  BY DEF WatchTypes
<1> QED BY <1>1, <1>2, <1>3, <1>4 DEF WatchTypes, Ids

LEMMA NoWatchTyped ==
  ASSUME watchers = << >>, next = 0, streams = << >>, pushes = FALSE,
         handle = << >>, given = << >>, promised = << >>, seen = << >>
  PROVE  WatchTypes /\ Ids /\ \A i, j, c : ~At(i, j, c)
<1>1. DOMAIN watchers = {} /\ Registrations = {} /\ Len(handle) = 0 /\ 0 <= MaxWatches
  BY WatchAssumption DEF Registrations
<1>2. << >> \in [{} -> BOOLEAN] /\ << >> \in [{} -> Heads]
  OBVIOUS
<1>3. handle \in Seq(Nat) /\ streams \in Seq(Streams) /\ Len(streams) = 0
  OBVIOUS
<1>4. \A i, j, c : ~At(i, j, c)
  BY <1>3 DEF At
<1>5. /\ given \in [Registrations -> BOOLEAN] /\ promised \in [Registrations -> Heads]
      /\ seen \in [Registrations -> Heads]
  BY <1>1, <1>2
<1>6. next \in Nat /\ next <= Len(handle) /\ Len(handle) <= MaxWatches
  BY <1>1
<1>7. pushes \in BOOLEAN /\ (pushes => streams # << >>)
  OBVIOUS
<1>8. WatchTypes
  BY <1>1, <1>3, <1>5, <1>6, <1>7 DEF WatchTypes
<1> QED BY <1>1, <1>4, <1>8 DEF Ids

LEMMA GoneKeeps ==
  ASSUME WatchGone PROVE WatchTypes' /\ Ids' /\ \A i, j, c : ~At(i, j, c)'
<1>1. /\ watchers' = << >> /\ next' = 0 /\ streams' = << >> /\ pushes' = FALSE
      /\ handle' = << >> /\ given' = << >> /\ promised' = << >> /\ seen' = << >>
  BY DEF WatchGone
<1>2. DOMAIN watchers' = {} /\ Registrations' = {} /\ Len(handle') = 0 /\ 0 <= MaxWatches
  BY <1>1, WatchAssumption DEF Registrations
<1>3. << >> \in [{} -> BOOLEAN] /\ << >> \in [{} -> Heads]
  OBVIOUS
<1>4. handle' \in Seq(Nat) /\ streams' \in Seq(Streams) /\ Len(streams') = 0
  BY <1>1
<1>5. \A i, j, c : ~At(i, j, c)'
  BY <1>4 DEF At
<1>6. /\ given' \in [Registrations' -> BOOLEAN] /\ promised' \in [Registrations' -> Heads]
      /\ seen' \in [Registrations' -> Heads]
  BY <1>1, <1>2, <1>3
<1>7. next' \in Nat /\ next' <= Len(handle') /\ Len(handle') <= MaxWatches
  BY <1>1, <1>2
<1>8. pushes' \in BOOLEAN /\ (pushes' => streams' # << >>)
  BY <1>1
<1>9. WatchTypes'
  BY <1>2, <1>4, <1>6, <1>7, <1>8 DEF WatchTypes
<1> QED BY <1>2, <1>5, <1>9 DEF Ids

\* A job starts: what was the j-th job of its stream is the one before.
LEMMA StartJobIs ==
  ASSUME WatchTypes, NEW s \in 1..Len(streams), StartJob(s)
  PROVE  /\ streams' \in Seq(Streams) /\ Len(streams') = Len(streams)
         /\ \A i, c : At(i, 0, c) => i # s
         /\ \A i, j, c : /\ At(i, j, c)' => j \in Nat
                         /\ j \in Nat => (At(i, j, c)' <=> At(i, IF i = s THEN j + 1 ELSE j, c))
<1> DEFINE a == streams[s]
           q == a.jobs
           b == [a EXCEPT !.running = Head(q), !.jobs = Tail(q)]
<1>1. /\ a.running = {} /\ q # << >>
      /\ streams' = [streams EXCEPT ![s].running = Head(streams[s].jobs), ![s].jobs = Tail(@)]
  BY DEF StartJob
<1>2. streams \in Seq(Streams) /\ a \in Streams /\ q \in Seq(SUBSET Calls)
  <2>1. streams \in Seq(Streams) /\ a \in Streams
    BY DEF WatchTypes
  <2> QED BY <2>1 DEF Streams
<1>3. streams' = [streams EXCEPT ![s] = b]
  BY <1>1, <1>2
<1>4. /\ Head(q) \in SUBSET Calls /\ Tail(q) \in Seq(SUBSET Calls) /\ Head(q) = q[1]
      /\ Len(q) \in Nat \ {0} /\ Len(Tail(q)) = Len(q) - 1
      /\ \A n \in 1..Len(Tail(q)) : Tail(q)[n] = q[n + 1]
  <2> HIDE DEF q
  <2> QED BY <1>1, <1>2, HeadTailProperties
<1>5. b \in Streams /\ b.running = Head(q) /\ b.jobs = Tail(q)
  <2> DEFINE x == Head(q)
             y == Tail(q)
  <2>1. x \in SUBSET Calls /\ y \in Seq(SUBSET Calls) /\ a \in Streams
    BY <1>2, <1>4
  <2> HIDE DEF x, y, a
  <2>2. [a EXCEPT !.running = x, !.jobs = y] \in Streams
        /\ [a EXCEPT !.running = x, !.jobs = y].running = x
        /\ [a EXCEPT !.running = x, !.jobs = y].jobs = y
    BY <2>1 DEF Streams
  <2> QED BY <2>2 DEF x, y
<1> HIDE DEF b
<1>6. /\ streams' \in Seq(Streams) /\ Len(streams') = Len(streams) /\ streams'[s] = b
      /\ \A i \in 1..Len(streams) : i # s => streams'[i] = streams[i]
  BY <1>2, <1>3, <1>5, ExceptSeq
<1>7. \A i, c : At(i, 0, c) => i # s
  BY <1>1 DEF At, JobAt
<1>8. ASSUME NEW i, NEW j, NEW c
      PROVE  /\ At(i, j, c)' => j \in Nat
             /\ j \in Nat => (At(i, j, c)' <=> At(i, IF i = s THEN j + 1 ELSE j, c))
  <2>1. CASE i # s
    BY <1>6, <2>1 DEF At, JobAt
  <2>2. CASE i = s
    <3>1. At(i, j, c)' <=> j \in 0..Len(Tail(q)) /\ c \in IF j = 0 THEN Head(q) ELSE Tail(q)[j]
      BY <1>5, <1>6, <2>2 DEF At, JobAt
    <3>2. j \in Nat => (At(i, j + 1, c) <=> j + 1 \in 1..Len(q) /\ c \in q[j + 1])
      BY <1>4, <2>2 DEF At, JobAt
    <3>3. j \in Nat => (j \in 0..Len(Tail(q)) <=> j + 1 \in 1..Len(q))
      BY <1>4
    <3>4. j \in 0..Len(Tail(q)) => j \in Nat /\ (j # 0 => Tail(q)[j] = q[j + 1])
      BY <1>4
    <3> QED BY <1>4, <2>2, <3>1, <3>2, <3>3, <3>4
  <2> QED BY <2>1, <2>2
<1> QED BY <1>6, <1>7, <1>8

\* A call ends.
LEMMA EndCallIs ==
  ASSUME WatchTypes, NEW s \in 1..Len(streams), NEW d, EndCall(s, d)
  PROVE  /\ streams' \in Seq(Streams) /\ Len(streams') = Len(streams) /\ At(s, 0, d)
         /\ d \in Calls /\ seen' \in [Registrations -> Heads]
         /\ \A r \in Registrations, k \in Keys :
              seen'[r][k] = IF r = d.reg /\ k = d.key THEN d.new ELSE seen[r][k]
         /\ \A i, j, c : At(i, j, c)' <=> At(i, j, c) /\ <<i, j, c>> # <<s, 0, d>>
<1> DEFINE a == streams[s]
           b == [a EXCEPT !.running = @ \ {d}]
<1>1. /\ d \in a.running /\ streams' = [streams EXCEPT ![s].running = @ \ {d}]
      /\ seen' = [seen EXCEPT ![d.reg][d.key] = d.new]
  BY DEF EndCall
<1>2. streams \in Seq(Streams) /\ a \in Streams
  BY DEF WatchTypes
<1>3. d \in Calls
  BY <1>1, <1>2 DEF Streams
<1>4. streams' = [streams EXCEPT ![s] = b]
  BY <1>1, <1>2
<1>5. b \in Streams /\ b.running = a.running \ {d} /\ b.jobs = a.jobs
  BY <1>2 DEF Streams
<1> HIDE DEF b
<1>6. /\ streams' \in Seq(Streams) /\ Len(streams') = Len(streams) /\ streams'[s] = b
      /\ \A i \in 1..Len(streams) : i # s => streams'[i] = streams[i]
  BY <1>2, <1>4, <1>5, ExceptSeq
<1>7. At(s, 0, d)
  <2>1. Len(a.jobs) \in Nat
    BY <1>2 DEF Streams
  <2> QED BY <1>1, <2>1 DEF At, JobAt
<1>8. ASSUME NEW i, NEW j, NEW c
      PROVE  At(i, j, c)' <=> At(i, j, c) /\ <<i, j, c>> # <<s, 0, d>>
  <2>1. CASE i # s
    BY <1>6, <2>1 DEF At, JobAt
  <2>2. CASE i = s
    BY <1>5, <1>6, <2>2 DEF At, JobAt
  <2> QED BY <2>1, <2>2
<1>9. /\ seen' \in [Registrations -> Heads]
      /\ \A r \in Registrations, k \in Keys :
           seen'[r][k] = IF r = d.reg /\ k = d.key THEN d.new ELSE seen[r][k]
  <2>1. seen \in [Registrations -> Heads] /\ d.key \in Keys /\ d.new \in Held
    BY <1>3 DEF WatchTypes, Calls
  <2>2. ASSUME NEW r \in Registrations
        PROVE  seen'[r] = IF r = d.reg THEN [seen[r] EXCEPT ![d.key] = d.new] ELSE seen[r]
    BY <1>1, <2>1
  <2>3. ASSUME NEW r \in Registrations
        PROVE  /\ [seen[r] EXCEPT ![d.key] = d.new] \in Heads
               /\ \A x \in Keys : [seen[r] EXCEPT ![d.key] = d.new][x]
                                    = IF x = d.key THEN d.new ELSE seen[r][x]
    BY <2>1, HeadPut
  <2>4. seen' \in [Registrations -> Heads]
    <3>1. DOMAIN seen' = Registrations /\ seen' = [r \in DOMAIN seen' |-> seen'[r]]
      BY <1>1, <2>1
    <3>2. \A r \in Registrations : seen'[r] \in Heads
      BY <2>1, <2>2, <2>3
    <3> QED BY <3>1, <3>2
  <2>5. ASSUME NEW r \in Registrations, NEW k \in Keys
        PROVE  seen'[r][k] = IF r = d.reg /\ k = d.key THEN d.new ELSE seen[r][k]
    <3>1. CASE r = d.reg
      <4>1. seen'[r] = [seen[r] EXCEPT ![d.key] = d.new]
        BY <2>2, <3>1
      <4>2. [seen[r] EXCEPT ![d.key] = d.new][k] = IF k = d.key THEN d.new ELSE seen[r][k]
        BY <2>3
      <4> QED BY <3>1, <4>1, <4>2
    <3>2. CASE r # d.reg
      BY <2>2, <3>2
    <3> QED BY <3>1, <3>2
  <2> QED BY <2>4, <2>5
<1> QED BY <1>3, <1>6, <1>7, <1>8, <1>9

LEMMA DeliverKeeps ==
  ASSUME WatchTypes, Ids, Deliver PROVE WatchTypes' /\ Ids'
<1>1. PICK s \in 1..Len(streams) : StartJob(s) \/ \E c \in streams[s].running : EndCall(s, c)
  BY DEF Deliver
<1>2. UNCHANGED <<watchers, next, pushes, handle, given, promised>>
  BY <1>1 DEF StartJob, EndCall
<1>3. /\ streams' \in Seq(Streams) /\ Len(streams') = Len(streams)
      /\ seen' \in [Registrations -> Heads]
  <2>1. CASE StartJob(s)
    <3>1. seen' = seen
      BY <2>1 DEF StartJob
    <3> QED BY <2>1, <3>1, StartJobIs DEF WatchTypes
  <2>2. CASE \E c \in streams[s].running : EndCall(s, c)
    BY <2>2, EndCallIs
  <2> QED BY <1>1, <2>1, <2>2
<1>4. streams # << >> => streams' # << >>
  BY <1>3 DEF WatchTypes
<1>5. Registrations' = Registrations
  BY <1>2 DEF Registrations
<1>6. WatchTypes'
  BY <1>2, <1>3, <1>4, <1>5 DEF WatchTypes
<1> QED BY <1>2, <1>5, <1>6 DEF Ids

LEMMA WatchStays ==
  ASSUME WatchTypes, Ids, UNCHANGED watchVars PROVE WatchTypes' /\ Ids'
<1>1. UNCHANGED <<watchers, next, streams, pushes, handle, given, promised, seen>>
  BY DEF watchVars
<1>2. Registrations' = Registrations
  BY <1>1 DEF Registrations
<1> QED BY <1>1, <1>2 DEF WatchTypes, Ids

LEMMA WatchStepKeeps ==
  ASSUME WatchTypes, Ids, WatchStep PROVE WatchTypes' /\ Ids'
BY NotifyKeeps, RegisteredKeeps, UnwatchedKeeps, ClearedKeeps, GoneKeeps, DeliverKeeps,
   WatchStays DEF WatchStep

LEMMA WatchInit == Init => WatchTypes /\ Ids /\ \A i, j, c : ~At(i, j, c)
<1> SUFFICES ASSUME Init PROVE WatchTypes /\ Ids /\ \A i, j, c : ~At(i, j, c)
  OBVIOUS
<1>1. /\ watchers = << >> /\ next = 0 /\ streams = << >> /\ pushes = FALSE
      /\ handle = << >> /\ given = << >> /\ promised = << >> /\ seen = << >>
  BY DEF Init, NoWatch
<1> QED BY <1>1, NoWatchTyped

\* The store of each registration.
StoreTypes == storeOf \in [Registrations -> Stores]

LEMMA StoreTypesNext == WatchTypes /\ StoreTypes /\ [Next]_vars => StoreTypes'
<1> SUFFICES ASSUME WatchTypes, StoreTypes, [Next]_vars PROVE StoreTypes'
  OBVIOUS
<1>1. ASSUME UNCHANGED <<storeOf, handle>> PROVE StoreTypes'
  BY <1>1 DEF StoreTypes, Registrations
<1>2. CASE UNCHANGED vars
  BY <1>1, <1>2 DEF vars, watchVars
<1>3. ASSUME NEW s \in Stores, Open(s) \/ Close(s) \/ RoOpen(s) \/ RoFind(s) \/ RoClose(s)
      PROVE  StoreTypes'
  BY <1>1, <1>3 DEF Open, Close, Cleared, RoOpen, RoFind, RoClose, watchVars
<1>4. ASSUME NEW s \in Stores, NEW k \in Keys, NEW v \in Held, Set(s, k, v)
      PROVE  StoreTypes'
  BY <1>1, <1>4 DEF Set, Changed, Notify
<1>5. ASSUME NEW s \in Stores, NEW k \in Keys, NEW t \in Held, NEW v \in Held,
             TestAndSet(s, k, t, v)
      PROVE  StoreTypes'
  <2>1. CASE rw[s].cache[k] = t
    BY <1>1, <1>5, <2>1 DEF TestAndSet, Changed, Notify
  <2>2. CASE rw[s].cache[k] # t
    BY <1>1, <1>5, <2>2 DEF TestAndSet, watchVars
  <2> QED BY <2>1, <2>2
<1>6. CASE Die
  <2>1. storeOf' = << >> /\ handle' = << >>
    BY <1>6 DEF Die, WatchGone
  <2>2. Registrations' = {}
    BY <2>1 DEF Registrations
  <2> QED BY <2>1, <2>2 DEF StoreTypes
<1>7. ASSUME NEW s \in Stores, NEW ks, NEW glob, WatchHeads(s, ks, glob) PROVE StoreTypes'
  <2>1. storeOf' = Append(storeOf, s) /\ handle' = Append(handle, next)
    BY <1>7 DEF WatchHeads, Registered
  <2>2. Len(handle) \in Nat /\ Registrations' = 1..Len(handle) + 1
    BY <2>1 DEF WatchTypes, Registrations
  <2> QED BY <2>1, <2>2, AppendFunction DEF StoreTypes, Registrations
<1>8. ASSUME NEW r \in Registrations, Unwatch(r) PROVE StoreTypes'
  BY <1>1, <1>8 DEF Unwatch, Unwatched
<1>9. CASE Run
  BY <1>1, <1>9 DEF Run, Deliver, StartJob, EndCall
<1> QED BY <1>2, <1>3, <1>4, <1>5, <1>6, <1>7, <1>8, <1>9 DEF Next

LEMMA Typed ==
  Inv /\ ReaderInv /\ WatchTypes /\ StoreTypes => TypeOK
<1> SUFFICES ASSUME Inv, ReaderInv, WatchTypes, StoreTypes PROVE TypeOK
  OBVIOUS
<1>1. next \in 0..MaxWatches /\ Len(handle) <= MaxWatches
  <2>1. Len(handle) \in Nat
    BY DEF WatchTypes
  <2> QED BY <2>1, WatchAssumption DEF WatchTypes
<1>2. \A i \in 1..Len(streams) : /\ streams[i].running \subseteq Calls
                                 /\ streams[i].jobs \in Seq(SUBSET Calls)
  <2> SUFFICES ASSUME NEW i \in 1..Len(streams)
               PROVE  /\ streams[i].running \subseteq Calls
                      /\ streams[i].jobs \in Seq(SUBSET Calls)
    OBVIOUS
  <2>1. streams[i] \in Streams
    BY DEF WatchTypes
  <2> QED BY <2>1 DEF Streams
<1>3. file \in [Stores -> Seq(Records)] /\ rw \in [Stores -> Tables]
  BY DEF Inv, Types
<1>4. /\ ro \in [Stores -> [open : BOOLEAN, cache : Heads, index : [Keys -> Nat], size : Nat]]
      /\ held \in [Stores -> [Keys -> SUBSET Held]]
  BY DEF ReaderInv, RoTables
<1> QED BY <1>1, <1>2, <1>3, <1>4 DEF TypeOK, WatchTypes, StoreTypes

LEMMA SpecReader == Spec => []ReaderInv
<1>1. Inv /\ ReaderInv /\ [Next]_vars => ReaderInv'
  BY ReaderNext
<1> QED BY <1>1, ReaderInit, SpecInv, PTL DEF Spec

LEMMA WatchNext == Inv /\ WatchTypes /\ Ids /\ [Next]_vars => WatchTypes' /\ Ids'
<1> SUFFICES ASSUME Inv, WatchTypes, Ids, [Next]_vars PROVE WatchTypes' /\ Ids'
  OBVIOUS
<1>1. CASE Next
  BY <1>1, WatchKinds, WatchStepKeeps
<1>2. CASE UNCHANGED vars
  BY <1>2, WatchStays DEF vars
<1> QED BY <1>1, <1>2

LEMMA SpecWatch == Spec => [](WatchTypes /\ Ids)
<1>1. Init => WatchTypes /\ Ids
  BY WatchInit
<1> QED BY <1>1, WatchNext, SpecInv, PTL DEF Spec

LEMMA SpecStores == Spec => []StoreTypes
<1>1. Init => StoreTypes
  BY DEF Init, NoWatch, StoreTypes, Registrations
<1> QED BY <1>1, StoreTypesNext, SpecWatch, PTL DEF Spec

\* In every reachable state, through any sequence of changes, removals, closes
\* and deaths, a branch file has one record for a key, the tables of the process
\* that writes say what it says, and a reader knows the place of each key that
\* had a record when it last looked, with a head that the key had
\* (atomic_write.ml refill, unsafe_set, unsafe_remove, sync_offset, unsafe_find).
THEOREM TablesOfBoth == Spec => []FileAndTables
<1>1. Inv /\ ReaderInv /\ WatchTypes /\ StoreTypes => FileAndTables
  BY Typed, ReaderTablesHold DEF FileAndTables, Inv
<1> QED BY <1>1, SpecInv, SpecReader, SpecWatch, SpecStores, PTL
-----------------------------------------------------------------------------
(* The calls left. *)

LEMMA AtTyped ==
  ASSUME WatchTypes, NEW i, NEW j, NEW c, At(i, j, c)
  PROVE  i \in 1..Len(streams) /\ j \in Nat /\ c \in Calls
<1>1. i \in 1..Len(streams) /\ j \in 0..Len(streams[i].jobs) /\ c \in JobAt(i, j)
  BY DEF At
<1>2. streams[i] \in Streams
  BY <1>1 DEF WatchTypes
<1> DEFINE q == streams[i].jobs
<1>3. q \in Seq(SUBSET Calls) /\ streams[i].running \subseteq Calls
  BY <1>2 DEF Streams
<1>4. j \in Nat /\ (j = 0 \/ j \in 1..Len(q))
  BY <1>1, <1>3
<1>5. c \in Calls
  BY <1>1, <1>3, <1>4 DEF JobAt
<1> QED BY <1>1, <1>4, <1>5

LEMMA AtSame == ASSUME streams' = streams PROVE \A i, j, c : At(i, j, c)' <=> At(i, j, c)
BY DEF At, JobAt

LEMMA CallsLeftAre ==
  /\ \A i, j, c : At(i, j, c) => [stream |-> i, job |-> j, call |-> c] \in CallsLeft
  /\ \A x \in CallsLeft : At(x.stream, x.job, x.call)
<1>1. ASSUME NEW i, NEW j, NEW c, At(i, j, c)
      PROVE  [stream |-> i, job |-> j, call |-> c] \in CallsLeft
  BY <1>1 DEF At, CallsLeft
<1>2. ASSUME NEW x \in CallsLeft PROVE At(x.stream, x.job, x.call)
  <2>1. PICK i \in 1..Len(streams) : \E j \in 0..Len(streams[i].jobs) : \E c \in JobAt(i, j) :
          x = [stream |-> i, job |-> j, call |-> c]
    BY DEF CallsLeft
  <2>2. PICK j \in 0..Len(streams[i].jobs) : \E c \in JobAt(i, j) :
          x = [stream |-> i, job |-> j, call |-> c]
    BY <2>1
  <2> QED BY <2>2 DEF At
<1> QED BY <1>1, <1>2

\* The calls left of a registration are in one stream, at most one in a job, and
\* if it has a watcher that is in use this is the stream that takes jobs.
InOneStream ==
  \A i, j, c, l, m, d :
    At(i, j, c) /\ At(l, m, d) /\ c.reg = d.reg => i = l /\ (j = m => c = d)

InLast ==
  \A i, j, c : At(i, j, c) =>
    /\ c.reg \in Registrations
    /\ \A w \in DOMAIN watchers : watchers[w].reg = c.reg => pushes /\ i = Len(streams)

LEMMA NotifyQueues ==
  ASSUME WatchTypes, Ids, InOneStream, InLast, NEW k \in Keys, NEW v \in Held, Notify(k, v)
  PROVE  InOneStream' /\ InLast'
<1>1. /\ DOMAIN watchers' = DOMAIN watchers /\ Registrations' = Registrations
      /\ \A w \in DOMAIN watchers : watchers'[w].reg = watchers[w].reg
  BY NotifyWatchers DEF Notify, Registrations
<1>2. CASE Fired(k, v) = {} /\ UNCHANGED <<streams, pushes>>
  <2>1. \A i, j, c : At(i, j, c)' <=> At(i, j, c)
    BY <1>2, AtSame
  <2>2. InOneStream'
    BY <2>1 DEF InOneStream
  <2>3. InLast'
    BY <1>1, <1>2, <2>1 DEF InLast
  <2> QED BY <2>2, <2>3
<1>3. CASE /\ pushes' = TRUE
           /\ Len(streams') = IF pushes THEN Len(streams) ELSE Len(streams) + 1
           /\ \E m \in Nat, js \in Seq(SUBSET Calls) :
                /\ js = Jobs(k, v)
                /\ \A i, j, c :
                     /\ At(i, j, c)' <=> \/ At(i, j, c)
                                         \/ /\ i = Len(streams')
                                            /\ \E n \in 1..Len(js) : j = m + n /\ c \in js[n]
                     /\ At(i, j, c) => i < Len(streams') \/ (i = Len(streams') /\ j <= m)
  <2>1. PICK m \in Nat, js \in Seq(SUBSET Calls) :
          /\ js = Jobs(k, v)
          /\ \A i, j, c :
               /\ At(i, j, c)' <=> \/ At(i, j, c)
                                   \/ /\ i = Len(streams')
                                      /\ \E n \in 1..Len(js) : j = m + n /\ c \in js[n]
               /\ At(i, j, c) => i < Len(streams') \/ (i = Len(streams') /\ j <= m)
    BY <1>3
  <2> DEFINE L == Len(streams')
             New(i, j, c) == i = L /\ \E n \in 1..Len(js) : j = m + n /\ c \in js[n]
  <2>2. \A n \in 1..Len(js) : \A c \in js[n] : \E w \in Fired(k, v) : c = CallTo(w, k, v)
    BY <2>1, JobsAre
  <2>3. ASSUME NEW i, NEW j, NEW c, New(i, j, c)
        PROVE  /\ i = L /\ j \in Nat /\ j > m
               /\ \E w \in DOMAIN watchers : c = CallTo(w, k, v) /\ c.reg = watchers[w].reg
    BY <2>2, <2>3 DEF CallTo, Fired
  <2> HIDE DEF New
  <2>4. ASSUME NEW i, NEW j, NEW c, New(i, j, c), NEW d, New(i, j, d), c.reg = d.reg
        PROVE  c = d
    <3>1. PICK w \in DOMAIN watchers : c = CallTo(w, k, v) /\ c.reg = watchers[w].reg
      BY <2>3, <2>4
    <3>2. PICK u \in DOMAIN watchers : d = CallTo(u, k, v) /\ d.reg = watchers[u].reg
      BY <2>3, <2>4
    <3>3. w = u
      BY <2>4, <3>1, <3>2 DEF Ids
    <3> QED BY <3>1, <3>2, <3>3
  <2>5. ASSUME NEW i, NEW j, NEW c, At(i, j, c), NEW l, NEW n, NEW d, New(l, n, d),
               c.reg = d.reg
        PROVE  i = l /\ j # n
    <3>1. \E w \in DOMAIN watchers : watchers[w].reg = c.reg
      BY <2>3, <2>5
    <3>2. pushes /\ i = Len(streams)
      BY <2>5, <3>1 DEF InLast
    <3>3. i = L
      BY <1>3, <3>2
    <3>4. l = L /\ n > m /\ n \in Nat
      BY <2>3, <2>5
    <3>5. j <= m /\ j \in Nat
      <4>1. L \in Nat /\ j \in Nat
        BY <2>5, <3>3, AtTyped DEF WatchTypes
      <4>2. ~(L < L)
        BY <4>1
      <4> QED BY <2>1, <2>5, <3>3, <4>1, <4>2
    <3> QED BY <3>3, <3>4, <3>5
  <2>6. \A i, j, c : At(i, j, c)' <=> At(i, j, c) \/ New(i, j, c)
    BY <2>1 DEF New
  <2> HIDE DEF L
  <2>7. InOneStream'
    <3> SUFFICES ASSUME NEW i, NEW j, NEW c, NEW l, NEW n, NEW d,
                        At(i, j, c)', At(l, n, d)', c.reg = d.reg
                 PROVE  i = l /\ (j = n => c = d)
      BY DEF InOneStream
    <3>1. CASE At(i, j, c) /\ At(l, n, d)
      BY <3>1 DEF InOneStream
    <3>2. CASE At(i, j, c) /\ New(l, n, d)
      BY <2>5, <3>2
    <3>3. CASE New(i, j, c) /\ At(l, n, d)
      BY <2>5, <3>3
    <3>4. CASE New(i, j, c) /\ New(l, n, d)
      BY <2>3, <2>4, <3>4
    <3> QED BY <2>6, <3>1, <3>2, <3>3, <3>4
  <2>8. InLast'
    <3> SUFFICES ASSUME NEW i, NEW j, NEW c, At(i, j, c)'
                 PROVE  /\ c.reg \in Registrations
                        /\ \A w \in DOMAIN watchers :
                             watchers[w].reg = c.reg => pushes' /\ i = Len(streams')
      BY <1>1 DEF InLast
    <3>1. CASE At(i, j, c)
      BY <1>3, <3>1 DEF InLast
    <3>2. CASE New(i, j, c)
      BY <1>3, <2>3, <3>2 DEF Ids, L
    <3> QED BY <2>6, <3>1, <3>2
  <2> QED BY <2>7, <2>8
<1> QED BY <1>2, <1>3, NotifyStreams

\* A step after which calls are left where calls were, and none of the watchers
\* that have calls is new.
LEMMA QueuesShrink ==
  ASSUME InOneStream, InLast, Len(streams') = Len(streams),
         \A i, j, c : At(i, j, c)' => At(i, j, c),
         Registrations \subseteq Registrations',
         \A w \in DOMAIN watchers' : watchers'[w].reg \in Registrations =>
           w \in DOMAIN watchers /\ watchers'[w].reg = watchers[w].reg /\ (pushes => pushes')
  PROVE  InOneStream' /\ InLast'
<1>1. InOneStream'
  BY DEF InOneStream
<1>2. InLast'
  <2> SUFFICES ASSUME NEW i, NEW j, NEW c, At(i, j, c)'
               PROVE  /\ c.reg \in Registrations'
                      /\ \A w \in DOMAIN watchers' :
                           watchers'[w].reg = c.reg => pushes' /\ i = Len(streams')
    BY DEF InLast
  <2>1. At(i, j, c)
    OBVIOUS
  <2>2. c.reg \in Registrations
    BY <2>1 DEF InLast
  <2>3. ASSUME NEW w \in DOMAIN watchers', watchers'[w].reg = c.reg
        PROVE  pushes' /\ i = Len(streams')
    BY <2>1, <2>2, <2>3 DEF InLast
  <2> QED BY <2>2, <2>3
<1> QED BY <1>1, <1>2

LEMMA StartJobQueues ==
  ASSUME WatchTypes, InOneStream, InLast, NEW s \in 1..Len(streams), StartJob(s)
  PROVE  InOneStream' /\ InLast'
<1>1. /\ UNCHANGED <<watchers, pushes, handle>> /\ Len(streams') = Len(streams)
      /\ \A i, j, c : At(i, j, c)' => /\ j \in Nat
                                      /\ At(i, IF i = s THEN j + 1 ELSE j, c)
  BY StartJobIs DEF StartJob
<1>2. InOneStream'
  <2> SUFFICES ASSUME NEW i, NEW j, NEW c, NEW l, NEW m, NEW d,
                      At(i, j, c)', At(l, m, d)', c.reg = d.reg
               PROVE  i = l /\ (j = m => c = d)
    BY DEF InOneStream
  <2> QED BY <1>1 DEF InOneStream
<1>3. InLast'
  <2> SUFFICES ASSUME NEW i, NEW j, NEW c, At(i, j, c)'
               PROVE  /\ c.reg \in Registrations
                      /\ \A w \in DOMAIN watchers :
                           watchers[w].reg = c.reg => pushes /\ i = Len(streams)
    BY <1>1 DEF InLast, Registrations
  <2> QED BY <1>1 DEF InLast
<1> QED BY <1>2, <1>3

LEMMA QueuesKeep ==
  ASSUME WatchTypes, Ids, InOneStream, InLast, WatchStep
  PROVE  InOneStream' /\ InLast'
<1>1. CASE UNCHANGED watchVars
  BY <1>1, AtSame, QueuesShrink DEF watchVars, Registrations
<1>2. ASSUME NEW k \in Keys, NEW v \in Held, Notify(k, v) PROVE InOneStream' /\ InLast'
  BY <1>2, NotifyQueues
<1>3. ASSUME NEW keys \in SUBSET Keys, NEW glob \in BOOLEAN, NEW init \in Heads,
             Registered(keys, glob, init)
      PROVE  InOneStream' /\ InLast'
  <2> DEFINE n == Len(handle)
             w0 == [reg |-> n + 1, glob |-> glob, keys |-> keys, known |-> init]
  <2>1. /\ handle' = Append(handle, next) /\ UNCHANGED <<streams, pushes>>
        /\ watchers' = [i \in DOMAIN watchers \cup {next} |-> IF i = next THEN w0 ELSE watchers[i]]
        /\ w0.reg = n + 1
    BY <1>3 DEF Registered
  <2> HIDE DEF w0
  <2>2. /\ n \in Nat /\ Registrations = 1..n /\ Registrations' = 1..n + 1
        /\ Registrations \subseteq Registrations' /\ n + 1 \notin Registrations
    BY <2>1 DEF WatchTypes, Registrations
  <2>3. ASSUME NEW w \in DOMAIN watchers', watchers'[w].reg \in Registrations
        PROVE  w \in DOMAIN watchers /\ watchers'[w].reg = watchers[w].reg /\ (pushes => pushes')
    BY <2>1, <2>2, <2>3
  <2>4. /\ Len(streams') = Len(streams) /\ \A i, j, c : At(i, j, c)' => At(i, j, c)
    BY <2>1, AtSame
  <2> QED BY <2>2, <2>3, <2>4, QueuesShrink
<1>4. ASSUME NEW r \in Registrations, Unwatched(r) PROVE InOneStream' /\ InLast'
  <2>1. /\ watchers' = [i \in DOMAIN watchers \ {handle[r]} |-> watchers[i]]
        /\ pushes' = (pushes /\ DOMAIN watchers' # {}) /\ UNCHANGED <<streams, handle>>
    BY <1>4 DEF Unwatched
  <2>2. ASSUME NEW w \in DOMAIN watchers'
        PROVE  w \in DOMAIN watchers /\ watchers'[w].reg = watchers[w].reg /\ (pushes => pushes')
    BY <2>1
  <2>3. /\ Len(streams') = Len(streams) /\ \A i, j, c : At(i, j, c)' => At(i, j, c)
        /\ Registrations' = Registrations
    BY <2>1, AtSame DEF Registrations
  <2> QED BY <2>2, <2>3, QueuesShrink
<1>5. ASSUME NEW R, Cleared(R) PROVE InOneStream' /\ InLast'
  <2>1. watchers' = << >> /\ UNCHANGED <<streams, pushes, handle>>
    BY <1>5 DEF Cleared
  <2>2. /\ Len(streams') = Len(streams) /\ \A i, j, c : At(i, j, c)' => At(i, j, c)
        /\ Registrations' = Registrations /\ DOMAIN watchers' = {}
    BY <2>1, AtSame DEF Registrations
  <2> QED BY <2>2, QueuesShrink
<1>6. CASE WatchGone
  BY <1>6, GoneKeeps DEF InOneStream, InLast
<1>7. ASSUME NEW s \in 1..Len(streams), StartJob(s) PROVE InOneStream' /\ InLast'
  BY <1>7, StartJobQueues
<1>8. ASSUME NEW s \in 1..Len(streams), NEW d, EndCall(s, d) PROVE InOneStream' /\ InLast'
  <2>1. UNCHANGED <<watchers, pushes, handle>>
    BY <1>8 DEF EndCall
  <2>2. Len(streams') = Len(streams) /\ \A i, j, c : At(i, j, c)' => At(i, j, c)
    BY <1>8, EndCallIs
  <2>3. Registrations' = Registrations
    BY <2>1 DEF Registrations
  <2> QED BY <2>1, <2>2, <2>3, QueuesShrink
<1> QED BY <1>1, <1>2, <1>3, <1>4, <1>5, <1>6, <1>7, <1>8 DEF WatchStep, Deliver

LEMMA SpecQueues == Spec => [](InOneStream /\ InLast)
<1>1. Init => InOneStream /\ InLast
  BY WatchInit DEF InOneStream, InLast
<1>2. Inv /\ WatchTypes /\ Ids /\ InOneStream /\ InLast /\ [Next]_vars => InOneStream' /\ InLast'
  <2> SUFFICES ASSUME Inv, WatchTypes, Ids, InOneStream, InLast, [Next]_vars
               PROVE  InOneStream' /\ InLast'
    OBVIOUS
  <2>1. UNCHANGED vars => WatchStep
    BY DEF vars, WatchStep
  <2> QED BY <2>1, WatchKinds, QueuesKeep
<1> QED BY <1>1, <1>2, SpecInv, SpecWatch, PTL DEF Spec

\* The callback of a registration is never called while an earlier call of it
\* runs, for any number of stores, streams and registrations, also when handles
\* are given back twice or after a close: only the last stream takes jobs, and
\* a stream is left behind only when nobody is watching (watch.ml scheduler,
\* unwatch; store_intf.ml watch).
THEOREM CallsOneAtATime == Spec => []OneCallAtATime
<1>1. ASSUME WatchTypes, InOneStream PROVE OneCallAtATime
  <2> SUFFICES ASSUME NEW i \in 1..Len(streams), NEW j \in 1..Len(streams),
                      NEW c \in streams[i].running, NEW d \in streams[j].running,
                      c.reg = d.reg
               PROVE  i = j /\ c = d
    BY DEF OneCallAtATime
  <2>1. \A l \in 1..Len(streams) : \A e \in streams[l].running : At(l, 0, e)
    <3> SUFFICES ASSUME NEW l \in 1..Len(streams), NEW e \in streams[l].running
                 PROVE  At(l, 0, e)
      OBVIOUS
    <3>1. streams[l] \in Streams
      BY <1>1 DEF WatchTypes
    <3>2. Len(streams[l].jobs) \in Nat
      BY <3>1 DEF Streams
    <3> QED BY <3>2 DEF At, JobAt
  <2> QED BY <1>1, <2>1 DEF InOneStream
<1>2. WatchTypes /\ InOneStream => OneCallAtATime
  BY <1>1
<1> QED BY <1>2, SpecWatch, SpecQueues, PTL
-----------------------------------------------------------------------------
(* The diffs follow each other. *)

\* The calls that a step adds.
NewAt(i, j, c) == At(i, j, c)' /\ ~At(i, j, c)

LEMMA NewCalls ==
  ASSUME WatchTypes, Ids, InLast, NEW k \in Keys, NEW v \in Held, Notify(k, v)
  PROVE  /\ \A i, j, c : At(i, j, c) => At(i, j, c)'
         /\ \A i, j, c : NewAt(i, j, c) =>
              j \in Nat /\ \E w \in Fired(k, v) : c = CallTo(w, k, v)
         /\ \A w \in Fired(k, v) : \E i, j : NewAt(i, j, CallTo(w, k, v))
         /\ \A i, j, c, l, n, d : NewAt(i, j, c) /\ NewAt(l, n, d) /\ c.reg = d.reg =>
              i = l /\ j = n /\ c = d
         /\ \A i, j, c, l, n, d : At(i, j, c) /\ NewAt(l, n, d) /\ c.reg = d.reg =>
              i = l /\ j < n
<1>1. CASE Fired(k, v) = {} /\ UNCHANGED <<streams, pushes>>
  BY <1>1, AtSame DEF NewAt
<1>2. CASE /\ pushes' = TRUE
           /\ Len(streams') = IF pushes THEN Len(streams) ELSE Len(streams) + 1
           /\ \E m \in Nat, js \in Seq(SUBSET Calls) :
                /\ js = Jobs(k, v)
                /\ \A i, j, c :
                     /\ At(i, j, c)' <=> \/ At(i, j, c)
                                         \/ /\ i = Len(streams')
                                            /\ \E n \in 1..Len(js) : j = m + n /\ c \in js[n]
                     /\ At(i, j, c) => i < Len(streams') \/ (i = Len(streams') /\ j <= m)
  <2>1. PICK m \in Nat, js \in Seq(SUBSET Calls) :
          /\ js = Jobs(k, v)
          /\ \A i, j, c :
               /\ At(i, j, c)' <=> \/ At(i, j, c)
                                   \/ /\ i = Len(streams')
                                      /\ \E n \in 1..Len(js) : j = m + n /\ c \in js[n]
               /\ At(i, j, c) => i < Len(streams') \/ (i = Len(streams') /\ j <= m)
    BY <1>2
  <2> DEFINE L == Len(streams')
  <2>2. /\ \A n \in 1..Len(js) : \A c \in js[n] : \E w \in Fired(k, v) : c = CallTo(w, k, v)
        /\ \A w \in Fired(k, v) : \E n \in 1..Len(js) : CallTo(w, k, v) \in js[n]
        /\ \A n, o \in 1..Len(js) : \A c : c \in js[n] /\ c \in js[o] => n = o
    BY <2>1, JobsAre
  <2>3. L \in Nat /\ ~(L < L)
    <3>1. Len(streams) \in Nat
      BY DEF WatchTypes
    <3> QED BY <1>2, <3>1
  <2>4. ASSUME NEW n \in 1..Len(js), NEW c \in js[n], NEW l, l = L PROVE NewAt(l, m + n, c)
    <3>1. At(l, m + n, c)'
      BY <2>1, <2>4
    <3>2. ~(m + n <= m)
      OBVIOUS
    <3> QED BY <2>1, <2>3, <2>4, <3>1, <3>2 DEF NewAt
  <2>5. ASSUME NEW i, NEW j, NEW c, NewAt(i, j, c)
        PROVE  i = L /\ \E n \in 1..Len(js) : j = m + n /\ c \in js[n]
    BY <2>1, <2>5 DEF NewAt
  <2>6. ASSUME NEW i, NEW j, NEW c, NewAt(i, j, c)
        PROVE  j \in Nat /\ j > m /\ \E w \in Fired(k, v) : c = CallTo(w, k, v)
    BY <2>2, <2>5, <2>6
  <2>7. ASSUME NEW w \in Fired(k, v) PROVE \E i, j : NewAt(i, j, CallTo(w, k, v))
    BY <2>2, <2>4
  <2>8. ASSUME NEW i, NEW j, NEW c, NEW l, NEW n, NEW d, NewAt(i, j, c), NewAt(l, n, d),
               c.reg = d.reg
        PROVE  i = l /\ j = n /\ c = d
    <3>1. PICK w \in Fired(k, v) : c = CallTo(w, k, v)
      BY <2>6, <2>8
    <3>2. PICK u \in Fired(k, v) : d = CallTo(u, k, v)
      BY <2>6, <2>8
    <3>3. watchers[w].reg = watchers[u].reg
      BY <2>8, <3>1, <3>2 DEF CallTo
    <3>4. c = d
      BY <3>1, <3>2, <3>3 DEF Ids, Fired
    <3>5. PICK a \in 1..Len(js) : j = m + a /\ c \in js[a]
      BY <2>5, <2>8
    <3>6. PICK b \in 1..Len(js) : n = m + b /\ d \in js[b]
      BY <2>5, <2>8
    <3>7. a = b
      BY <2>2, <3>4, <3>5, <3>6
    <3> QED BY <2>5, <2>8, <3>4, <3>5, <3>6, <3>7
  <2>9. ASSUME NEW i, NEW j, NEW c, NEW l, NEW n, NEW d, At(i, j, c), NewAt(l, n, d),
               c.reg = d.reg
        PROVE  i = l /\ j < n
    <3>1. PICK w \in Fired(k, v) : d = CallTo(w, k, v)
      BY <2>6, <2>9
    <3>2. w \in DOMAIN watchers /\ watchers[w].reg = c.reg
      BY <2>9, <3>1 DEF CallTo, Fired
    <3>3. pushes /\ i = Len(streams)
      BY <2>9, <3>2 DEF InLast
    <3>4. i = L /\ l = L /\ n \in Nat /\ n > m
      BY <1>2, <2>5, <2>6, <2>9, <3>3
    <3>5. j \in Nat /\ j <= m
      BY <2>1, <2>3, <2>9, <3>4, AtTyped
    <3> QED BY <3>4, <3>5
  <2>10. \A i, j, c : At(i, j, c) => At(i, j, c)'
    BY <2>1
  <2> QED BY <2>6, <2>7, <2>8, <2>9, <2>10
<1> QED BY <1>1, <1>2, NotifyStreams

Like(c, d) == c.reg = d.reg /\ c.key = d.key

NoneLeft == \A r \in Registrations, k \in Keys :
  (\A i, j, c : At(i, j, c) => ~(c.reg = r /\ c.key = k)) => seen[r][k] = promised[r][k]
Differs == \A i, j, c : At(i, j, c) => c.new # c.old
FromSeen == \A i, j, c :
  At(i, j, c) /\ (\A m, d : At(i, m, d) /\ Like(c, d) => j <= m)
    => c.old = seen[c.reg][c.key]
ToPromised == \A i, j, c :
  At(i, j, c) /\ (\A m, d : At(i, m, d) /\ Like(c, d) => m <= j)
    => c.new = promised[c.reg][c.key]
Linked == \A i, j, c, m, d :
  (/\ At(i, j, c) /\ At(i, m, d) /\ Like(c, d) /\ j < m
   /\ \A n, e : At(i, n, e) /\ Like(c, e) => n <= j \/ m <= n)
  => d.old = c.new
KnownPromised == \A w \in DOMAIN watchers : watchers[w].known = promised[watchers[w].reg]

Chained == NoneLeft /\ Differs /\ FromSeen /\ ToPromised /\ Linked /\ KnownPromised

LEMMA NotifyPromises ==
  ASSUME WatchTypes, NEW k \in Keys, NEW v \in Held, Notify(k, v)
  PROVE  \A r \in Registrations :
           /\ (\E w \in Fired(k, v) : watchers[w].reg = r) =>
                promised'[r] = [promised[r] EXCEPT ![k] = v] /\ promised'[r][k] = v
           /\ ~(\E w \in Fired(k, v) : watchers[w].reg = r) => promised'[r] = promised[r]
           /\ \A x \in Keys : ~(x = k /\ \E w \in Fired(k, v) : watchers[w].reg = r)
                => promised'[r][x] = promised[r][x]
<1> SUFFICES ASSUME NEW r \in Registrations
             PROVE  /\ (\E w \in Fired(k, v) : watchers[w].reg = r) =>
                         promised'[r] = [promised[r] EXCEPT ![k] = v] /\ promised'[r][k] = v
                    /\ ~(\E w \in Fired(k, v) : watchers[w].reg = r) => promised'[r] = promised[r]
                    /\ \A x \in Keys : ~(x = k /\ \E w \in Fired(k, v) : watchers[w].reg = r)
                         => promised'[r][x] = promised[r][x]
  OBVIOUS
<1>1. promised' = [q \in Registrations |->
                    IF \E w \in Fired(k, v) : watchers[w].reg = q
                    THEN [promised[q] EXCEPT ![k] = v] ELSE promised[q]]
  BY DEF Notify
<1>2. promised[r] \in Heads
  BY DEF WatchTypes
<1>3. \A x \in Keys : [promised[r] EXCEPT ![k] = v][x] = IF x = k THEN v ELSE promised[r][x]
  BY <1>2, HeadPut DEF Heads
<1>4. promised'[r] = IF \E w \in Fired(k, v) : watchers[w].reg = r
                     THEN [promised[r] EXCEPT ![k] = v] ELSE promised[r]
  BY <1>1
<1>5. CASE \E w \in Fired(k, v) : watchers[w].reg = r
  <2>1. promised'[r] = [promised[r] EXCEPT ![k] = v]
    BY <1>4, <1>5
  <2> QED BY <1>3, <1>4, <1>5, <2>1
<1>6. CASE ~(\E w \in Fired(k, v) : watchers[w].reg = r)
  <2>1. promised'[r] = promised[r]
    BY <1>4, <1>6
  <2> QED BY <1>4, <1>6, <2>1
<1> QED BY <1>5, <1>6

LEMMA NotifyChained ==
  ASSUME WatchTypes, Ids, InOneStream, InLast, Chained,
         NEW k \in Keys, NEW v \in Held, Notify(k, v)
  PROVE  Chained'
<1>1. seen' = seen /\ handle' = handle /\ Registrations' = Registrations
  BY DEF Notify, Registrations
<1>2. /\ \A i, j, c : At(i, j, c) => At(i, j, c)'
      /\ \A i, j, c : NewAt(i, j, c) =>
           j \in Nat /\ \E w \in Fired(k, v) : c = CallTo(w, k, v)
      /\ \A w \in Fired(k, v) : \E i, j : NewAt(i, j, CallTo(w, k, v))
      /\ \A i, j, c, l, n, d : NewAt(i, j, c) /\ NewAt(l, n, d) /\ c.reg = d.reg =>
           i = l /\ j = n /\ c = d
      /\ \A i, j, c, l, n, d : At(i, j, c) /\ NewAt(l, n, d) /\ c.reg = d.reg =>
           i = l /\ j < n
  BY NewCalls
<1>3. \A i, j, c : At(i, j, c)' <=> At(i, j, c) \/ NewAt(i, j, c)
  BY <1>2 DEF NewAt
<1>4. ASSUME NEW w \in Fired(k, v)
      PROVE  /\ w \in DOMAIN watchers /\ watchers[w].reg \in Registrations
             /\ CallTo(w, k, v).reg = watchers[w].reg /\ CallTo(w, k, v).key = k
             /\ CallTo(w, k, v).new = v
             /\ CallTo(w, k, v).old = promised[watchers[w].reg][k]
             /\ CallTo(w, k, v).old # v
  BY DEF Fired, Ids, CallTo, Chained, KnownPromised
<1>14. \A r \in Registrations :
         /\ (\E w \in Fired(k, v) : watchers[w].reg = r) =>
              promised'[r] = [promised[r] EXCEPT ![k] = v] /\ promised'[r][k] = v
         /\ ~(\E w \in Fired(k, v) : watchers[w].reg = r) => promised'[r] = promised[r]
         /\ \A x \in Keys : ~(x = k /\ \E w \in Fired(k, v) : watchers[w].reg = r)
              => promised'[r][x] = promised[r][x]
  BY NotifyPromises
<1>5. ASSUME NEW i, NEW j, NEW c, NewAt(i, j, c)
      PROVE  /\ j \in Nat /\ c.reg \in Registrations /\ c.key = k /\ c.new = v /\ c.old # v
             /\ c.old = promised[c.reg][k] /\ promised'[c.reg][k] = v
  <2>1. PICK w \in Fired(k, v) : c = CallTo(w, k, v)
    BY <1>2, <1>5
  <2>2. /\ c.reg = watchers[w].reg /\ c.key = k /\ c.new = v /\ c.old # v
        /\ c.old = promised[c.reg][k] /\ c.reg \in Registrations
    BY <1>4, <2>1
  <2>3. promised'[c.reg][k] = v
    BY <1>14, <2>1, <2>2
  <2> QED BY <1>2, <1>5, <2>2, <2>3
<1>6. ASSUME NEW r \in Registrations, NEW x \in Keys,
             \A i, j, c : NewAt(i, j, c) => ~(c.reg = r /\ c.key = x)
      PROVE  promised'[r][x] = promised[r][x]
  <2>1. ~(x = k /\ \E w \in Fired(k, v) : watchers[w].reg = r)
    BY <1>2, <1>4, <1>6
  <2> QED BY <1>14, <2>1
<1>7. \A i, j, c : At(i, j, c) => c.reg \in Registrations /\ c.key \in Keys /\ j \in Nat
  BY AtTyped DEF InLast, Calls
<1>8. NoneLeft'
  <2> SUFFICES ASSUME NEW r \in Registrations, NEW x \in Keys,
                      \A i, j, c : At(i, j, c)' => ~(c.reg = r /\ c.key = x)
               PROVE  seen[r][x] = promised'[r][x]
    BY <1>1 DEF NoneLeft
  <2>1. seen[r][x] = promised[r][x]
    BY <1>3 DEF Chained, NoneLeft
  <2> QED BY <1>3, <1>6, <2>1
<1>9. Differs'
  <2> SUFFICES ASSUME NEW i, NEW j, NEW c, At(i, j, c)' PROVE c.new # c.old
    BY DEF Differs
  <2> QED BY <1>3, <1>5 DEF Chained, Differs
<1>10. FromSeen'
  <2> SUFFICES ASSUME NEW i, NEW j, NEW c, At(i, j, c)',
                      \A m, d : At(i, m, d)' /\ Like(c, d) => j <= m
               PROVE  c.old = seen[c.reg][c.key]
    BY <1>1 DEF FromSeen
  <2>1. CASE At(i, j, c)
    BY <1>3, <2>1 DEF Chained, FromSeen
  <2>2. CASE NewAt(i, j, c)
    <3>1. ASSUME NEW l, NEW m, NEW d, At(l, m, d), d.reg = c.reg, d.key = c.key PROVE FALSE
      <4>1. l = i /\ m < j
        BY <1>2, <2>2, <3>1
      <4>2. m \in Nat /\ j \in Nat /\ j <= m
        BY <1>3, <1>5, <1>7, <2>2, <3>1, <4>1 DEF Like
      <4> QED BY <4>1, <4>2
    <3>2. seen[c.reg][c.key] = promised[c.reg][c.key]
      BY <1>5, <2>2, <3>1 DEF Chained, NoneLeft
    <3> QED BY <1>5, <2>2, <3>2
  <2> QED BY <1>3, <2>1, <2>2
<1>11. ToPromised'
  <2> SUFFICES ASSUME NEW i, NEW j, NEW c, At(i, j, c)',
                      \A m, d : At(i, m, d)' /\ Like(c, d) => m <= j
               PROVE  c.new = promised'[c.reg][c.key]
    BY DEF ToPromised
  <2>1. CASE At(i, j, c)
    <3>1. c.new = promised[c.reg][c.key]
      BY <1>3, <2>1 DEF Chained, ToPromised
    <3>2. ASSUME NEW l, NEW m, NEW d, NewAt(l, m, d), d.reg = c.reg, d.key = c.key PROVE FALSE
      <4>1. l = i /\ j < m
        BY <1>2, <2>1, <3>2
      <4>2. m \in Nat /\ j \in Nat /\ m <= j
        BY <1>3, <1>5, <1>7, <2>1, <3>2, <4>1 DEF Like
      <4> QED BY <4>1, <4>2
    <3>3. promised'[c.reg][c.key] = promised[c.reg][c.key]
      BY <1>6, <1>7, <2>1, <3>2
    <3> QED BY <3>1, <3>3
  <2>2. CASE NewAt(i, j, c)
    BY <1>5, <2>2
  <2> QED BY <1>3, <2>1, <2>2
<1>12. Linked'
  <2> SUFFICES ASSUME NEW i, NEW j, NEW c, NEW m, NEW d,
                      At(i, j, c)', At(i, m, d)', Like(c, d), j < m,
                      \A n, e : At(i, n, e)' /\ Like(c, e) => n <= j \/ m <= n
               PROVE  d.old = c.new
    BY DEF Linked
  <2>1. CASE At(i, j, c) /\ At(i, m, d)
    BY <1>3, <2>1 DEF Chained, Linked
  <2>2. CASE At(i, j, c) /\ NewAt(i, m, d)
    <3>1. ASSUME NEW n, NEW e, At(i, n, e), Like(c, e) PROVE n <= j
      <4>1. n < m
        BY <1>2, <2>2, <3>1 DEF Like
      <4>2. n <= j \/ m <= n
        BY <1>3, <3>1
      <4>3. n \in Nat /\ m \in Nat
        BY <1>5, <1>7, <2>2, <3>1
      <4> QED BY <4>1, <4>2, <4>3
    <3>2. c.new = promised[c.reg][c.key]
      BY <2>2, <3>1 DEF Chained, ToPromised
    <3> QED BY <1>5, <2>2, <3>2 DEF Like
  <2>3. CASE NewAt(i, j, c) /\ At(i, m, d)
    <3>1. m < j /\ m \in Nat /\ j \in Nat
      BY <1>2, <1>5, <1>7, <2>3 DEF Like
    <3> QED BY <3>1
  <2>4. CASE NewAt(i, j, c) /\ NewAt(i, m, d)
    <3>1. j = m /\ j \in Nat
      BY <1>2, <1>5, <2>4 DEF Like
    <3> QED BY <3>1
  <2> QED BY <1>3, <2>1, <2>2, <2>3, <2>4
<1>13. KnownPromised'
  <2> SUFFICES ASSUME NEW w \in DOMAIN watchers
               PROVE  watchers'[w].known = promised'[watchers[w].reg]
    BY NotifyWatchers DEF KnownPromised
  <2>1. watchers[w].known = promised[watchers[w].reg] /\ watchers[w].reg \in Registrations
    BY DEF Chained, KnownPromised, Ids
  <2>2. w \in Fired(k, v) <=> \E u \in Fired(k, v) : watchers[u].reg = watchers[w].reg
    BY DEF Ids, Fired
  <2>3. watchers'[w].known = IF w \in Fired(k, v) THEN [watchers[w].known EXCEPT ![k] = v]
                                                  ELSE watchers[w].known
    BY NotifyWatchers
  <2> QED BY <2>1, <2>2, <2>3, NotifyPromises
<1> QED BY <1>8, <1>9, <1>10, <1>11, <1>12, <1>13 DEF Chained

\* A step after which the same calls are left, with the same heads for each of
\* the registrations there were.
LEMMA ChainedStays ==
  ASSUME Chained, InLast, streams' = streams,
         \A r \in Registrations : promised'[r] = promised[r] /\ seen'[r] = seen[r],
         \A r \in Registrations' : r \in Registrations \/ seen'[r] = promised'[r],
         \A w \in DOMAIN watchers' :
           \/ /\ w \in DOMAIN watchers /\ watchers'[w] = watchers[w]
              /\ watchers[w].reg \in Registrations
           \/ watchers'[w].known = promised'[watchers'[w].reg]
  PROVE  Chained'
<1>1. \A i, j, c : At(i, j, c)' <=> At(i, j, c)
  BY AtSame
<1>2. \A i, j, c : At(i, j, c) => c.reg \in Registrations
  BY DEF InLast
<1>3. NoneLeft'
  <2> SUFFICES ASSUME NEW r \in Registrations', NEW x \in Keys,
                      \A i, j, c : At(i, j, c)' => ~(c.reg = r /\ c.key = x)
               PROVE  seen'[r][x] = promised'[r][x]
    BY DEF NoneLeft
  <2>1. CASE r \in Registrations
    BY <1>1, <2>1 DEF Chained, NoneLeft
  <2>2. CASE seen'[r] = promised'[r]
    BY <2>2
  <2> QED BY <2>1, <2>2
<1>4. Differs'
  BY <1>1 DEF Chained, Differs
<1>5. FromSeen'
  BY <1>1, <1>2 DEF Chained, FromSeen
<1>6. ToPromised'
  BY <1>1, <1>2 DEF Chained, ToPromised
<1>7. Linked'
  BY <1>1 DEF Chained, Linked
<1>8. KnownPromised'
  BY DEF Chained, KnownPromised
<1> QED BY <1>3, <1>4, <1>5, <1>6, <1>7, <1>8 DEF Chained

LEMMA StartJobChained ==
  ASSUME WatchTypes, Chained, NEW s \in 1..Len(streams), StartJob(s)
  PROVE  Chained'
<1> DEFINE S(i, j) == IF i = s THEN j + 1 ELSE j
<1>1. UNCHANGED <<watchers, handle, promised, seen>> /\ Registrations' = Registrations
  BY DEF StartJob, Registrations
<1>2. /\ \A i, c : At(i, 0, c) => i # s
      /\ \A i, j, c : /\ At(i, j, c)' => j \in Nat
                      /\ j \in Nat => (At(i, j, c)' <=> At(i, IF i = s THEN j + 1 ELSE j, c))
  BY StartJobIs
<1>3. ASSUME NEW i, NEW j, NEW c, At(i, j, c)' PROVE j \in Nat /\ At(i, S(i, j), c)
  BY <1>2, <1>3
<1>4. ASSUME NEW i, NEW m, NEW c, At(i, m, c)
      PROVE  \E j \in Nat : m = S(i, j) /\ At(i, j, c)'
  <2>1. m \in Nat
    BY <1>4, AtTyped
  <2>2. CASE i = s
    <3>1. m # 0 /\ m - 1 \in Nat /\ m = S(i, m - 1)
      BY <1>2, <1>4, <2>1, <2>2
    <3>2. At(i, m - 1, c)'
      BY <1>2, <1>4, <2>2, <3>1
    <3> QED BY <3>1, <3>2
  <2>3. CASE i # s
    <3>1. m = S(i, m) /\ At(i, m, c)'
      BY <1>2, <1>4, <2>1, <2>3
    <3> QED BY <2>1, <3>1
  <2> QED BY <2>2, <2>3
<1>5. \A i : \A j, m \in Nat : /\ S(i, j) < S(i, m) <=> j < m
                               /\ S(i, j) <= S(i, m) <=> j <= m
  OBVIOUS
<1> HIDE DEF S
<1>6. NoneLeft'
  BY <1>1, <1>4 DEF Chained, NoneLeft
<1>7. Differs'
  BY <1>3 DEF Chained, Differs
<1>8. FromSeen'
  <2> SUFFICES ASSUME NEW i, NEW j, NEW c, At(i, j, c)',
                      \A m, d : At(i, m, d)' /\ Like(c, d) => j <= m
               PROVE  c.old = seen[c.reg][c.key]
    BY <1>1 DEF FromSeen
  <2>1. ASSUME NEW m, NEW d, At(i, m, d), Like(c, d) PROVE S(i, j) <= m
    BY <1>3, <1>4, <1>5, <2>1
  <2> QED BY <1>3, <2>1 DEF Chained, FromSeen
<1>9. ToPromised'
  <2> SUFFICES ASSUME NEW i, NEW j, NEW c, At(i, j, c)',
                      \A m, d : At(i, m, d)' /\ Like(c, d) => m <= j
               PROVE  c.new = promised[c.reg][c.key]
    BY <1>1 DEF ToPromised
  <2>1. ASSUME NEW m, NEW d, At(i, m, d), Like(c, d) PROVE m <= S(i, j)
    BY <1>3, <1>4, <1>5, <2>1
  <2> QED BY <1>3, <2>1 DEF Chained, ToPromised
<1>10. Linked'
  <2> SUFFICES ASSUME NEW i, NEW j, NEW c, NEW m, NEW d,
                      At(i, j, c)', At(i, m, d)', Like(c, d), j < m,
                      \A n, e : At(i, n, e)' /\ Like(c, e) => n <= j \/ m <= n
               PROVE  d.old = c.new
    BY DEF Linked
  <2>1. ASSUME NEW n, NEW e, At(i, n, e), Like(c, e) PROVE n <= S(i, j) \/ S(i, m) <= n
    BY <1>3, <1>4, <1>5, <2>1
  <2>2. At(i, S(i, j), c) /\ At(i, S(i, m), d) /\ S(i, j) < S(i, m)
    BY <1>3, <1>5
  <2> QED BY <2>1, <2>2 DEF Chained, Linked
<1>11. KnownPromised'
  BY <1>1 DEF Chained, KnownPromised
<1> QED BY <1>6, <1>7, <1>8, <1>9, <1>10, <1>11 DEF Chained

LEMMA EndCallChained ==
  ASSUME WatchTypes, InOneStream, InLast, Chained,
         NEW s \in 1..Len(streams), NEW d, EndCall(s, d)
  PROVE  Chained'
<1>1. UNCHANGED <<watchers, handle, promised>> /\ Registrations' = Registrations
  BY DEF EndCall, Registrations
<1>2. /\ At(s, 0, d) /\ d \in Calls
      /\ \A r \in Registrations, k \in Keys :
           seen'[r][k] = IF r = d.reg /\ k = d.key THEN d.new ELSE seen[r][k]
      /\ \A i, j, c : At(i, j, c)' <=> At(i, j, c) /\ <<i, j, c>> # <<s, 0, d>>
  BY EndCallIs
<1>3. ASSUME NEW i, NEW j, NEW c, At(i, j, c)
      PROVE  /\ c.reg \in Registrations /\ c.key \in Keys /\ j \in Nat
             /\ At(i, j, c)' \/ (i = s /\ j = 0 /\ c = d)
             /\ Like(c, d) => i = s /\ (j = 0 => c = d)
  <2>1. c \in Calls /\ j \in Nat /\ c.reg \in Registrations
    BY <1>3, AtTyped DEF InLast
  <2>2. c.key \in Keys
    BY <2>1 DEF Calls
  <2> QED BY <1>2, <1>3, <2>1, <2>2 DEF InOneStream, Like
<1>4. ASSUME NEW i, NEW j, NEW c, At(i, j, c)'
      PROVE  At(i, j, c) /\ (Like(c, d) => i = s /\ j > 0)
  <2>1. At(i, j, c) /\ <<i, j, c>> # <<s, 0, d>>
    BY <1>2, <1>4
  <2> QED BY <1>3, <2>1
<1>5. d.reg \in Registrations /\ d.key \in Keys
  BY <1>2, <1>3
<1>6. NoneLeft'
  <2> SUFFICES ASSUME NEW r \in Registrations, NEW x \in Keys,
                      \A i, j, c : At(i, j, c)' => ~(c.reg = r /\ c.key = x)
               PROVE  seen'[r][x] = promised[r][x]
    BY <1>1 DEF NoneLeft
  <2>1. CASE r = d.reg /\ x = d.key
    <3>1. \A m, e : At(s, m, e) /\ Like(d, e) => m <= 0
      BY <1>3, <2>1 DEF Like
    <3>2. d.new = promised[d.reg][d.key]
      BY <1>2, <3>1 DEF Chained, ToPromised
    <3> QED BY <1>2, <2>1, <3>2
  <2>2. CASE ~(r = d.reg /\ x = d.key)
    <3>1. \A i, j, c : At(i, j, c) => ~(c.reg = r /\ c.key = x)
      BY <1>3, <2>2
    <3>2. seen[r][x] = promised[r][x]
      BY <3>1 DEF Chained, NoneLeft
    <3> QED BY <1>2, <2>2, <3>2
  <2> QED BY <2>1, <2>2
<1>7. Differs'
  BY <1>4 DEF Chained, Differs
<1>8. FromSeen'
  <2> SUFFICES ASSUME NEW i, NEW j, NEW c, At(i, j, c)',
                      \A m, e : At(i, m, e)' /\ Like(c, e) => j <= m
               PROVE  c.old = seen'[c.reg][c.key]
    BY DEF FromSeen
  <2>1. CASE Like(c, d)
    <3>1. At(s, j, c) /\ 0 < j /\ Like(d, c)
      BY <1>4, <2>1 DEF Like
    <3>2. \A n, e : At(s, n, e) /\ Like(d, e) => n <= 0 \/ j <= n
      BY <1>3, <1>4, <2>1 DEF Like
    <3>3. c.old = d.new
      BY <1>2, <3>1, <3>2 DEF Chained, Linked
    <3> QED BY <1>2, <1>5, <2>1, <3>3 DEF Like
  <2>2. CASE ~Like(c, d)
    <3>1. \A m, e : At(i, m, e) /\ Like(c, e) => j <= m
      BY <1>3, <2>2
    <3>2. c.old = seen[c.reg][c.key] /\ c.reg \in Registrations /\ c.key \in Keys
      BY <1>3, <1>4, <3>1 DEF Chained, FromSeen
    <3> QED BY <1>2, <2>2, <3>2 DEF Like
  <2> QED BY <2>1, <2>2
<1>9. ToPromised'
  <2> SUFFICES ASSUME NEW i, NEW j, NEW c, At(i, j, c)',
                      \A m, e : At(i, m, e)' /\ Like(c, e) => m <= j
               PROVE  c.new = promised[c.reg][c.key]
    BY <1>1 DEF ToPromised
  <2>1. At(i, j, c) /\ j \in Nat
    BY <1>3, <1>4
  <2>2. \A m, e : At(i, m, e) /\ Like(c, e) => m <= j
    BY <1>3, <2>1
  <2> QED BY <2>1, <2>2 DEF Chained, ToPromised
<1>10. Linked'
  <2> SUFFICES ASSUME NEW i, NEW j, NEW c, NEW m, NEW f,
                      At(i, j, c)', At(i, m, f)', Like(c, f), j < m,
                      \A n, e : At(i, n, e)' /\ Like(c, e) => n <= j \/ m <= n
               PROVE  f.old = c.new
    BY DEF Linked
  <2>1. At(i, j, c) /\ At(i, m, f) /\ j \in Nat
    BY <1>3, <1>4
  <2>2. \A n, e : At(i, n, e) /\ Like(c, e) => n <= j \/ m <= n
    BY <1>3, <2>1
  <2> QED BY <2>1, <2>2 DEF Chained, Linked
<1>11. KnownPromised'
  BY <1>1 DEF Chained, KnownPromised
<1> QED BY <1>6, <1>7, <1>8, <1>9, <1>10, <1>11 DEF Chained

LEMMA ChainedKeeps ==
  ASSUME WatchTypes, Ids, InOneStream, InLast, Chained, WatchStep
  PROVE  Chained'
<1>1. \A w \in DOMAIN watchers : watchers[w].reg \in Registrations
  BY DEF Ids
<1>2. CASE UNCHANGED watchVars
  BY <1>1, <1>2, ChainedStays DEF watchVars, Registrations
<1>3. ASSUME NEW k \in Keys, NEW v \in Held, Notify(k, v) PROVE Chained'
  BY <1>3, NotifyChained
<1>4. ASSUME NEW keys \in SUBSET Keys, NEW glob \in BOOLEAN, NEW init \in Heads,
             Registered(keys, glob, init)
      PROVE  Chained'
  <2> DEFINE n == Len(handle)
             w0 == [reg |-> n + 1, glob |-> glob, keys |-> keys, known |-> init]
  <2>1. /\ handle' = Append(handle, next) /\ streams' = streams
        /\ promised' = Append(promised, init) /\ seen' = Append(seen, init)
        /\ watchers' = [i \in DOMAIN watchers \cup {next} |-> IF i = next THEN w0 ELSE watchers[i]]
        /\ w0.reg = n + 1 /\ w0.known = init
    BY <1>4 DEF Registered
  <2> HIDE DEF w0
  <2>2. n \in Nat /\ Registrations = 1..n /\ Registrations' = 1..n + 1
    BY <2>1 DEF WatchTypes, Registrations
  <2>3. promised \in [1..n -> Heads] /\ seen \in [1..n -> Heads]
    BY <2>2 DEF WatchTypes
  <2> HIDE DEF n
  <2>4. /\ promised'[n + 1] = init /\ \A r \in 1..n : promised'[r] = promised[r]
        /\ seen'[n + 1] = init /\ \A r \in 1..n : seen'[r] = seen[r]
    BY <2>1, <2>2, <2>3, AppendFunction
  <2>5. \A r \in Registrations' : r \in Registrations \/ seen'[r] = promised'[r]
    BY <2>2, <2>4
  <2>6. ASSUME NEW w \in DOMAIN watchers'
        PROVE  \/ /\ w \in DOMAIN watchers /\ watchers'[w] = watchers[w]
                  /\ watchers[w].reg \in Registrations
               \/ watchers'[w].known = promised'[watchers'[w].reg]
    BY <1>1, <2>1, <2>4
  <2> QED BY <2>1, <2>2, <2>4, <2>5, <2>6, ChainedStays
<1>5. ASSUME NEW r \in Registrations, Unwatched(r) PROVE Chained'
  <2>1. /\ watchers' = [i \in DOMAIN watchers \ {handle[r]} |-> watchers[i]]
        /\ UNCHANGED <<streams, handle, promised, seen>> /\ Registrations' = Registrations
    BY <1>5 DEF Unwatched, Registrations
  <2> QED BY <1>1, <2>1, ChainedStays
<1>6. ASSUME NEW R, Cleared(R) PROVE Chained'
  <2>1. /\ watchers' = << >> /\ UNCHANGED <<streams, handle, promised, seen>>
        /\ Registrations' = Registrations /\ DOMAIN watchers' = {}
    BY <1>6 DEF Cleared, Registrations
  <2> QED BY <2>1, ChainedStays
<1>7. CASE WatchGone
  <2>1. \A i, j, c : ~At(i, j, c)'
    BY <1>7, GoneKeeps
  <2>2. Registrations' = {} /\ DOMAIN watchers' = {}
    BY <1>7 DEF WatchGone, Registrations
  <2> QED BY <2>1, <2>2 DEF Chained, NoneLeft, Differs, FromSeen, ToPromised, Linked, KnownPromised
<1>8. ASSUME NEW s \in 1..Len(streams), StartJob(s) PROVE Chained'
  BY <1>8, StartJobChained
<1>9. ASSUME NEW s \in 1..Len(streams), NEW d, EndCall(s, d) PROVE Chained'
  BY <1>9, EndCallChained
<1> QED BY <1>2, <1>3, <1>4, <1>5, <1>6, <1>7, <1>8, <1>9 DEF WatchStep, Deliver

LEMMA SpecChained == Spec => []Chained
<1>1. Init => Chained
  <2> SUFFICES ASSUME Init PROVE Chained
    OBVIOUS
  <2>1. Registrations = {} /\ DOMAIN watchers = {}
    BY DEF Init, NoWatch, Registrations
  <2> QED BY <2>1, WatchInit
          DEF Chained, NoneLeft, Differs, FromSeen, ToPromised, Linked, KnownPromised
<1>2. Inv /\ WatchTypes /\ Ids /\ InOneStream /\ InLast /\ Chained /\ [Next]_vars => Chained'
  <2> SUFFICES ASSUME Inv, WatchTypes, Ids, InOneStream, InLast, Chained, [Next]_vars
               PROVE  Chained'
    OBVIOUS
  <2>1. UNCHANGED vars => WatchStep
    BY DEF vars, WatchStep
  <2> QED BY <2>1, WatchKinds, ChainedKeeps
<1> QED BY <1>1, <1>2, SpecInv, SpecWatch, SpecQueues, PTL DEF Spec
-----------------------------------------------------------------------------
(* What one store alone has. *)

\* With one store, what its watchers know of a head is what it holds.
Current ==
  /\ \A w \in DOMAIN watchers : \A s \in Stores :
       /\ rw[s].open
       /\ \A k \in watchers[w].keys : watchers[w].known[k] = rw[s].cache[k]

\* A change of a head, told to the watchers.
LEMMA ChangeIsKnown ==
  ASSUME Inv, WatchTypes, Current, \A s, t \in Stores : s = t,
         NEW s \in Stores, NEW k \in Keys, NEW v \in Held, rw[s].open, Changed(s, k, v)
  PROVE  Current'
<1>1. PICK f, t : ChangedTo(s, k, v, f, t)
  BY ChangedIs
<1>2. rw'[s] = t /\ t.open /\ t.cache = [rw[s].cache EXCEPT ![k] = v]
  BY <1>1 DEF ChangedTo, Inv, Types
<1>3. rw[s].cache \in Heads
  <2>1. rw[s] \in Tables
    BY DEF Inv, Types
  <2> QED BY <2>1 DEF Tables
<1>4. \A x \in Keys : t.cache[x] = IF x = k THEN v ELSE rw[s].cache[x]
  BY <1>2, <1>3, HeadPut
<1>5. Notify(k, v)
  BY DEF Changed
<1>6. /\ DOMAIN watchers' = DOMAIN watchers
      /\ \A w \in DOMAIN watchers :
           /\ watchers'[w].keys = watchers[w].keys
           /\ watchers'[w].known = IF w \in Fired(k, v) THEN [watchers[w].known EXCEPT ![k] = v]
                                                        ELSE watchers[w].known
  BY <1>5, NotifyWatchers
<1>11. \A q \in Stores : rw'[q].open /\ rw'[q].cache = t.cache
  <2>1. \A q \in Stores : q = s
    OBVIOUS
  <2> QED BY <1>2, <2>1
<1> SUFFICES ASSUME NEW w \in DOMAIN watchers, NEW x \in watchers[w].keys
             PROVE  watchers'[w].known[x] = t.cache[x]
  <2>1. /\ \A w \in DOMAIN watchers' : w \in DOMAIN watchers
        /\ \A w \in DOMAIN watchers : watchers'[w].keys = watchers[w].keys
    BY <1>6
  <2> QED BY <1>11, <2>1 DEF Current
<1>7. watchers[w].known \in Heads /\ x \in Keys
  <2>1. watchers[w] \in Watchers
    BY DEF WatchTypes
  <2> QED BY <2>1 DEF Watchers
<1>8. watchers[w].known[x] = rw[s].cache[x]
  BY DEF Current
<1>9. CASE w \in Fired(k, v)
  <2>1. watchers'[w].known[x] = IF x = k THEN v ELSE watchers[w].known[x]
    <3>1. watchers'[w].known = [watchers[w].known EXCEPT ![k] = v]
      BY <1>6, <1>9
    <3> QED BY <1>7, <3>1, HeadPut
  <2> QED BY <1>4, <1>7, <1>8, <2>1
<1>10. CASE w \notin Fired(k, v)
  <2>1. watchers'[w].known = watchers[w].known
    BY <1>6, <1>10
  <2>2. x = k => watchers[w].known[k] = v
    BY <1>10 DEF Fired
  <2> QED BY <1>4, <1>7, <1>8, <2>1, <2>2
<1> QED BY <1>9, <1>10

LEMMA CurrentNext ==
  ASSUME Inv, WatchTypes, Current, "blindInit" \notin Allowed, \A s, t \in Stores : s = t,
         [Next]_vars
  PROVE  Current'
<1>1. ASSUME rw' = rw, DOMAIN watchers' \subseteq DOMAIN watchers,
             \A w \in DOMAIN watchers' : watchers'[w] = watchers[w]
      PROVE  Current'
  BY <1>1 DEF Current
<1>2. CASE UNCHANGED vars
  BY <1>1, <1>2 DEF vars, watchVars, storeVars
<1>3. ASSUME NEW s \in Stores, Open(s) PROVE Current'
  <2>1. ~rw[s].open /\ watchers' = watchers
    BY <1>3 DEF Open, watchVars
  <2> QED BY <2>1 DEF Current
<1>4. ASSUME NEW s \in Stores, Close(s) PROVE Current'
  BY <1>4 DEF Close, Cleared, Current
<1>5. ASSUME NEW s \in Stores, RoOpen(s) \/ RoFind(s) \/ RoClose(s) PROVE Current'
  BY <1>1, <1>5 DEF RoOpen, RoFind, RoClose, watchVars
<1>6. ASSUME NEW s \in Stores, NEW k \in Keys, NEW v \in Held, Set(s, k, v)
      PROVE  Current'
  <2>1. rw[s].open /\ Changed(s, k, v)
    BY <1>6 DEF Set
  <2> QED BY <2>1, ChangeIsKnown
<1>7. ASSUME NEW s \in Stores, NEW k \in Keys, NEW t \in Held, NEW v \in Held,
             TestAndSet(s, k, t, v)
      PROVE  Current'
  <2>1. rw[s].open
    BY <1>7 DEF TestAndSet
  <2>2. CASE Changed(s, k, v)
    BY <2>1, <2>2, ChangeIsKnown
  <2>3. CASE UNCHANGED <<file, rw, watchVars, held>>
    BY <1>1, <2>3 DEF watchVars
  <2> QED BY <1>7, <2>2, <2>3 DEF TestAndSet
<1>8. CASE Die
  BY <1>8 DEF Die, WatchGone, Current
<1>9. ASSUME NEW s \in Stores, NEW ks \in SUBSET Keys, NEW glob \in BOOLEAN,
             WatchHeads(s, ks, glob)
      PROVE  Current'
  <2> DEFINE init == [k \in Keys |-> IF k \in ks THEN rw[s].cache[k] ELSE None]
             w0 == [reg |-> Len(handle) + 1, glob |-> glob, keys |-> ks, known |-> init]
  <2>1. rw[s].open /\ rw' = rw /\ Registered(ks, glob, init)
    BY <1>9 DEF WatchHeads, storeVars
  <2>2. /\ watchers' = [i \in DOMAIN watchers \cup {next} |-> IF i = next THEN w0 ELSE watchers[i]]
        /\ w0.keys = ks /\ w0.known = init /\ \A k \in ks : init[k] = rw[s].cache[k]
    BY <2>1 DEF Registered
  <2> HIDE DEF w0, init
  <2>3. ASSUME NEW w \in DOMAIN watchers'
        PROVE  rw[s].open /\ \A k \in watchers'[w].keys : watchers'[w].known[k] = rw[s].cache[k]
    <3>1. CASE w = next
      BY <2>1, <2>2, <3>1
    <3>2. CASE w # next
      BY <2>1, <2>2, <3>2 DEF Current
    <3> QED BY <3>1, <3>2
  <2> QED BY <2>1, <2>3 DEF Current
<1>10. ASSUME NEW r \in Registrations, Unwatch(r) PROVE Current'
  BY <1>1, <1>10 DEF Unwatch, Unwatched, storeVars
<1>11. CASE Run
  BY <1>1, <1>11 DEF Run, Deliver, StartJob, EndCall, storeVars
<1>12. TRUE \in BOOLEAN /\ FALSE \in BOOLEAN /\ Keys \in SUBSET Keys
       /\ \A k \in Keys : {k} \in SUBSET Keys
  OBVIOUS
<1> QED BY <1>2, <1>3, <1>4, <1>5, <1>6, <1>7, <1>8, <1>9, <1>10, <1>11, <1>12 DEF Next

\* The calls left in the words of the property.
LEMMA ChainOfCalls ==
  ASSUME WatchTypes, InOneStream, Chained, KnownIsCurrent PROVE DiffsChain
<1>1. /\ \A i, j, c : At(i, j, c) => [stream |-> i, job |-> j, call |-> c] \in CallsLeft
      /\ \A x \in CallsLeft : At(x.stream, x.job, x.call)
  BY CallsLeftAre
<1>2. ASSUME NEW x \in CallsLeft
      PROVE  x.stream \in Nat /\ x.job \in Nat /\ At(x.stream, x.job, x.call)
  <2>1. At(x.stream, x.job, x.call) /\ Len(streams) \in Nat
    BY <1>1 DEF WatchTypes
  <2> QED BY <2>1, AtTyped
<1>3. ASSUME NEW x \in CallsLeft, NEW y \in CallsLeft, Alike(x, y)
      PROVE  /\ Like(x.call, y.call) /\ x.stream = y.stream
             /\ Before(x, y) <=> x.job < y.job
             /\ Before(y, x) <=> y.job < x.job
  <2>1. x.stream = y.stream
    BY <1>2, <1>3 DEF Alike, InOneStream
  <2> QED BY <1>2, <1>3, <2>1 DEF Alike, Like, Before
<1>4. ASSUME NEW x \in CallsLeft, NEW m, NEW d, At(x.stream, m, d), Like(x.call, d)
      PROVE  \E y \in CallsLeft : Alike(x, y) /\ y.job = m /\ y.call = d
  <2> DEFINE y == [stream |-> x.stream, job |-> m, call |-> d]
  <2>1. y \in CallsLeft /\ y.job = m /\ y.call = d
    BY <1>1, <1>4
  <2> HIDE DEF y
  <2>2. Alike(x, y)
    BY <1>4, <2>1 DEF Alike, Like
  <2> QED BY <2>1, <2>2
<1>5. \A r \in Registrations, k \in Keys :
        (\A x \in CallsLeft : ~(x.call.reg = r /\ x.call.key = k)) => seen[r][k] = promised[r][k]
  <2> SUFFICES ASSUME NEW r \in Registrations, NEW k \in Keys,
                      \A x \in CallsLeft : ~(x.call.reg = r /\ x.call.key = k)
               PROVE  seen[r][k] = promised[r][k]
    OBVIOUS
  <2>1. ASSUME NEW i, NEW j, NEW c, At(i, j, c) PROVE ~(c.reg = r /\ c.key = k)
    <3> DEFINE x == [stream |-> i, job |-> j, call |-> c]
    <3>1. x \in CallsLeft /\ x.call = c
      BY <1>1, <2>1
    <3> QED BY <3>1
  <2> QED BY <2>1 DEF Chained, NoneLeft
<1>6. ASSUME NEW x \in CallsLeft
      PROVE  /\ x.call.new # x.call.old
             /\ (\A y \in CallsLeft : Alike(x, y) => ~Before(y, x))
                  => x.call.old = seen[x.call.reg][x.call.key]
             /\ (\A y \in CallsLeft : Alike(x, y) => ~Before(x, y))
                  => x.call.new = promised[x.call.reg][x.call.key]
  <2>1. x.call.new # x.call.old
    BY <1>2 DEF Chained, Differs
  <2>2. ASSUME \A y \in CallsLeft : Alike(x, y) => ~Before(y, x)
        PROVE  x.call.old = seen[x.call.reg][x.call.key]
    <3>1. ASSUME NEW m, NEW d, At(x.stream, m, d), Like(x.call, d) PROVE x.job <= m
      <4>1. PICK y \in CallsLeft : Alike(x, y) /\ y.job = m /\ y.call = d
        BY <1>4, <3>1
      <4>2. ~(y.job < x.job) /\ y.job \in Nat /\ x.job \in Nat
        BY <1>2, <1>3, <2>2, <4>1
      <4> QED BY <4>1, <4>2
    <3> QED BY <1>2, <3>1 DEF Chained, FromSeen
  <2>3. ASSUME \A y \in CallsLeft : Alike(x, y) => ~Before(x, y)
        PROVE  x.call.new = promised[x.call.reg][x.call.key]
    <3>1. ASSUME NEW m, NEW d, At(x.stream, m, d), Like(x.call, d) PROVE m <= x.job
      <4>1. PICK y \in CallsLeft : Alike(x, y) /\ y.job = m /\ y.call = d
        BY <1>4, <3>1
      <4>2. ~(x.job < y.job) /\ y.job \in Nat /\ x.job \in Nat
        BY <1>2, <1>3, <2>3, <4>1
      <4> QED BY <4>1, <4>2
    <3> QED BY <1>2, <3>1 DEF Chained, ToPromised
  <2> QED BY <2>1, <2>2, <2>3
<1>7. ASSUME NEW x \in CallsLeft, NEW y \in CallsLeft, Alike(x, y), Before(x, y),
             \A z \in CallsLeft : Alike(x, z) => ~(Before(x, z) /\ Before(z, y))
      PROVE  y.call.old = x.call.new
  <2>1. /\ At(x.stream, x.job, x.call) /\ At(x.stream, y.job, y.call) /\ Like(x.call, y.call)
        /\ x.job < y.job
    BY <1>2, <1>3, <1>7
  <2>2. ASSUME NEW n, NEW e, At(x.stream, n, e), Like(x.call, e)
        PROVE  n <= x.job \/ y.job <= n
    <3>1. PICK z \in CallsLeft : Alike(x, z) /\ z.job = n /\ z.call = e
      BY <1>4, <2>2
    <3>2. Alike(z, y)
      BY <1>7, <3>1 DEF Alike
    <3>3. ~(x.job < z.job /\ z.job < y.job)
      BY <1>3, <1>7, <3>1, <3>2
    <3>4. x.job \in Nat /\ y.job \in Nat /\ z.job \in Nat
      BY <1>2
    <3> QED BY <3>1, <3>3, <3>4
  <2> QED BY <2>1, <2>2 DEF Chained, Linked
<1> QED BY <1>5, <1>6, <1>7 DEF DiffsChain

\* What a callback is given about a key is a chain of diffs, from what it last
\* dealt with to what the store holds, through any changes, registrations,
\* handles given back, closes and deaths: with one store, and watchers that are
\* registered with the heads of the moment (watch.ml notify_all_unsafe,
\* notify_key_unsafe, scheduler).  All but the last part, that the chain leads to
\* what the store holds, is Chained and needs neither.
THEOREM DiffsFollow ==
  ASSUME \A s, t \in Stores : s = t, "blindInit" \notin Allowed
  PROVE  Spec => []DiffsChain
<1>1. Init => Current
  BY DEF Init, NoWatch, Current
<1>2. Inv /\ WatchTypes /\ Current /\ [Next]_vars => Current'
  BY CurrentNext
<1>3. WatchTypes /\ Ids /\ StoreTypes /\ InOneStream /\ Chained /\ Current => DiffsChain
  <2> SUFFICES ASSUME WatchTypes, Ids, StoreTypes, InOneStream, Chained, Current
               PROVE  DiffsChain
    OBVIOUS
  <2>1. KnownIsCurrent
    BY DEF KnownIsCurrent, Current, Ids, StoreTypes
  <2> QED BY <2>1, ChainOfCalls
<1> QED BY <1>1, <1>2, <1>3, SpecInv, SpecWatch, SpecStores, SpecQueues, SpecChained, PTL DEF Spec

LEMMA ServedNext ==
  ASSUME WatchTypes, Ids, StoreTypes, ServedUntilGiven, "staleUnwatch" \notin Allowed,
         \A s, t \in Stores : s = t, Inv, [Next]_vars
  PROVE  ServedUntilGiven'
<1>1. ASSUME given' = given, handle' = handle, DOMAIN watchers' = DOMAIN watchers,
             \A w \in DOMAIN watchers : watchers'[w].reg = watchers[w].reg
      PROVE  ServedUntilGiven'
  <2>1. Registrations' = Registrations
    BY <1>1 DEF Registrations
  <2> QED BY <1>1, <2>1 DEF ServedUntilGiven
<1>2. CASE UNCHANGED vars
  BY <1>1, <1>2 DEF vars, watchVars
<1>3. ASSUME NEW s \in Stores, Open(s) \/ RoOpen(s) \/ RoFind(s) \/ RoClose(s)
      PROVE  ServedUntilGiven'
  BY <1>1, <1>3 DEF Open, RoOpen, RoFind, RoClose, watchVars
<1>4. ASSUME NEW k \in Keys, NEW v \in Held, Notify(k, v) PROVE ServedUntilGiven'
  <2>1. given' = given /\ handle' = handle
    BY <1>4 DEF Notify
  <2>2. /\ DOMAIN watchers' = DOMAIN watchers
        /\ \A w \in DOMAIN watchers : watchers'[w].reg = watchers[w].reg
    BY <1>4, NotifyWatchers
  <2> QED BY <1>1, <2>1, <2>2
<1>5. ASSUME NEW s \in Stores, NEW k \in Keys, NEW v \in Held, Set(s, k, v)
      PROVE  ServedUntilGiven'
  BY <1>4, <1>5 DEF Set, Changed
<1>6. ASSUME NEW s \in Stores, NEW k \in Keys, NEW t \in Held, NEW v \in Held,
             TestAndSet(s, k, t, v)
      PROVE  ServedUntilGiven'
  <2>1. CASE Notify(k, v)
    BY <1>4, <2>1
  <2>2. CASE UNCHANGED watchVars
    BY <1>1, <2>2 DEF watchVars
  <2> QED BY <1>6, <2>1, <2>2 DEF TestAndSet, Changed
<1>7. ASSUME NEW s \in Stores, Close(s) PROVE ServedUntilGiven'
  <2>1. Cleared({r \in Registrations : storeOf[r] = s})
    BY <1>7 DEF Close
  <2>2. /\ watchers' = << >> /\ handle' = handle
        /\ given' = [r \in Registrations |->
                       given[r] \/ r \in {q \in Registrations : storeOf[q] = s}]
    BY <2>1 DEF Cleared
  <2>3. Registrations' = Registrations /\ DOMAIN watchers' = {}
    BY <2>2 DEF Registrations
  <2>4. \A r \in Registrations : storeOf[r] = s
    BY DEF StoreTypes
  <2>5. \A r \in Registrations : given'[r]
    BY <2>2, <2>4
  <2> QED BY <2>3, <2>5 DEF ServedUntilGiven
<1>8. CASE Die
  <2>1. Registrations' = {}
    BY <1>8 DEF Die, WatchGone, Registrations
  <2> QED BY <2>1 DEF ServedUntilGiven
<1>9. ASSUME NEW keys \in SUBSET Keys, NEW glob \in BOOLEAN, NEW init \in Heads,
             Registered(keys, glob, init)
      PROVE  ServedUntilGiven'
  <2> DEFINE n == Len(handle)
             w0 == [reg |-> n + 1, glob |-> glob, keys |-> keys, known |-> init]
  <2>1. /\ handle' = Append(handle, next) /\ given' = Append(given, FALSE)
        /\ watchers' = [i \in DOMAIN watchers \cup {next} |-> IF i = next THEN w0 ELSE watchers[i]]
        /\ w0.reg = n + 1
    BY <1>9 DEF Registered
  <2> HIDE DEF w0
  <2>2. /\ n \in Nat /\ Registrations = 1..n /\ Registrations' = 1..n + 1
        /\ given \in [1..n -> BOOLEAN] /\ next \notin DOMAIN watchers
    BY <2>1 DEF WatchTypes, Registrations
  <2> HIDE DEF n
  <2>3. given'[n + 1] = FALSE /\ \A r \in 1..n : given'[r] = given[r]
    <3> DEFINE no == FALSE
               B == BOOLEAN
    <3>1. no \in B /\ given \in [1..n -> B] /\ given' = Append(given, no) /\ n \in Nat
      BY <2>1, <2>2
    <3> HIDE DEF no, B
    <3>2. given'[n + 1] = no /\ \A r \in 1..n : given'[r] = given[r]
      BY <3>1, AppendFunction
    <3> QED BY <3>2 DEF no
  <2>4. next \in DOMAIN watchers' /\ watchers'[next].reg = n + 1
    BY <2>1
  <2>5. ASSUME NEW r \in 1..n
        PROVE  (\A i \in DOMAIN watchers' : watchers'[i].reg # r) <=>
                 (\A i \in DOMAIN watchers : watchers[i].reg # r)
    <3>1. n + 1 # r
      BY <2>2
    <3>2. \A i \in DOMAIN watchers : i \in DOMAIN watchers' /\ watchers'[i] = watchers[i]
      BY <2>1, <2>2
    <3>3. \A i \in DOMAIN watchers' : i \in DOMAIN watchers \/ watchers'[i].reg = n + 1
      BY <2>1
    <3> QED BY <3>1, <3>2, <3>3
  <2>6. ASSUME NEW r \in 1..n
        PROVE  given'[r] <=> \A i \in DOMAIN watchers' : watchers'[i].reg # r
    <3>1. given[r] <=> \A i \in DOMAIN watchers : watchers[i].reg # r
      BY <2>2 DEF ServedUntilGiven
    <3>2. given'[r] = given[r]
      BY <2>3
    <3> QED BY <2>5, <3>1, <3>2
  <2>7. given'[n + 1] <=> \A i \in DOMAIN watchers' : watchers'[i].reg # n + 1
    BY <2>3, <2>4
  <2>8. \A r \in 1..n + 1 : r \in 1..n \/ r = n + 1
    BY <2>2
  <2> QED BY <2>2, <2>6, <2>7, <2>8 DEF ServedUntilGiven
<1>10. ASSUME NEW s \in Stores, NEW ks \in SUBSET Keys, NEW glob \in BOOLEAN,
              WatchHeads(s, ks, glob)
       PROVE  ServedUntilGiven'
  <2>1. \E init \in Heads : Registered(ks, glob, init)
    <3>1. Nothing \in Heads
      BY DEF Nothing, Heads, Held
    <3>2. [k \in Keys |-> IF k \in ks THEN rw[s].cache[k] ELSE None] \in Heads
      <4>1. rw[s] \in Tables
        BY DEF Inv, Types
      <4> QED BY <4>1 DEF Tables, Heads, Held
    <3> QED BY <1>10, <3>1, <3>2 DEF WatchHeads
  <2> QED BY <1>9, <2>1
<1>11. ASSUME NEW r \in Registrations, Unwatch(r) PROVE ServedUntilGiven'
  <2>1. ~given[r] /\ Unwatched(r)
    BY <1>11 DEF Unwatch
  <2>2. /\ watchers' = [i \in DOMAIN watchers \ {handle[r]} |-> watchers[i]]
        /\ given' = [given EXCEPT ![r] = TRUE] /\ handle' = handle
    BY <2>1 DEF Unwatched
  <2>3. Registrations' = Registrations /\ given \in [Registrations -> BOOLEAN]
    BY <2>2 DEF Registrations, WatchTypes
  <2>4. PICK w \in DOMAIN watchers : watchers[w].reg = r
    BY <2>1 DEF ServedUntilGiven
  <2>5. handle[r] = w
    BY <2>4 DEF Ids
  <2>6. given'[r] = TRUE /\ \A q \in Registrations : q # r => given'[q] = given[q]
    BY <2>2, <2>3
  <2>7. /\ \A i \in DOMAIN watchers' : i \in DOMAIN watchers /\ i # w /\ watchers'[i] = watchers[i]
        /\ \A i \in DOMAIN watchers : i # w => i \in DOMAIN watchers' /\ watchers'[i] = watchers[i]
    BY <2>2, <2>5
  <2>8. \A i \in DOMAIN watchers' : watchers'[i].reg # r
    BY <2>5, <2>7 DEF Ids
  <2>9. ASSUME NEW q \in Registrations, q # r
        PROVE  given'[q] <=> \A i \in DOMAIN watchers' : watchers'[i].reg # q
    <3>1. given[q] <=> \A i \in DOMAIN watchers : watchers[i].reg # q
      BY DEF ServedUntilGiven
    <3>2. (\A i \in DOMAIN watchers' : watchers'[i].reg # q) <=>
            (\A i \in DOMAIN watchers : watchers[i].reg # q)
      BY <2>4, <2>7, <2>9
    <3> QED BY <2>6, <2>9, <3>1, <3>2
  <2>10. given'[r] <=> \A i \in DOMAIN watchers' : watchers'[i].reg # r
    BY <2>6, <2>8
  <2> QED BY <2>3, <2>9, <2>10 DEF ServedUntilGiven
<1>12. CASE Run
  <2>1. UNCHANGED <<watchers, given, handle>>
    BY <1>12 DEF Run, Deliver, StartJob, EndCall
  <2> QED BY <1>1, <2>1
<1>13. /\ TRUE \in BOOLEAN /\ FALSE \in BOOLEAN /\ Keys \in SUBSET Keys
       /\ \A k \in Keys : {k} \in SUBSET Keys
  OBVIOUS
<1> QED BY <1>2, <1>3, <1>5, <1>6, <1>7, <1>8, <1>10, <1>11, <1>12, <1>13 DEF Next

\* A registration is served until its own handle is given back or its store is
\* closed, and not after, whatever is registered meanwhile and whichever ids
\* are used again: with one store, and handles that are given back once
\* (watch.ml watch, unwatch, clear).
THEOREM ServedWhileWatched ==
  ASSUME \A s, t \in Stores : s = t, "staleUnwatch" \notin Allowed
  PROVE  Spec => []ServedUntilGiven
<1>1. Init => ServedUntilGiven
  BY DEF Init, NoWatch, ServedUntilGiven, Registrations
<1>2. WatchTypes /\ Ids /\ StoreTypes /\ Inv /\ ServedUntilGiven /\ [Next]_vars
        => ServedUntilGiven'
  BY ServedNext
<1> QED BY <1>1, <1>2, SpecInv, SpecWatch, SpecStores, PTL DEF Spec
=============================================================================
