----------------------------- MODULE StoreHead -----------------------------
(***************************************************************************)
(* The heads of a store (irmin/store.ml) and the fibers that change them:   *)
(* an update, a fast-forward or a merge reads the head, makes a commit on   *)
(* top of it, swaps the head for that commit if it is still the same and    *)
(* starts again if it is not.  The tree of a commit is what it has at one   *)
(* path.                                                                    *)
(***************************************************************************)
EXTENDS CommitHistory

CONSTANTS
  Fibers,
  Branches,   \* heads that the branch store keeps
  Detached,   \* heads of stores that have no branch: a reference under t.lock
  Stores,     \* values of type t, each with a t.lock of its own
  Values,     \* what a path may have
  Absent,     \* nothing at the path
  Requests,   \* the calls that fibers make
  Pasts,      \* the histories and heads that earlier calls made
  Retries,    \* of an update (13 by default)
  SameInfo,   \* whether a merge may have the info of an earlier merge
  MaxCalls,   \* bound: calls in a behaviour
  None        \* no value where there may be one

Refs == Branches \cup Detached
Trees == Values \cup {Absent}
NoCommit == 0
\* What calls ask for: store is the value they are made with, ref its head, and info
\* stands for the author, date and message.
Calls ==
  [op : {"set"}, store : Stores, ref : Refs, tree : Trees, empty : BOOLEAN,
   info : Nat] \cup
  [op : {"test_and_set", "merge_tree"}, store : Stores, ref : Refs, test : Trees,
   tree : Trees, empty : BOOLEAN, info : Nat] \cup
  [op : {"merge", "fast_forward", "force"}, store : Stores, ref : Refs, from : Refs,
   info : Nat]

\* of_ref: a store has one head.  Each value of a branch reads the same head in the
\* branch store; the reference of a detached head is that of one value.
OneHead ==
  \A r1, r2 \in Requests :
    /\ r1.store = r2.store => r1.ref = r2.ref
    /\ r1.ref = r2.ref /\ r1.ref \in Detached => r1.store = r2.store

\* What calls answer.
Results == {"ok", "unchanged", "test_was", "conflict", "too_many_retries",
            "rejected", "no_change", "no_source"}

\* What is stored of a commit.
Stored == [parents : SUBSET Nat, tree : Trees, info : Nat]

\* The parents of a commit come before it, and a commit is stored once: its key is
\* the hash of what is stored.
WellFormed(h) ==
  /\ h \in Seq(Stored)
  /\ \A c \in Commits(h) : h[c].parents \subseteq 1..(c - 1)
  /\ \A i, j \in Commits(h) : h[i] = h[j] => i = j

ASSUME StoreHeadAssumption ==
  /\ Requests \subseteq Calls /\ OneHead /\ Retries \in Nat /\ MaxCalls \in Nat
  /\ Absent \notin Values /\ SameInfo \in BOOLEAN
  /\ None \notin Results /\ None \notin Trees /\ None \notin Fibers
  /\ None \notin [request : Calls, found : Nat]
  /\ Branches \cap Detached = {}
  /\ \A past \in Pasts : /\ WellFormed(past.history)
                         /\ past.head \in [Refs -> Commits(past.history) \cup {NoCommit}]

VARIABLES
  history,   \* the commits that were made; a commit is its position
  head,      \* the commit of each head, or NoCommit
  lock,      \* who holds the t.lock of each store, or None
  pc,        \* where each fiber is
  call,      \* the call it makes, with the commit it found at call.from
  snap,      \* the head it read
  new,       \* the commit it would put there
  tries,     \* the swaps that it lost
  \* history
  result,    \* what its last call answered
  rivals,    \* the changes that others made to the head since the call began
  calls      \* the calls that were made

vars == <<history, head, lock, pc, call, snap, new, tries, result, rivals, calls>>

-----------------------------------------------------------------------------
(* Merges. *)

\* Mutant of Merged: the second side wins a conflict.
MergedTheirs(old, x, y) ==
  CASE x = y -> x
    [] old = y -> x
    [] old \in {None, Absent} /\ y = Absent -> x
    [] OTHER -> y

\* The three-way merge of what a path has, for contents that are merged as
\* Contents.String is: None is no common ancestor, the answer None a conflict.
Merged(old, x, y) ==
  CASE x = y -> x
    [] old = x -> y
    [] old = y -> x
    [] old \in {None, Absent} /\ x = Absent -> y
    [] old \in {None, Absent} /\ y = Absent -> x
    [] OTHER -> None

\* A store of commits, and a commit of it or a conflict (NoCommit).
Found(h, c) == [history |-> h, commit |-> c]

\* Mutant of Added: a commit that is there already is stored again.
AddedAgain(h, c) == Found(Append(h, c), Len(h) + 1)

\* A commit is its contents: it is made once.
Added(h, c) ==
  IF \E i \in Commits(h) : h[i] = c
  THEN Found(h, CHOOSE i \in Commits(h) : h[i] = c)
  ELSE Found(Append(h, c), Len(h) + 1)

\* merge_commit, under Merge.option: a commit that is a parent of the other one, or the
\* base, gives way; otherwise the trees are merged.  Merge.option makes the base to
\* compare it with the two before merge_commit looks at their parents, and merge_commit
\* makes it again.  Neither changes the outcome: the only lowest common ancestor of a
\* commit and a parent of it is that parent, a base for which no commit is made, and what
\* is made twice with one info is the same commits.
MergeCommit(h, c1, c2, base, info) ==
  LET old == IF base.commit = NoCommit THEN None ELSE base.history[base.commit].tree
      tree == Merged(old, h[c1].tree, h[c2].tree)
  IN IF c1 \in h[c2].parents THEN Found(h, c2)
     ELSE IF c2 \in h[c1].parents THEN Found(h, c1)
     ELSE IF base.commit = c1 THEN Found(base.history, c2)
     ELSE IF base.commit = c2 THEN Found(base.history, c1)
     ELSE IF tree = None THEN Found(base.history, NoCommit)
     ELSE Added(base.history, [parents |-> {c1, c2}, tree |-> tree, info |-> info])

\* The base of a merge is the merge of the lowest common ancestors, one after the
\* other by the function merge; there is none if they conflict.
MergedBase(merge, h, lcas) ==
  LET base[i \in 0..Len(lcas)] ==
        IF i = 0 THEN Found(h, NoCommit)
        ELSE IF i = 1 THEN Found(h, lcas[1])
        ELSE IF base[i - 1].commit = NoCommit THEN base[i - 1]
        ELSE merge[[h |-> base[i - 1].history, c1 |-> base[i - 1].commit,
                    c2 |-> lcas[i]]]
  IN base[Len(lcas)]

\* The merges that may be asked for.
Merges ==
  {a \in [h : Seq(Stored), c1 : Nat, c2 : Nat] :
     WellFormed(a.h) /\ {a.c1, a.c2} \subseteq Commits(a.h)}

\* three_way_merge.  The merges of a base are of common ancestors, which are no younger
\* than either side: at the second level down at the latest the older of the two sides
\* is an older commit, so that merges nest at most twice as deep as there are commits.
ThreeWayMerge(history0, commit1, commit2, info) ==
  LET Merge[depth \in 0..2 * Len(history0)] ==
        [a \in Merges |->
           IF a.c1 = a.c2 THEN Found(a.h, a.c1)
           ELSE IF depth = 0 THEN Found(a.h, NoCommit)
           ELSE MergeCommit(a.h, a.c1, a.c2,
                  MergedBase(Merge[depth - 1], a.h, SetToSeq(Lcas(a.h, a.c1, a.c2))),
                  info)]
  IN Merge[2 * Len(history0)][[h |-> history0, c1 |-> commit1, c2 |-> commit2]]
-----------------------------------------------------------------------------
Init ==
  /\ \E past \in Pasts : history = past.history /\ head = past.head
  /\ lock = [s \in Stores |-> None]
  /\ pc = [f \in Fibers |-> "idle"] /\ call = [f \in Fibers |-> None]
  /\ snap = [f \in Fibers |-> NoCommit] /\ new = [f \in Fibers |-> NoCommit]
  /\ tries = [f \in Fibers |-> 0] /\ rivals = [f \in Fibers |-> 0]
  /\ result = [f \in Fibers |-> None] /\ calls = 0

To(f, l) == pc' = [pc EXCEPT ![f] = l]

\* The info of r is new: the commits it makes are not those of another merge.
NewInfo(r) ==
  /\ \A c \in Commits(history) :
       Cardinality(history[c].parents) > 1 => history[c].info # r.info
  /\ \A f \in Fibers : call[f] # None /\ call[f].request.op = "merge" =>
       call[f].request.info # r.info

\* A call begins.  Those that bring another commit in read its head first.
Call(f) ==
  /\ pc[f] = "idle" /\ calls < MaxCalls
  /\ \E r \in Requests :
       /\ r.op = "merge" => SameInfo \/ NewInfo(r)
       /\ call' = [call EXCEPT ![f] =
            [request |-> r,
             found |-> IF "from" \in DOMAIN r THEN head[r.from] ELSE NoCommit]]
       /\ To(f, IF r.op = "merge" THEN "locking" ELSE "reading")
  /\ calls' = calls + 1
  /\ tries' = [tries EXCEPT ![f] = 0] /\ rivals' = [rivals EXCEPT ![f] = 0]
  /\ result' = [result EXCEPT ![f] = None]
  /\ UNCHANGED <<history, head, lock, snap, new>>

\* Mutant of Ends: a call that fails keeps its lock.
EndsKeepsLock(f, answer) ==
  /\ To(f, "idle")
  /\ result' = [result EXCEPT ![f] = answer]
  /\ call' = [call EXCEPT ![f] = None]
  /\ snap' = [snap EXCEPT ![f] = NoCommit] /\ new' = [new EXCEPT ![f] = NoCommit]
  /\ lock' = [s \in Stores |-> IF lock[s] = f /\ answer = "ok" THEN None ELSE lock[s]]

\* The call returns; what it held is released.
Ends(f, answer) ==
  /\ To(f, "idle")
  /\ result' = [result EXCEPT ![f] = answer]
  /\ call' = [call EXCEPT ![f] = None]
  /\ snap' = [snap EXCEPT ![f] = NoCommit] /\ new' = [new EXCEPT ![f] = NoCommit]
  /\ lock' = [s \in Stores |-> IF lock[s] = f THEN None ELSE lock[s]]

\* Head.merge holds t.lock as long as it tries, which does not keep out another store
\* of the same branch.
Lock(f) ==
  LET s == call[f].request.store
  IN /\ pc[f] = "locking" /\ lock[s] = None
     /\ lock' = [lock EXCEPT ![s] = f]
     /\ To(f, "reading")
     /\ UNCHANGED <<history, head, call, snap, new, tries, result, rivals, calls>>

\* The head h was read, and c of the commits in made is to be put in its place.
Prepared(f, h, made) ==
  /\ history' = made.history
  /\ snap' = [snap EXCEPT ![f] = h] /\ new' = [new EXCEPT ![f] = made.commit]
  /\ To(f, "swapping")
  /\ UNCHANGED <<lock, call, result>>

\* The tree that the function of the call gives: an error or a tree.
Wanted(r, current) ==
  CASE r.op = "set" -> [tree |-> r.tree]
    [] r.op = "test_and_set" -> IF r.test = current THEN [tree |-> r.tree]
                                ELSE [error |-> "test_was"]
    [] r.op = "merge_tree" -> LET tree == Merged(r.test, current, r.tree)
                              IN IF tree = None THEN [error |-> "conflict"]
                                 ELSE [tree |-> tree]

\* Mutant of Update: a test_and_set only looks whether the path has something.
UpdateTestsPresence(f) ==
  LET r == call[f].request
      h == head[r.ref]
      current == IF h = NoCommit THEN Absent ELSE history[h].tree
      wanted == IF r.op = "test_and_set"
                THEN IF (r.test = Absent) = (current = Absent) THEN [tree |-> r.tree]
                     ELSE [error |-> "test_was"]
                ELSE Wanted(r, current)
  IN /\ pc[f] = "reading" /\ r.op \in {"set", "test_and_set", "merge_tree"}
     /\ IF r.tree = current /\ ~r.empty /\ h # NoCommit
        THEN Ends(f, "unchanged") /\ UNCHANGED history
        ELSE IF "error" \in DOMAIN wanted
             THEN Ends(f, wanted.error) /\ UNCHANGED history
             ELSE Prepared(f, h, Added(history,
                    [parents |-> IF h = NoCommit THEN {} ELSE {h},
                     tree |-> wanted.tree, info |-> r.info]))
     /\ UNCHANGED <<head, tries, rivals, calls>>

\* update: the snapshot of the head, and the commit on top of it.
Update(f) ==
  LET r == call[f].request
      h == head[r.ref]
      current == IF h = NoCommit THEN Absent ELSE history[h].tree
      wanted == Wanted(r, current)
  IN /\ pc[f] = "reading" /\ r.op \in {"set", "test_and_set", "merge_tree"}
     /\ IF r.tree = current /\ ~r.empty /\ h # NoCommit
        THEN Ends(f, "unchanged") /\ UNCHANGED history
        ELSE IF "error" \in DOMAIN wanted
             THEN Ends(f, wanted.error) /\ UNCHANGED history
             ELSE Prepared(f, h, Added(history,
                    [parents |-> IF h = NoCommit THEN {} ELSE {h},
                     tree |-> wanted.tree, info |-> r.info]))
     /\ UNCHANGED <<head, tries, rivals, calls>>

\* Head.merge.
Merge(f) ==
  LET r == call[f].request
      h == head[r.ref]
      c == call[f].found
      made == ThreeWayMerge(history, c, h, r.info)
  IN /\ pc[f] = "reading" /\ r.op = "merge"
     /\ IF c = NoCommit THEN Ends(f, "no_source") /\ UNCHANGED history
        ELSE IF h = NoCommit THEN Prepared(f, h, Found(history, c))
        ELSE IF made.commit = NoCommit
             THEN Ends(f, "conflict") /\ history' = made.history
             ELSE Prepared(f, h, made)
     /\ UNCHANGED <<head, tries, rivals, calls>>

\* Head.fast_forward.
FastForward(f) ==
  LET r == call[f].request
      h == head[r.ref]
      c == call[f].found
  IN /\ pc[f] = "reading" /\ r.op = "fast_forward"
     /\ IF c = NoCommit THEN Ends(f, "no_source") /\ UNCHANGED history
        ELSE IF h = c THEN Ends(f, "no_change") /\ UNCHANGED history
        ELSE IF h = NoCommit \/ Lcas(history, c, h) = {h}
             THEN Prepared(f, h, Found(history, c))
             ELSE Ends(f, "rejected") /\ UNCHANGED history
     /\ UNCHANGED <<head, tries, rivals, calls>>

\* The head of ref becomes c.
Placed(f, ref, c) ==
  /\ head' = [head EXCEPT ![ref] = c]
  /\ rivals' = [g \in Fibers |->
       IF g # f /\ pc[g] # "idle" /\ call[g].request.ref = ref /\ head[ref] # c
       THEN rivals[g] + 1 ELSE rivals[g]]

\* Head.set, clone and Branch.remove: whatever the head is.
Overwrite(f) ==
  LET r == call[f].request
  IN /\ pc[f] = "reading" /\ r.op = "force"
     /\ Placed(f, r.ref, call[f].found)
     /\ Ends(f, "ok")
     /\ UNCHANGED <<history, tries, calls>>

\* A test-and-set that needs t.lock waits for it.
MayLock(f) ==
  LET r == call[f].request
  IN r.ref \in Detached \/ r.op = "fast_forward" => lock[r.store] \in {None, f}

\* Mutant of Swap: the head is not compared with the one that was read.
SwapBlind(f) ==
  /\ pc[f] = "swapping" /\ MayLock(f)
  /\ Placed(f, call[f].request.ref, new[f])
  /\ Ends(f, "ok")
  /\ UNCHANGED <<history, tries, calls>>

\* add_commit, test_and_set_unsafe: the head is swapped if it is the one read.
Swap(f) ==
  LET ref == call[f].request.ref
  IN /\ pc[f] = "swapping" /\ MayLock(f)
     /\ head[ref] = snap[f]
     /\ Placed(f, ref, new[f])
     /\ Ends(f, "ok")
     /\ UNCHANGED <<history, tries, calls>>

\* Mutant of Lost: a retry uses the head that was read first.
LostKeepsSnapshot(f) ==
  LET r == call[f].request
  IN /\ pc[f] = "swapping" /\ MayLock(f)
     /\ head[r.ref] # snap[f]
     /\ tries' = [tries EXCEPT ![f] = IF r.op = "merge" THEN @ ELSE @ + 1]
     /\ IF r.op = "fast_forward" THEN Ends(f, "rejected")
        ELSE IF r.op # "merge" /\ tries[f] = Retries THEN Ends(f, "too_many_retries")
        ELSE UNCHANGED <<pc, lock, call, snap, new, result>>
     /\ UNCHANGED <<history, head, rivals, calls>>

\* The head has changed.  An update tries Retries times more, Head.merge as often
\* as it takes, fast_forward does not.
Lost(f) ==
  LET r == call[f].request
  IN /\ pc[f] = "swapping" /\ MayLock(f)
     /\ head[r.ref] # snap[f]
     /\ tries' = [tries EXCEPT ![f] = IF r.op = "merge" THEN @ ELSE @ + 1]
     /\ IF r.op = "fast_forward" THEN Ends(f, "rejected")
        ELSE IF r.op # "merge" /\ tries[f] = Retries THEN Ends(f, "too_many_retries")
        ELSE To(f, "reading") /\ UNCHANGED <<lock, call, snap, new, result>>
     /\ UNCHANGED <<history, head, rivals, calls>>

\* What a fiber does in a call.
Step(f) == Lock(f) \/ Update(f) \/ Merge(f) \/ FastForward(f) \/ Overwrite(f)
             \/ Swap(f) \/ Lost(f)

Next == \E f \in Fibers : Call(f) \/ Step(f)

Spec == Init /\ [][Next]_vars

\* Where the fiber is not suspended for a lock: the guard of Step.
CanGo(f) ==
  /\ pc[f] # "idle"
  /\ pc[f] = "locking" => lock[call[f].request.store] = None
  /\ pc[f] = "swapping" => MayLock(f)

\* A fiber that can go on again and again does, as an Lwt_mutex serves its waiters in
\* turn: SF_vars(Step(f)), with the guard of Step written out, as TLC is slow to find
\* out whether a merge is ENABLED.
Fairness == \A f \in Fibers : <>[]~CanGo(f) \/ []<><<Step(f)>>_vars

FairSpec == Spec /\ Fairness
-----------------------------------------------------------------------------
(* Properties. *)

TreeOf(h, c) == IF c = NoCommit THEN Absent ELSE h[c].tree
Reaches(h, c1, c2) == c1 # NoCommit /\ c2 \in Ancestors(h, c1)

\* Every variable has its type, the history is one of commits that are stored once,
\* each after its parents, whatever merges added, and a lock is held by a merge that
\* runs (store.ml Head.merge).
TypeOK ==
  /\ WellFormed(history)
  /\ head \in [Refs -> Commits(history) \cup {NoCommit}]
  /\ pc \in [Fibers -> {"idle", "locking", "reading", "swapping"}]
  /\ \A f \in Fibers :
       /\ call[f] = None <=> pc[f] = "idle"
       /\ {snap[f], new[f]} \subseteq Commits(history) \cup {NoCommit}
       /\ tries[f] \in 0..(Retries + 1) /\ result[f] \in Results \cup {None}
  /\ \A s \in Stores : lock[s] # None =>
       LET f == lock[s]
       IN call[f] # None /\ call[f].request.op = "merge" /\ call[f].request.store = s

\* The call of f ends in this step, with the answer.
Answers(f, answer) == call[f] # None /\ pc'[f] = "idle" /\ result'[f] = answer

\* "Ensure the no commit becomes orphan in the process" (store.ml update): the
\* commit of a head stays reachable from it, whatever the fibers do, but for the
\* calls that set the head without a look at it.
NoOrphan ==
  [][\A r \in Refs :
       \/ head[r] \in {NoCommit, head'[r]}
       \/ Reaches(history', head'[r], head[r])
       \/ \E f \in Fibers : /\ Answers(f, "ok")
                           /\ call[f].request.op = "force"
                           /\ call[f].request.ref = r]_vars

\* test_and_set "atomically checks that the tree is test before modifying it to
\* set" (store_intf.ml): the head that it replaces has that tree.
TestsHeld ==
  [][\A f \in Fibers :
       Answers(f, "ok") /\ call[f].request.op = "test_and_set" =>
         LET r == call[f].request
         IN /\ TreeOf(history, head[r.ref]) = r.test
            /\ TreeOf(history', head'[r.ref]) = r.tree]_vars

\* A merge that succeeds brings in the commit that it found.  Where it makes a tree
\* that is not the one of a side, that side has changed nothing since a lowest common
\* ancestor; or it has nothing, and there is not one lowest common ancestor to say that
\* it had something (store_intf.ml merge, commit.ml merge_commit).
MergeKeepsBoth ==
  [][\A f \in Fibers :
       Answers(f, "ok") /\ call[f].request.op = "merge" =>
         LET ref == call[f].request.ref
             c == head'[ref]
             sides == {call[f].found, head[ref]} \ {NoCommit}
             bases == LowestCommon(history, call[f].found, head[ref])
         IN \A side \in sides :
              /\ Reaches(history', c, side)
              /\ \/ history[c].tree = history[side].tree
                 \/ \E a \in bases : history[a].tree = history[side].tree
                 \/ history[side].tree = Absent /\ \A a \in bases : bases # {a}]_vars

\* fast_forward updates the head only to a commit "stricly in the future" of it, and it
\* is "Rejected if [h] is not in the strict future of [t]'s head" (store_intf.ml), or
\* when another call has changed the head meanwhile.
FastForwardsExact ==
  [][\A f \in Fibers :
       call[f] # None /\ call[f].request.op = "fast_forward" =>
         LET c == call[f].found
             h == head[call[f].request.ref]
         IN /\ Answers(f, "ok") => h = NoCommit \/ (h # c /\ Reaches(history, c, h))
            /\ Answers(f, "rejected") => rivals[f] > 0 \/ ~Reaches(history, c, h)]_vars

\* What a call that looks at the head answers was so of the head that it replaced, or left
\* in its place, although it was read before.
AnswersHonest == TestsHeld /\ FastForwardsExact

\* An update gives up only when it lost every attempt to another call.
RetriesHonest ==
  \A f \in Fibers : result[f] = "too_many_retries" => rivals[f] > Retries

\* Where a merge or a fast-forward asks for the lowest common ancestors of two
\* commits, the search misses none of them, and finds common ancestors only.
LcasFound ==
  \A f \in Fibers :
    pc[f] = "reading" /\ call[f].request.op \in {"merge", "fast_forward"} =>
      LET c1 == call[f].found
          c2 == head[call[f].request.ref]
      IN NoCommit \notin {c1, c2} =>
           /\ LowestCommon(history, c1, c2) \subseteq Lcas(history, c1, c2)
           /\ Lcas(history, c1, c2)
                \subseteq Ancestors(history, c1) \cap Ancestors(history, c2)

\* The history that merges make, and what is searched for in it.
HistoryOK == TypeOK /\ LcasFound

\* "Find the lowest common ancestors" (commit_intf.ml lcas): all of them and no
\* other commit, which is not so of every history.
LcasExact ==
  \A f \in Fibers :
    pc[f] = "reading" /\ call[f].request.op \in {"merge", "fast_forward"} =>
      LET c1 == call[f].found
          c2 == head[call[f].request.ref]
      IN NoCommit \notin {c1, c2} =>
           Lcas(history, c1, c2) = LowestCommon(history, c1, c2)

\* A call ends, whether it waits for t.lock, holds it or tries again, unless others change
\* its head again and again (store.ml retry, retry_merge, Head.merge).  That every call
\* ends is not so: Head.merge, and who waits for its lock, may lose for ever to calls
\* that change the head of the branch without that lock.
EndsOrLoses ==
  \A f \in Fibers :
    []<>(pc[f] = "idle") \/ []<><<rivals'[f] = rivals[f] + 1>>_vars
=============================================================================
