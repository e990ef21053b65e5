--------------------------- MODULE CommitHistory ---------------------------
(***************************************************************************)
(* Histories of commits and the search for lowest common ancestors of       *)
(* irmin/commit.ml.  A history is the sequence of the commits that were     *)
(* made: the parents of a commit come before it.                            *)
(***************************************************************************)
EXTENDS Integers, Sequences, FiniteSets, SequencesExt

Commits(h) == 1..Len(h)

\* The commits that are reached from c, with itself.
Ancestors(h, c) ==
  LET from[d \in Commits(h)] == {d} \cup UNION {from[p] : p \in h[d].parents}
  IN from[c]

\* The common ancestors that no other common ancestor reaches.
LowestCommon(h, c1, c2) ==
  LET common == Ancestors(h, c1) \cap Ancestors(h, c2)
  IN {a \in common : \A b \in common : a \in Ancestors(h, b) => a = b}
-----------------------------------------------------------------------------
(* The marks of a search from c1 and c2. *)

Marks == {"none", "seen1", "seen2", "seenBoth", "LCA"}

\* Mutant of UpdateMark: the two sides meet in one order only.
UpdateMarkOneOrder(mark, old) ==
  CASE mark \in {"seen1", "seen2"} /\ old \in {mark, "none"} -> mark
    [] mark = "seen1" /\ old = "seen2" -> "LCA"
    [] mark # "seenBoth" /\ old = "LCA" -> "LCA"
    [] OTHER -> "seenBoth"

\* What a commit marked old becomes when mark reaches it.
UpdateMark(mark, old) ==
  CASE mark \in {"seen1", "seen2"} /\ old \in {mark, "none"} -> mark
    [] mark = "seenBoth" -> "seenBoth"
    [] {mark, old} = {"seen1", "seen2"} -> "LCA"
    [] mark # "seenBoth" /\ old = "LCA" -> "LCA"
    [] OTHER -> "seenBoth"

\* A search: the marks, the commits explored, those of the layer being explored,
\* its depth, the queue of the breadth-first traversal, and whether it is over.
Searches(h) ==
  [marks : [Commits(h) -> Marks], explored : SUBSET Commits(h),
   layer : SUBSET Commits(h), depth : Nat, todo : Seq(Nat \X Commits(h)),
   complete : BOOLEAN, init : SUBSET Commits(h)]

\* A traversal of update_ancestors_marks: the search it is part of, the commits
\* that wait for a mark and the mark for the next of them.
Walks(h) == [s : Searches(h), queue : Seq(Commits(h)), mark : Marks]

\* set_mark, with the check for fast-forwards: the search is over when one of the two
\* commits that it began with is reached from both sides.
Marked(s, c, mark) ==
  [s EXCEPT !.marks[c] = mark,
            !.complete = @ \/ (mark \in {"seenBoth", "LCA"} /\ c \in s.init)]

\* The first commit of the queue is marked.  Its parents wait behind the others, if
\* it was explored and its mark has changed; its mark is passed to the next of the
\* queue, whoever that is.
MarkNext(h, w) ==
  LET a == Head(w.queue)
      old == w.s.marks[a]
      new == UpdateMark(w.mark, old)
      parents == IF a \in w.s.explored THEN h[a].parents ELSE {}
      more == IF old \in {"seenBoth", "LCA", new} THEN {} ELSE parents
  IN [s |-> Marked(w.s, a, new), queue |-> Tail(w.queue) \o SetToSeq(more),
      mark |-> IF new = "LCA" THEN "seenBoth" ELSE new]

\* Mutant of UpdateAncestors: only the commit itself is marked.
UpdateAncestorsNone(h, s, mark, c) == Marked(s, c, UpdateMark(mark, s.marks[c]))

\* Marks c, then the ancestors of it that were explored, as far as marks change.
UpdateAncestors(h, s, mark, c) ==
  LET Walk[w \in Walks(h)] ==
        IF w.queue = << >> THEN w.s ELSE Walk[MarkNext(h, w)]
  IN Walk[[s |-> s, queue |-> <<c>>, mark |-> mark]]

\* The mark reaches every commit of ps.
UpdateAll(h, s, mark, ps) ==
  LET after[i \in 0..Len(ps)] ==
        IF i = 0 THEN s ELSE UpdateAncestors(h, after[i - 1], mark, ps[i])
  IN after[Len(ps)]

AtDepth(d, cs) == [i \in 1..Len(cs) |-> <<d, cs[i]>>]

\* update_parents: commit c is met at depth d.  When the layer before has only
\* commits seen from both sides, the search is over.
Explore(h, s, d, c) ==
  LET over == d # s.depth /\ \A x \in s.layer : s.marks[x] \in {"seenBoth", "LCA"}
      s1 == [s EXCEPT !.explored = @ \cup {c},
                      !.layer = IF d # s.depth THEN {c} ELSE @ \cup {c},
                      !.depth = d, !.complete = @ \/ over]
      s2 == UpdateAll(h, s1, s1.marks[c], SetToSeq(h[c].parents))
      next == SetToSeq(h[c].parents \ s1.explored)
  IN [s2 EXCEPT !.todo = @ \o AtDepth(d + 1, next)]

\* unqueue: the first commit of the queue is explored, if it was not already.
ExploreNext(h, s) ==
  LET top == Head(s.todo)
      rest == [s EXCEPT !.todo = Tail(@)]
  IN IF top[2] \in s.explored THEN rest ELSE Explore(h, rest, top[1], top[2])

\* empty_state.
StartSearch(h, c1, c2) ==
  [marks |-> [c \in Commits(h) |-> IF c = c1 THEN "seen1"
                                  ELSE IF c = c2 THEN "seen2" ELSE "none"],
   explored |-> {}, layer |-> {}, depth |-> 0,
   todo |-> AtDepth(0, SetToSeq({c1, c2})), complete |-> FALSE, init |-> {c1, c2}]

\* traverse_bfs and lcas, without the limits max_depth and n.
Lcas(h, c1, c2) ==
  LET Search[s \in Searches(h)] ==
        IF s.complete \/ s.todo = << >> THEN s ELSE Search[ExploreNext(h, s)]
  IN IF c1 = c2 THEN {c1}
     ELSE {c \in Commits(h) : Search[StartSearch(h, c1, c2)].marks[c] = "LCA"}
=============================================================================
