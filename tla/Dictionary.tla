----------------------------- MODULE Dictionary -----------------------------
(***************************************************************************)
(* container/dictionary.c: a search tree that makes the key last looked up *)
(* its root, threaded with a list in key order, both changed by the same   *)
(* functions.  An element is named by its key; its data is not modelled.   *)
(*                                                                         *)
(* The code treats left and right (and prev and next, head and tail) as    *)
(* mirror images; here a side is "l" or "r", child["l"] is the field left, *)
(* nbr["l"] the field prev and end["l"] the head of the list.              *)
(*                                                                         *)
(* `dkeys' is the set of keys the callers have added and not deleted,      *)
(* which no function reads.  Callers keep what dictionary.h asks of them:  *)
(* during an iteration only the current element is removed.                *)
(***************************************************************************)
EXTENDS Integers, FiniteSets, Sequences, Lists

CONSTANT DictKey      \* the keys, positive integers

ASSUME DictKeyAssumption == DictKey \subseteq (Nat \ {0}) /\ IsFiniteSet(DictKey)

VARIABLES
  dict,     \* the dictionary and its elements
  diter,    \* a mowgli_dictionary_iteration_state_t, with what it has shown
  dkeys

dictVars == <<dict, diter, dkeys>>

DNull == 0
DTmp == -1     \* the element n on the stack of mowgli_dictionary_retune

DSide == {"l", "r"}
DOther(s) == IF s = "l" THEN "r" ELSE "l"

mowgli_dictionary_create(cmp) ==
  [cmp |-> cmp, root |-> DNull, count |-> 0, dirty |-> FALSE,
   child |-> [s \in DSide |-> [e \in DictKey \cup {DTmp} |-> DNull]],
   nbr |-> [s \in DSide |-> [e \in DictKey |-> DNull]],
   end |-> [s \in DSide |-> DNull],
   position |-> [e \in DictKey |-> 0]]

DIdle == [on |-> FALSE, cur |-> DNull, next |-> DNull, start |-> {}, seen |-> {}]

\* the comparator: ascending, or the other way round
DBefore(d, k1, k2) == IF d.cmp = "up" THEN k1 < k2 ELSE k1 > k2

\* the side of element e on which key k belongs
DSideOf(d, k, e) == IF DBefore(d, k, e) THEN "l" ELSE "r"

-----------------------------------------------------------------------------
(* The tree.                                                               *)

\* A turn of the loop of retune, at t.node: the subtrees it has passed on
\* side s hang below t.end[s].  A child in which the key continues on the
\* same side is rotated up first.
DTurn(d, key, t) ==
  LET n == t.node
      s == DSideOf(d, key, n)
      c == t.child[s][n]
      rotate == c # key /\ DSideOf(d, key, c) = s
      m == IF rotate THEN c ELSE n
      ch == IF rotate
            THEN [t.child EXCEPT ![s][n] = t.child[DOther(s)][c], ![DOther(s)][c] = n]
            ELSE t.child
  IN  IF t.over \/ key = n \/ c = DNull THEN [t EXCEPT !.over = TRUE]
      ELSE IF ch[s][m] = DNull
      THEN [t EXCEPT !.child = ch, !.node = m, !.over = TRUE]
      ELSE [child |-> [ch EXCEPT ![s][t.end[s]] = m], node |-> ch[s][m],
            end |-> [t.end EXCEPT ![s] = m], over |-> FALSE]

\* each turn but the last leaves a node behind
DDescend(d, key) ==
  LET turn[k \in Nat] ==
        IF k = 0 THEN [child |-> d.child, node |-> d.root,
                       end |-> [s \in DSide |-> DTmp], over |-> FALSE]
        ELSE DTurn(d, key, turn[k - 1])
  IN  turn[Cardinality(DictKey)]

\* the assignments after the loop, for one side
DReassemble(child, node, end, s) ==
  LET ch == [child EXCEPT ![s][end[s]] = child[DOther(s)][node]]
  IN  [ch EXCEPT ![DOther(s)][node] = ch[s][DTmp]]

mowgli_dictionary_retune(d, key) ==
  IF d.root = DNull THEN d
  ELSE LET t == DDescend(d, key)
           ch == DReassemble(DReassemble(t.child, t.node, t.end, "r"), t.node, t.end, "l")
       IN  [d EXCEPT !.root = t.node,
                     !.child = [s \in DSide |-> [ch[s] EXCEPT ![DTmp] = DNull]]]

DFound(d, key) == d.root = key

\* the new element e becomes the root; the old root goes to its other side
DLinkAt(d, e, s) ==
  LET o == DOther(s)
      r == d.root
      p == d.nbr[s][r]
      far == [d.nbr[o] EXCEPT ![e] = r]
  IN  [d EXCEPT !.child[s] = [@ EXCEPT ![e] = d.child[s][r], ![r] = DNull],
                !.child[o][e] = r,
                !.nbr[s] = [@ EXCEPT ![e] = p, ![r] = e],
                !.nbr[o] = IF p = DNull THEN far ELSE [far EXCEPT ![p] = e],
                !.end[s] = IF p = DNull THEN e ELSE @,
                !.root = e, !.count = @ + 1, !.dirty = TRUE]

mowgli_dictionary_link(d, e) ==
  IF d.root = DNull
  THEN [d EXCEPT !.root = e, !.end = [s \in DSide |-> e], !.count = @ + 1,
                 !.dirty = TRUE,
                 !.child = [s \in DSide |-> [@[s] EXCEPT ![e] = DNull]],
                 !.nbr = [s \in DSide |-> [@[s] EXCEPT ![e] = DNull]]]
  ELSE LET d1 == mowgli_dictionary_retune(d, e)
       IN  IF DFound(d1, e) THEN [d1 EXCEPT !.dirty = TRUE]
           ELSE DLinkAt(d1, e, DSideOf(d1, e, d1.root))

\* parentofnext: down the left side from `at' to the parent of n
DParentOf(d, n, at) ==
  LET turn[k \in Nat] ==
        IF k = 0 THEN at
        ELSE LET a == turn[k - 1]
             IN  IF d.child["l"][a] \in {DNull, n} THEN a ELSE d.child["l"][a]
  IN  turn[Cardinality(DictKey)]

\* the successor is taken from the list but not unhooked from its parent
Mutant_DJoin(d) ==
  LET e == d.root
      l == d.child["l"][e]
      r == d.child["r"][e]
      next == d.nbr["r"][e]
  IN  IF l = DNull THEN [d EXCEPT !.root = r]
      ELSE IF r = DNull THEN [d EXCEPT !.root = l]
      ELSE [d EXCEPT !.root = next, !.child["l"][next] = l]

\* the tree without its root: the next element of the list takes its place
DJoin(d) ==
  LET e    == d.root
      l    == d.child["l"][e]
      r    == d.child["r"][e]
      next == d.nbr["r"][e]
  IN  IF l = DNull THEN [d EXCEPT !.root = r]
      ELSE IF r = DNull THEN [d EXCEPT !.root = l]
      ELSE IF next = r THEN [d EXCEPT !.root = next, !.child["l"][next] = l]
      ELSE LET p == DParentOf(d, next, r)
           IN  [d EXCEPT !.root = next,
                         !.child["l"] = [@ EXCEPT ![p] = d.child["r"][next], ![next] = l],
                         !.child["r"][next] = r]

DUnchain(d, e) ==
  LET p == d.nbr["l"][e]
      n == d.nbr["r"][e]
  IN  [d EXCEPT !.nbr["r"] = IF p = DNull THEN @ ELSE [@ EXCEPT ![p] = n],
                !.nbr["l"] = IF n = DNull THEN @ ELSE [@ EXCEPT ![n] = p],
                !.end["l"] = IF @ = e THEN n ELSE @,
                !.end["r"] = IF @ = e THEN p ELSE @]

mowgli_dictionary_unlink_root(d) ==
  [DUnchain(DJoin(d), d.root) EXCEPT !.count = @ - 1, !.dirty = TRUE]

\* what is left in a freed element is of no interest
DWipe(d, e) ==
  [d EXCEPT !.child = [s \in DSide |-> [@[s] EXCEPT ![e] = DNull]],
            !.nbr = [s \in DSide |-> [@[s] EXCEPT ![e] = DNull]],
            !.position[e] = 0]

DDelete(d, key) ==
  LET d1 == mowgli_dictionary_retune(d, key)
  IN  IF DFound(d1, key) THEN DWipe(mowgli_dictionary_unlink_root(d1), key)
      ELSE d1

\* the elements from e on, on side s
DPath(d, s, e) ==
  IF e = DNull THEN << >> ELSE Walk(d.nbr[s], e, DNull, Cardinality(DictKey))

-----------------------------------------------------------------------------
(* The calls.                                                              *)

DictInit ==
  /\ \E cmp \in {"up", "down"} : dict = mowgli_dictionary_create(cmp)
  /\ diter = DIdle
  /\ dkeys = {}

\* find and retrieve: a lookup changes the shape of the tree
mowgli_dictionary_find(k) ==
  /\ dict' = mowgli_dictionary_retune(dict, k)
  /\ UNCHANGED <<diter, dkeys>>

\* the caller may add at any time; a key already there is refused
mowgli_dictionary_add(k) ==
  /\ LET d == mowgli_dictionary_retune(dict, k)
     IN  dict' = IF DFound(d, k) THEN d ELSE mowgli_dictionary_link(d, k)
  /\ dkeys' = dkeys \cup {k}
  /\ UNCHANGED diter

mowgli_dictionary_delete(k) ==
  /\ diter.on => k = diter.cur
  /\ dict' = DDelete(dict, k)
  /\ dkeys' = dkeys \ {k}
  /\ UNCHANGED diter

DPositions(d) ==
  LET p == DPath(d, "r", d.end["l"])
  IN  [d EXCEPT !.position = [e \in DictKey |-> IF e \in ToSet(p)
                                               THEN IndexOf(p, e) - 1
                                               ELSE @[e]],
                !.dirty = FALSE]

mowgli_dictionary_get_linear_index(k) ==
  /\ LET d == mowgli_dictionary_retune(dict, k)
     IN  dict' = IF DFound(d, k) /\ d.dirty THEN DPositions(d) ELSE d
  /\ UNCHANGED <<diter, dkeys>>

\* callers change the order of an empty dictionary, outside iterations
mowgli_dictionary_set_comparator_func(cmp) ==
  /\ dict.root = DNull /\ ~diter.on
  /\ dict' = [dict EXCEPT !.cmp = cmp]
  /\ UNCHANGED <<diter, dkeys>>

DNextOf(d, e) == IF e = DNull THEN DNull ELSE d.nbr["r"][e]

mowgli_dictionary_foreach_start ==
  /\ ~diter.on
  /\ diter' = [on |-> TRUE, cur |-> dict.end["l"],
               next |-> DNextOf(dict, dict.end["l"]), start |-> dkeys, seen |-> {}]
  /\ UNCHANGED <<dict, dkeys>>

\* the element shown next is the one saved as next, which is read here
Mutant_DAdvance(it) ==
  [it EXCEPT !.seen = @ \cup {it.cur}, !.cur = DNextOf(dict, it.cur),
             !.next = DNextOf(dict, DNextOf(dict, it.cur))]

DAdvance(it) ==
  [it EXCEPT !.seen = @ \cup {it.cur}, !.cur = it.next,
             !.next = DNextOf(dict, it.next)]

mowgli_dictionary_foreach_next ==
  /\ diter.cur # DNull
  /\ diter' = DAdvance(diter)
  /\ UNCHANGED <<dict, dkeys>>

\* foreach_cur returned NULL: the caller leaves its loop
DictIterationOver ==
  /\ diter.on /\ diter.cur = DNull
  /\ diter' = DIdle
  /\ UNCHANGED <<dict, dkeys>>

\* The traversals that call back for each element: the next element is read
\* before the callback, which may delete the element it is given (those in
\* gone) and, in a search, stop the traversal (at an element of stop).
DVisit(gone, stop, t) ==
  IF t.e = DNull THEN t
  ELSE [d |-> IF t.e \in gone THEN DDelete(t.d, t.e) ELSE t.d,
        e |-> IF t.e \in stop THEN DNull ELSE t.d.nbr["r"][t.e]]

DVisitAll(d, gone, stop) ==
  LET turn[k \in Nat] == IF k = 0 THEN [d |-> d, e |-> d.end["l"]]
                         ELSE DVisit(gone, stop, turn[k - 1])
  IN  turn[Cardinality(DictKey)].d

DictTraverse(gone, stop) ==
  /\ ~diter.on
  /\ gone \subseteq dkeys
  /\ dict' = DVisitAll(dict, gone, stop)
  /\ dkeys' = dkeys \ {k \in gone : \A q \in stop \cap dkeys : ~DBefore(dict, q, k)}
  /\ UNCHANGED diter

mowgli_dictionary_foreach(gone) == DictTraverse(gone, {})
mowgli_dictionary_search(gone, k) == DictTraverse(gone, {k})

\* destroy frees the elements in the order of the list; the next dictionary
\* is created on the same heap
mowgli_dictionary_destroy(cmp) ==
  /\ ~diter.on
  /\ dkeys' = dkeys \ ToSet(DPath(dict, "r", dict.end["l"]))
  /\ dict' = mowgli_dictionary_create(cmp)
  /\ UNCHANGED diter

DictNext ==
  \/ \E k \in DictKey :
       \/ mowgli_dictionary_find(k)
       \/ mowgli_dictionary_add(k)
       \/ mowgli_dictionary_delete(k)
       \/ mowgli_dictionary_get_linear_index(k)
  \/ \E cmp \in {"up", "down"} :
       \/ mowgli_dictionary_set_comparator_func(cmp)
       \/ mowgli_dictionary_destroy(cmp)
  \/ mowgli_dictionary_foreach_start
  \/ mowgli_dictionary_foreach_next
  \/ DictIterationOver
  \/ \E gone \in SUBSET DictKey :
       \/ mowgli_dictionary_foreach(gone)
       \/ \E k \in dkeys : mowgli_dictionary_search(gone, k)

DictSpec == DictInit /\ [][DictNext]_dictVars

-----------------------------------------------------------------------------
(* Properties.                                                             *)

\* e and what is below it in the tree
DBelow(d, e) ==
  LET reach[k \in Nat] ==
        IF k = 0 THEN {e} \ {DNull}
        ELSE reach[k - 1] \cup
               ((UNION {{d.child[s][x] : s \in DSide} : x \in reach[k - 1]}) \ {DNull})
  IN  reach[Cardinality(DictKey)]

\* Whatever was looked up, added and deleted, and in whatever order: the
\* list read forwards and the list read backwards are the keys callers have
\* in the dictionary, in order, and count is their number; the tree has the
\* same keys, each with the keys below it on their sides, so that a lookup
\* finds a key exactly when it is there; and an index that is not marked
\* dirty gives every key its rank.
DictSorted ==
  LET p == DPath(dict, "r", dict.end["l"])
  IN  /\ ToSet(p) = dkeys
      /\ \A i, j \in DOMAIN p : i < j => DBefore(dict, p[i], p[j])
      /\ DPath(dict, "l", dict.end["r"]) = Reverse(p)
      /\ dict.count = Len(p)
      /\ DBelow(dict, dict.root) = dkeys
      /\ \A e \in dkeys : \A s \in DSide : \A k \in DBelow(dict, dict.child[s][e]) :
           k # e /\ DSideOf(dict, k, e) = s
      /\ \A k \in DictKey : DFound(mowgli_dictionary_retune(dict, k), k) <=> k \in dkeys
      /\ ~dict.dirty => \A i \in DOMAIN p : dict.position[p[i]] = i - 1

\* An iteration during which the current element may be deleted, others
\* added and any key looked up shows the elements in order, and leaves out
\* none that was there when it began: those it has not shown are still
\* ahead of it, reached through the element it has saved as the next one.
DictIteration ==
  diter.on =>
    /\ \A k \in diter.seen : diter.cur # DNull => DBefore(dict, k, diter.cur)
    /\ diter.start \ (diter.seen \cup {diter.cur})
         \subseteq ToSet(DPath(dict, "r", diter.next))
=============================================================================
