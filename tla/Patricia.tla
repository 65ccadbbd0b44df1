------------------------------ MODULE Patricia ------------------------------
(***************************************************************************)
(* container/patricia.c: a radix tree over the nibbles of its keys.  Leaf  *)
(* k holds the k-th canonical key; inner nodes come from a heap and are    *)
(* numbered above the leaves.  The data of a leaf is not modelled.         *)
(*                                                                         *)
(* `pkeys' is the set of keys callers have added and not deleted, which no *)
(* function reads.  Callers keep what patricia.h asks of them: during an   *)
(* iteration only the current element is removed.                          *)
(***************************************************************************)
EXTENDS Integers, FiniteSets, FiniteSetsExt, Sequences, SequencesExt

CONSTANTS
  PatNibbles,   \* sequence of the canonical keys, each a sequence of nibbles
  PatCanon,     \* the canonical key of each key callers use (canonize_cb)
  PatFan        \* POINTERS_PER_NODE

ASSUME PatAssumption ==
  /\ PatFan \in Nat \ {0}
  /\ \A i, j \in DOMAIN PatNibbles : PatNibbles[i] = PatNibbles[j] => i = j
  /\ \A i \in DOMAIN PatNibbles : /\ Len(PatNibbles[i]) % 2 = 0
                                  /\ ToSet(PatNibbles[i]) \subseteq 0..(PatFan - 1)
  /\ \A r \in DOMAIN PatCanon : PatCanon[r] \in DOMAIN PatNibbles

VARIABLES pat, piter, pkeys

patVars == <<pat, piter, pkeys>>

PNull == 0
PLeaf == DOMAIN PatNibbles
PNode == {Len(PatNibbles) + i : i \in PLeaf}
PVal == 0..(PatFan - 1)

\* NIBBLE_VAL: past the last byte there is only the terminating NUL
NIBBLE_VAL(k, i) == IF i < Len(PatNibbles[k]) THEN PatNibbles[k][i + 1] ELSE 0

\* strcmp
PKeyLess(j, k) ==
  \E i \in 0..Len(PatNibbles[k]) :
    /\ \A h \in 0..(i - 1) : NIBBLE_VAL(j, h) = NIBBLE_VAL(k, h)
    /\ NIBBLE_VAL(j, i) < NIBBLE_VAL(k, i)

IS_LEAF(e) == e \in PLeaf

PEmptyNode == [v \in PVal |-> PNull]

mowgli_patricia_create ==
  [root |-> PNull, count |-> 0,
   nibnum |-> [n \in PNode |-> -1], down |-> [n \in PNode |-> PEmptyNode],
   parent |-> [e \in PLeaf \cup PNode |-> PNull],
   parent_val |-> [e \in PLeaf \cup PNode |-> 0]]

PInUse(t) == {n \in PNode : t.nibnum[n] # -1}

\* the heap hands out the first free node
PNewNode(t) == Min(PNode \ PInUse(t))

-----------------------------------------------------------------------------
(* Finding.                                                                *)

RECURSIVE first_leaf(_, _)
first_leaf(t, e) ==
  IF IS_LEAF(e) THEN e
  ELSE first_leaf(t, t.down[e][Min({v \in PVal : t.down[e][v] # PNull})])

\* The way down from e for key k: the last node passed and the branch taken
\* from it, and the leaf or NULL found there.
RECURSIVE PDescend(_, _, _, _, _)
PDescend(t, k, prev, val, e) ==
  IF e = PNull \/ IS_LEAF(e) THEN [prev |-> prev, val |-> val, elem |-> e]
  ELSE LET v == NIBBLE_VAL(k, t.nibnum[e])
       IN  PDescend(t, k, e, v, t.down[e][v])

\* POINTERS_PER_NODE + 2 is the code's trap value
PSearch(t, k) == PDescend(t, k, PNull, PatFan + 2, t.root)

mowgli_patricia_elem_find(t, k) == PSearch(t, k).elem = k

-----------------------------------------------------------------------------
(* Adding and deleting.                                                    *)

PHang(t, e, p, v) ==
  [t EXCEPT !.parent[e] = p, !.parent_val[e] = v]

\* the pointer that leads to an element: a branch of p, or the root
PPoint(t, p, v, e) ==
  IF p = PNull THEN [t EXCEPT !.root = e] ELSE [t EXCEPT !.down[p][v] = e]

\* the first nibble where two keys differ
PFirstDiff(j, k) ==
  Min({i \in 0..(Len(PatNibbles[j]) + Len(PatNibbles[k])) :
         NIBBLE_VAL(j, i) # NIBBLE_VAL(k, i)})

RECURSIVE PClimb(_, _, _, _)
PClimb(t, prev, val, i) ==
  IF prev # PNull /\ t.nibnum[prev] > i
  THEN PClimb(t, t.parent[prev], t.parent_val[prev], i)
  ELSE [prev |-> prev, val |-> val]

\* a new node testing nibble i, between prev and what hung on its branch val
PSplit(t, prev, val, i, old) ==
  LET n  == PNewNode(t)
      at == IF prev = PNull THEN t.root ELSE t.down[prev][val]
      v  == NIBBLE_VAL(old, i)
      t1 == [PHang(t, n, prev, val)
               EXCEPT !.nibnum[n] = i, !.down[n] = [PEmptyNode EXCEPT ![v] = at]]
  IN  [t |-> PPoint(PHang(t1, at, n, v), prev, val, n), node |-> n]

\* the leaf whose key the new key is compared with
PCompareLeaf(t, s) ==
  IF s.elem = PNull /\ s.prev # PNull THEN first_leaf(t, s.prev) ELSE s.elem

\* the code without its loop back up: the new node goes where the search ended
Mutant_PPlace(t, s, i, old) ==
  IF s.prev = PNull \/ t.nibnum[s.prev] # i
  THEN PSplit(t, s.prev, s.val, i, old)
  ELSE [t |-> t, node |-> s.prev]

PPlace(t, s, i, old) ==
  LET c == PClimb(t, s.prev, s.val, i)
  IN  IF c.prev = PNull \/ t.nibnum[c.prev] < i
      THEN PSplit(t, c.prev, c.val, i, old)
      ELSE [t |-> t, node |-> c.prev]

mowgli_patricia_elem_add(t, k) ==
  LET s == PSearch(t, k)
      c == PCompareLeaf(t, s)
  IN  IF s.elem = k THEN t
      ELSE IF c = PNull
      THEN [PHang(t, k, s.prev, s.val) EXCEPT !.root = k, !.count = @ + 1]
      ELSE LET i == PFirstDiff(k, c)
               w == PPlace(t, s, i, c)
               v == NIBBLE_VAL(k, i)
           IN  [PHang(w.t, k, w.node, v) EXCEPT !.down[w.node][v] = k,
                                                !.count = @ + 1]

PFreeNode(t, n) ==
  [PHang(t, n, PNull, 0) EXCEPT !.nibnum[n] = -1, !.down[n] = PEmptyNode]

mowgli_patricia_elem_delete(t, k) ==
  LET p    == t.parent[k]
      v    == t.parent_val[k]
      t1   == [PPoint(PHang(t, k, PNull, 0), p, v, PNull) EXCEPT !.count = @ - 1]
      used == {u \in PVal : t1.down[p][u] # PNull}
      next == t1.down[p][CHOOSE u \in used : TRUE]
      up   == t.parent[p]
      uv   == t.parent_val[p]
  IN  IF p = PNull \/ Cardinality(used) # 1 THEN t1
      ELSE PFreeNode(PHang(PPoint(t1, up, uv, next), next, up, uv), p)

PDelete(t, k) ==
  IF mowgli_patricia_elem_find(t, k) THEN mowgli_patricia_elem_delete(t, k) ELSE t

-----------------------------------------------------------------------------
(* Traversal, shared by foreach, search and foreach_next: from branch v of *)
(* node e, down into nodes and back up at the end of one, to the next leaf *)
(* other than `from'.                                                      *)

RECURSIVE PScan(_, _, _, _)
PScan(t, e, v, from) ==
  IF e = PNull THEN PNull
  ELSE IF v = PatFan THEN PScan(t, t.parent[e], t.parent_val[e] + 1, from)
  ELSE LET x == t.down[e][v]
       IN  IF x \in {PNull, from} THEN PScan(t, e, v + 1, from)
           ELSE IF IS_LEAF(x) THEN x
           ELSE PScan(t, x, 0, from)

\* the leaf after leaf x; going backwards in key order ends an iteration
PAfter(t, x) ==
  IF x = PNull THEN PNull
  ELSE LET y == PScan(t, t.parent[x], t.parent_val[x], x)
       IN  IF y # PNull /\ PKeyLess(y, x) THEN PNull ELSE y

PFirst(t) == IF t.root = PNull THEN PNull ELSE first_leaf(t, t.root)

RECURSIVE PVisit(_, _)
PVisit(t, x) ==
  IF x = PNull THEN << >>
  ELSE <<x>> \o PVisit(t, PScan(t, t.parent[x], t.parent_val[x], x))

\* the leaves the callback is given
mowgli_patricia_foreach(t) == PVisit(t, PFirst(t))

\* the loop of search has gone past the root and reads a branch of NULL
PTrap == -1

\* The entry the callback accepts, of those in hit.  Only the loop that goes
\* back up stops at the root: the loop around it does not.
mowgli_patricia_search(t, hit) ==
  LET given == SelectSeq(mowgli_patricia_foreach(t), LAMBDA x : x \in hit)
  IN  IF given # << >> THEN Head(given)
      ELSE IF t.root = PNull \/ IS_LEAF(t.root) THEN PNull
      ELSE PTrap

\* mowgli_patricia_clear: an iteration whose body deletes the current entry
RECURSIVE PClear(_, _, _)
PClear(t, cur, next) ==
  IF cur = PNull THEN t
  ELSE LET t1 == PDelete(t, cur)
       IN  PClear(t1, next, PAfter(t1, next))

mowgli_patricia_clear(t) == PClear(t, PFirst(t), PAfter(t, PFirst(t)))

-----------------------------------------------------------------------------
(* The calls.                                                              *)

PIdle == [on |-> FALSE, cur |-> PNull, next |-> PNull, start |-> {}, seen |-> {}]

PatInit ==
  /\ pat = mowgli_patricia_create
  /\ piter = PIdle
  /\ pkeys = {}

mowgli_patricia_add(r) ==
  /\ pat' = mowgli_patricia_elem_add(pat, PatCanon[r])
  /\ pkeys' = pkeys \cup {PatCanon[r]}
  /\ UNCHANGED piter

mowgli_patricia_delete(r) ==
  /\ piter.on => PatCanon[r] = piter.cur
  /\ pat' = PDelete(pat, PatCanon[r])
  /\ pkeys' = pkeys \ {PatCanon[r]}
  /\ UNCHANGED piter

mowgli_patricia_foreach_start ==
  /\ ~piter.on
  /\ piter' = [on |-> TRUE, cur |-> PFirst(pat), next |-> PAfter(pat, PFirst(pat)),
               start |-> pkeys, seen |-> {}]
  /\ UNCHANGED <<pat, pkeys>>

\* the next entry looked for from the current one, which may be gone
Mutant_PAdvance(it) ==
  [it EXCEPT !.seen = @ \cup {it.cur}, !.cur = PAfter(pat, it.cur),
             !.next = PAfter(pat, PAfter(pat, it.cur))]

PAdvance(it) ==
  [it EXCEPT !.seen = @ \cup {it.cur}, !.cur = it.next,
             !.next = PAfter(pat, it.next)]

mowgli_patricia_foreach_next ==
  /\ piter.cur # PNull
  /\ piter' = PAdvance(piter)
  /\ UNCHANGED <<pat, pkeys>>

PatIterationOver ==
  /\ piter.on /\ piter.cur = PNull
  /\ piter' = PIdle
  /\ UNCHANGED <<pat, pkeys>>

\* clear, and destroy followed by the creation of another tree
mowgli_patricia_destroy ==
  /\ ~piter.on
  /\ pat' = mowgli_patricia_clear(pat)
  /\ pkeys' = {}
  /\ UNCHANGED piter

PatNext ==
  \/ \E r \in DOMAIN PatCanon : mowgli_patricia_add(r) \/ mowgli_patricia_delete(r)
  \/ mowgli_patricia_foreach_start
  \/ mowgli_patricia_foreach_next
  \/ PatIterationOver
  \/ mowgli_patricia_destroy

PatSpec == PatInit /\ [][PatNext]_patVars

-----------------------------------------------------------------------------
(* Properties.                                                             *)

\* the elements in the subtree of e
RECURSIVE PBelow(_, _)
PBelow(t, e) ==
  IF e = PNull THEN {}
  ELSE IF IS_LEAF(e) THEN {e}
  ELSE {e} \cup UNION {PBelow(t, t.down[e][v]) : v \in PVal}

\* stats_recurse's assertions, of the element e and of all below it
PWellFormed(t, e) ==
  \A n \in PBelow(t, e) \ PLeaf : \A v \in PVal :
    LET x == t.down[n][v]
    IN  x # PNull => /\ t.parent[x] = n /\ t.parent_val[x] = v
                     /\ IS_LEAF(x) \/ t.nibnum[x] > t.nibnum[n]

\* Whatever was added and deleted: the keys callers have in the tree, and no
\* others, are found by their nibbles, visited by foreach in key order and
\* given to the callback of a search;
\* every node in use is reached, has two branches or more, and its children
\* know their parent and branch; count is the number of keys.
PatExact ==
  LET p == mowgli_patricia_foreach(pat)
  IN  /\ {k \in PLeaf : mowgli_patricia_elem_find(pat, k)} = pkeys
      /\ ToSet(p) = pkeys
      /\ \A i, j \in DOMAIN p : i < j => PKeyLess(p[i], p[j])
      /\ pat.count = Cardinality(pkeys)
      /\ PBelow(pat, pat.root) = pkeys \cup PInUse(pat)
      /\ pat.root # PNull => pat.parent[pat.root] = PNull /\ PWellFormed(pat, pat.root)
      /\ \A k \in pkeys : mowgli_patricia_search(pat, {k}) = k
      /\ \A n \in PInUse(pat) : Cardinality({v \in PVal : pat.down[n][v] # PNull}) >= 2

\* The leaves still to come from the one an iteration has saved as the next.
RECURSIVE PAhead(_, _)
PAhead(t, x) == IF x = PNull THEN {} ELSE {x} \cup PAhead(t, PAfter(t, x))

\* An iteration during which the current entry may be deleted, with the node
\* it hung on, and others added, shows entries in key order and leaves out
\* none that was there when it began.
PatIteration ==
  piter.on =>
    /\ \A k \in piter.seen : piter.cur # PNull => PKeyLess(k, piter.cur)
    /\ piter.start \ (piter.seen \cup {piter.cur}) \subseteq PAhead(pat, piter.next)

\* "on failure, NULL" (the comment above mowgli_patricia_search): a search
\* whose callback accepts no entry returns NULL.
PatSearchFails == mowgli_patricia_search(pat, {}) = PNull
=============================================================================
