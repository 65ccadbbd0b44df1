----------------------------- MODULE LinkedList -----------------------------
(***************************************************************************)
(* container/list.c at the level of pointers: lists with a head, a tail    *)
(* and a count, over nodes linked both ways.  The rest of the library, and *)
(* the other modules of this project, rely on such a list behaving as a    *)
(* sequence; here that is the claim.                                       *)
(*                                                                         *)
(* `mem' is what the code reads and writes.  `seq' is the sequence the     *)
(* callers of the list have in mind, updated by what the comment above     *)
(* each function of list.c says; no function reads it.  Callers add nodes  *)
(* that are on no list, and delete and name nodes that are on the list     *)
(* they pass.                                                              *)
(***************************************************************************)
EXTENDS Integers, FiniteSets, Lists

CONSTANTS
  Node, List, ListNull,
  ConcatEmpty   \* callers append empty lists to non-empty ones

ASSUME LinkedListAssumption ==
  /\ IsFiniteSet(Node)
  /\ ListNull \notin Node
  /\ ConcatEmpty \in BOOLEAN

VARIABLES mem, seq

listVars == <<mem, seq>>

Mem == [head : [List -> Node \cup {ListNull}], tail : [List -> Node \cup {ListNull}],
        count : [List -> Nat],
        next : [Node -> Node \cup {ListNull}], prev : [Node -> Node \cup {ListNull}]]

On(l) == ToSet(seq[l])

Linked == UNION {On(l) : l \in List}

\* lists zeroed, nodes as mowgli_node_create leaves them
ListInit ==
  /\ mem = [head |-> [l \in List |-> ListNull], tail |-> [l \in List |-> ListNull],
            count |-> [l \in List |-> 0],
            next |-> [n \in Node |-> ListNull], prev |-> [n \in Node |-> ListNull]]
  /\ seq = [l \in List |-> << >>]

-----------------------------------------------------------------------------
(* What the functions do to memory.                                        *)

First(m, n, l) ==
  [m EXCEPT !.next[n] = ListNull, !.prev[n] = ListNull,
            !.head[l] = n, !.tail[l] = n, !.count[l] = 1]

mowgli_node_add(m, n, l) ==
  IF m.head[l] = ListNull
  THEN First(m, n, l)
  ELSE [m EXCEPT !.next = [@ EXCEPT ![n] = ListNull, ![m.tail[l]] = n],
                 !.prev[n] = m.tail[l],
                 !.tail[l] = n,
                 !.count[l] = @ + 1]

mowgli_node_add_head(m, n, l) ==
  IF m.head[l] = ListNull
  THEN First(m, n, l)
  ELSE [m EXCEPT !.next[n] = m.head[l],
                 !.prev = [@ EXCEPT ![n] = ListNull, ![m.head[l]] = n],
                 !.head[l] = n,
                 !.count[l] = @ + 1]

mowgli_node_add_before(m, n, l, before) ==
  IF before = ListNull THEN mowgli_node_add(m, n, l)
  ELSE IF before = m.head[l] THEN mowgli_node_add_head(m, n, l)
  ELSE LET p == m.prev[before]
       IN  [m EXCEPT !.prev = [@ EXCEPT ![n] = p, ![before] = n],
                     !.next = [x \in Node |-> IF x = n THEN before
                                              ELSE IF x = p THEN n ELSE @[x]],
                     !.count[l] = @ + 1]

mowgli_node_add_after(m, n, l, before) ==
  IF before = ListNull \/ m.next[before] = ListNull THEN mowgli_node_add(m, n, l)
  ELSE LET s == m.next[before]
       IN  [m EXCEPT !.prev = [@ EXCEPT ![n] = before, ![s] = n],
                     !.next = [@ EXCEPT ![n] = s, ![before] = n],
                     !.count[l] = @ + 1]

\* store v in field f of the node x, when there is one
Store(f, x, v) == [y \in Node |-> IF y = x THEN v ELSE f[y]]

Mutant_Detach(m, n, l) ==
  LET p == m.prev[n]
      s == m.next[n]
  IN  [m EXCEPT !.head[l] = IF p = ListNull THEN s ELSE @,
                !.next = Store(@, p, s),
                !.prev = Store(@, s, p),
                !.count[l] = @ - 1]

\* what mowgli_node_delete and mowgli_node_move do to the list n leaves; n
\* keeps its own pointers
Detach(m, n, l) ==
  LET p == m.prev[n]
      s == m.next[n]
  IN  [m EXCEPT !.head[l] = IF p = ListNull THEN s ELSE @,
                !.tail[l] = IF s = ListNull THEN p ELSE @,
                !.next = Store(@, p, s),
                !.prev = Store(@, s, p),
                !.count[l] = @ - 1]

mowgli_node_delete(m, n, l) == Detach(m, n, l)

mowgli_node_move(m, n, oldlist, newlist) ==
  LET d == Detach(m, n, oldlist)
      h == d.head[newlist]
  IN  [d EXCEPT !.prev = [Store(@, h, n) EXCEPT ![n] = ListNull],
                !.next[n] = h,
                !.tail[newlist] = IF h = ListNull /\ @ = ListNull THEN n ELSE @,
                !.head[newlist] = n,
                !.count[newlist] = @ + 1]

mowgli_list_concat(m, l, l2) ==
  LET t == m.tail[l]
  IN  [m EXCEPT !.head = [m.head EXCEPT ![l] = IF @ = ListNull THEN m.head[l2] ELSE @,
                                        ![l2] = ListNull],
                !.tail = [m.tail EXCEPT ![l] = m.tail[l2], ![l2] = ListNull],
                !.next = Store(@, t, m.head[l2]),
                !.prev = IF t = ListNull THEN @ ELSE Store(@, m.head[l2], t),
                !.count = [m.count EXCEPT ![l] = @ + m.count[l2], ![l2] = 0]]

-----------------------------------------------------------------------------
(* Traversals.                                                             *)

\* s is what a traversal along succ that starts at from visits
Traverses(s, succ, from) ==
  /\ from = IF s = << >> THEN ListNull ELSE s[1]
  /\ \A i \in DOMAIN s : succ[s[i]] = IF i = Len(s) THEN ListNull ELSE s[i + 1]

Path(succ, from) ==
  CHOOSE s \in UNION {[1 .. k -> Node] : k \in 0 .. Cardinality(Node)} :
    Traverses(s, succ, from)

At(s, i) == IF i \in DOMAIN s THEN s[i] ELSE ListNull

\* from the head in the first half of the list, else from the tail; ListNull
\* past the end
mowgli_node_nth(m, l, pos) ==
  IF pos < m.count[l] \div 2
  THEN At(Path(m.next, m.head[l]), pos + 1)
  ELSE At(Path(m.prev, m.tail[l]), m.count[l] - pos)

mowgli_node_insert(m, n, l, pos) ==
  mowgli_node_add_before(m, n, l, mowgli_node_nth(m, l, pos))

mowgli_list_reverse(m, l) ==
  LET visited == ToSet(Path(m.next, m.head[l]))
  IN  [m EXCEPT !.next = [n \in Node |-> IF n \in visited THEN m.prev[n] ELSE m.next[n]],
                !.prev = [n \in Node |-> IF n \in visited THEN m.next[n] ELSE m.prev[n]],
                !.head[l] = m.tail[l],
                !.tail[l] = m.head[l]]

-----------------------------------------------------------------------------
(* The calls.  `before' ranges over the nodes of the list and NULL.        *)

\* s with n put before the node x, at the end if x is ListNull
Before(s, n, x) == IF x = ListNull THEN Append(s, n) ELSE InsertAt(s, IndexOf(s, x), n)

After(s, n, x) == IF x = ListNull THEN Append(s, n) ELSE InsertAt(s, IndexOf(s, x) + 1, n)

Update(m, l, s) ==
  /\ mem' = m
  /\ seq' = [seq EXCEPT ![l] = s]

Add(n, l) == Update(mowgli_node_add(mem, n, l), l, Append(seq[l], n))

AddHead(n, l) == Update(mowgli_node_add_head(mem, n, l), l, <<n>> \o seq[l])

AddBefore(n, l, x) ==
  Update(mowgli_node_add_before(mem, n, l, x), l, Before(seq[l], n, x))

AddAfter(n, l, x) ==
  Update(mowgli_node_add_after(mem, n, l, x), l, After(seq[l], n, x))

Insert(n, l, pos) ==
  Update(mowgli_node_insert(mem, n, l, pos), l,
         IF pos < Len(seq[l]) THEN InsertAt(seq[l], pos + 1, n) ELSE Append(seq[l], n))

Delete(n, l) == Update(mowgli_node_delete(mem, n, l), l, Unlink(seq[l], n))

Move(n, oldlist, newlist) ==
  /\ mem' = mowgli_node_move(mem, n, oldlist, newlist)
  /\ seq' = LET s == [seq EXCEPT ![oldlist] = Unlink(@, n)]
            IN  [s EXCEPT ![newlist] = <<n>> \o @]

Concat(l, l2) ==
  /\ l # l2
  /\ seq[l2] = << >> /\ seq[l] # << >> => ConcatEmpty
  /\ mem' = mowgli_list_concat(mem, l, l2)
  /\ seq' = [seq EXCEPT ![l] = @ \o seq[l2], ![l2] = << >>]

ListReverse(l) == Update(mowgli_list_reverse(mem, l), l, Reverse(seq[l]))

ListNext ==
  \/ \E n \in Node \ Linked, l \in List :
       \/ Add(n, l)
       \/ AddHead(n, l)
       \/ \E x \in On(l) \cup {ListNull} : AddBefore(n, l, x) \/ AddAfter(n, l, x)
       \/ \E pos \in 0 .. Len(seq[l]) + 1 : Insert(n, l, pos)
  \/ \E l \in List : \E n \in On(l) :
       \/ Delete(n, l)
       \/ \E newlist \in List : Move(n, l, newlist)
  \/ \E l, l2 \in List : Concat(l, l2)
  \/ \E l \in List : ListReverse(l)

ListSpec == ListInit /\ [][ListNext]_listVars

-----------------------------------------------------------------------------
(* Properties.                                                             *)

\* Every list is the sequence its callers have in mind, read from its head
\* along `next' and from its tail along `prev', and count is its length:
\* whatever mix of insertions, deletions, moves, concatenations and
\* reversals built it, and whatever stale pointers its nodes came with.
RepresentsSeq ==
  \A l \in List :
    /\ Traverses(seq[l], mem.next, mem.head[l])
    /\ Traverses(Reverse(seq[l]), mem.prev, mem.tail[l])
    /\ mem.count[l] = Len(seq[l])

\* "Assumption: If m->next == NULL, then list->tail == m and: If m->prev ==
\* NULL, then list->head == m" (mowgli_node_move), for every node of every
\* list.
MoveAssumption ==
  \A l \in List : \A n \in On(l) :
    /\ mem.next[n] = ListNull => mem.tail[l] = n
    /\ mem.prev[n] = ListNull => mem.head[l] = n
=============================================================================
