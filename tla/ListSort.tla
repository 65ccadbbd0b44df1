------------------------------ MODULE ListSort ------------------------------
(***************************************************************************)
(* mowgli_list_sort: two nested traversals, each of which has read the     *)
(* pointer to its next node before the body moves nodes of the list it is  *)
(* traversing.  The comparator compares the keys of nodes.                 *)
(***************************************************************************)
EXTENDS LinkedList

CONSTANT Key(_)

ASSUME SortAssumption == \A n \in Node : Key(n) \in Int

\* mowgli_node_index, for a node of the list
Index(m, n, l) == IndexOf(Path(m.next, m.head[l]), n)

\* the body of the inner loop: n is moved to the side of n2 it belongs on
Place(m, l, n, n2) ==
  IF n = n2 THEN m
  ELSE IF Key(n) < Key(n2) /\ Index(m, n, l) > Index(m, n2, l)
       THEN mowgli_node_add_before(mowgli_node_delete(m, n, l), n, l, n2)
  ELSE IF Key(n) > Key(n2) /\ Index(m, n, l) < Index(m, n2, l)
       THEN mowgli_node_add_after(mowgli_node_delete(m, n, l), n, l, n2)
  ELSE m

\* a turn of the inner loop, at n2: the next node is read first
InnerTurn(l, n, t) ==
  IF t.n2 = ListNull THEN t
  ELSE [m |-> Place(t.m, l, n, t.n2), n2 |-> t.m.next[t.n2]]

\* more turns than the loops take: at the end of the last one they are at
\* ListNull, if they return at all
InnerTurns == Cardinality(Node) + 1
OuterTurns == (Cardinality(Node) + 1) * (Cardinality(Node) + 1)

\* the inner loop for n
Inner(m, l, n) ==
  LET turn[k \in Nat] == IF k = 0 THEN [m |-> m, n2 |-> m.head[l]]
                         ELSE InnerTurn(l, n, turn[k - 1])
  IN  turn[InnerTurns]

\* the outer traversal without its saved pointer
Mutant_OuterTurn(l, t) ==
  LET i == Inner(t.m, l, t.n)
  IN  IF t.n = ListNull \/ i.n2 # ListNull THEN t ELSE [m |-> i.m, n |-> i.m.next[t.n]]

\* a turn of the outer loop, at n, which stays there if the inner one does
\* not return
OuterTurn(l, t) ==
  LET i == Inner(t.m, l, t.n)
  IN  IF t.n = ListNull \/ i.n2 # ListNull THEN t ELSE [m |-> i.m, n |-> t.m.next[t.n]]

Outer(m, l) ==
  LET turn[k \in Nat] == IF k = 0 THEN [m |-> m, n |-> m.head[l]]
                         ELSE OuterTurn(l, turn[k - 1])
  IN  turn[OuterTurns]

mowgli_list_sort(m, l) == Outer(m, l).m

Sort(l) ==
  LET m == mowgli_list_sort(mem, l)
  IN  Update(m, l, Path(m.next, m.head[l]))

SortNext == ListNext \/ \E l \in List : Sort(l)

SortSpec == ListInit /\ [][SortNext]_listVars

-----------------------------------------------------------------------------
Sorted(s) == \A i, j \in DOMAIN s : i < j => Key(s[i]) <= Key(s[j])

\* mowgli_list_sort, whatever list it is called on, returns, loses no node
\* and sorts: the list then holds the nodes it held, in the order of their
\* keys, though each of its traversals moves the nodes the other follows.
SortsList ==
  \A l \in List :
    LET t == Outer(mem, l)
        s == Path(t.m.next, t.m.head[l])
    IN  /\ t.n = ListNull
        /\ Sorted(s)
        /\ ToSet(s) = On(l)
        /\ Len(s) = Len(seq[l])
=============================================================================
