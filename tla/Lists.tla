-------------------------------- MODULE Lists --------------------------------
(***************************************************************************)
(* A mowgli_list_t as the modules of its users see it: the sequence of its *)
(* nodes from head to tail.  mowgli_node_add is Append, mowgli_node_add_head*)
(* prepends; the operators below are the other steps the users take.       *)
(***************************************************************************)
EXTENDS SequencesExt

IndexOf(list, n) == CHOOSE i \in DOMAIN list : list[i] = n

\* mowgli_node_delete(n, list), for a node of the list
Unlink(list, n) == RemoveAt(list, IndexOf(list, n))

\* a loop that deletes every node outside S from a list without repetitions:
\* the nodes that are left keep their order
Kept(list, S) ==
  LET rest == {n \in ToSet(list) : n \in S}
  IN  CHOOSE s \in SeqOf(rest, Len(list)) :
        /\ ToSet(s) = rest
        /\ \A i, j \in DOMAIN s : i < j => IndexOf(list, s[i]) < IndexOf(list, s[j])

\* n->next, which is `null' for the tail
NextNode(list, n, null) ==
  IF n = null \/ IndexOf(list, n) = Len(list) THEN null ELSE list[IndexOf(list, n) + 1]

\* the nodes a walk from n along the pointers `link' visits, to the one whose
\* pointer is `null'; `turns' are as many as the walk can take
Walk(link, n, null, turns) ==
  LET walk[k \in Nat] ==
        IF k = 0 THEN <<n>>
        ELSE LET s == walk[k - 1]
             IN  IF link[Last(s)] = null THEN s ELSE Append(s, link[Last(s)])
  IN  walk[turns]

HeadNode(list, null) == IF list = << >> THEN null ELSE Head(list)
=============================================================================
