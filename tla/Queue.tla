-------------------------------- MODULE Queue --------------------------------
(***************************************************************************)
(* container/queue.c: nodes linked both ways and held by a pointer to any  *)
(* of them.  shift and push refuse a NULL queue, so no call makes the      *)
(* first node: the caller has one of its own, the anchor, which it never   *)
(* removes.  `queue' is the sequence of nodes callers have in mind, which  *)
(* no function reads.  Callers push behind the last node only: push does   *)
(* not look at what followed the node it is given.                         *)
(***************************************************************************)
EXTENDS Integers, FiniteSets, Lists

CONSTANTS
  QNode,       \* nodes of mowgli_queue_heap, positive integers
  QAnchor,     \* the caller's own node
  QData

ASSUME QueueAssumption ==
  /\ QNode \subseteq (Nat \ {0}) /\ IsFiniteSet(QNode)
  /\ QAnchor \in Nat \ (QNode \cup {0})

VARIABLES qmem, queue

queueVars == <<qmem, queue>>

QNull == 0
QAll == QNode \cup {QAnchor}
QFresh == [next |-> QNull, prev |-> QNull, data |-> CHOOSE d \in QData : TRUE]

QueueInit ==
  /\ qmem = [n \in QAll |-> QFresh]
  /\ queue = <<QAnchor>>

\* store v in field f of node n, when there is one
QSetNext(m, n, v) == IF n = QNull THEN m ELSE [m EXCEPT ![n].next = v]
QSetPrev(m, n, v) == IF n = QNull THEN m ELSE [m EXCEPT ![n].prev = v]

QFree == QAll \ ToSet(queue)

\* a new node in front of h
mowgli_queue_shift(h, n, d) ==
  /\ n \in QFree
  /\ LET p == qmem[h].prev
         m == [qmem EXCEPT ![n] = [next |-> h, prev |-> p, data |-> d], ![h].prev = n]
     IN  qmem' = QSetNext(m, p, n)
  /\ queue' = InsertAt(queue, IndexOf(queue, h), n)

\* a new node behind h
mowgli_queue_push(h, n, d) ==
  /\ n \in QFree
  /\ h = Last(queue)
  /\ qmem' = [qmem EXCEPT ![n] = [next |-> QNull, prev |-> h, data |-> d], ![h].next = n]
  /\ queue' = Append(queue, n)

\* the next node keeps its pointer to the node that is freed
Mutant_QUnlink(m, n) ==
  [QSetNext(m, m[n].prev, m[n].next) EXCEPT ![n] = QFresh]

\* the node is freed; the heap clears it when it is handed out again
QUnlink(m, n) ==
  [QSetPrev(QSetNext(m, m[n].prev, m[n].next), m[n].next, m[n].prev)
     EXCEPT ![n] = QFresh]

QDrop(n) ==
  /\ qmem' = QUnlink(qmem, n)
  /\ queue' = Unlink(queue, n)

\* remove, pop_head and pop_tail: the node the pointer is at goes, and the
\* pointer moves to a neighbour
mowgli_queue_remove(n) == n # QAnchor /\ QDrop(n)
mowgli_queue_pop_head(n) == n # QAnchor /\ QDrop(n)
mowgli_queue_pop_tail(n) == n # QAnchor /\ QDrop(n)

\* no walk of a queue has more turns than there are nodes
QWalk(link, n) == Walk(link, n, QNull, Cardinality(QAll))

QFrom(m, n) == QWalk([x \in QAll |-> m[x].next], n)
QBackFrom(m, n) == QWalk([x \in QAll |-> m[x].prev], n)

QNth(s, i) == IF i < Len(s) THEN s[i + 1] ELSE QNull

\* what the walks return
mowgli_queue_skip(n, i) == QNth(QFrom(qmem, n), i)
mowgli_queue_rewind(n, i) == QNth(QBackFrom(qmem, n), i)
mowgli_queue_head(n) == Last(QBackFrom(qmem, n))
mowgli_queue_tail(n) == Last(QFrom(qmem, n))
mowgli_queue_length(n) == Len(QFrom(qmem, n))

mowgli_queue_find(h, d) ==
  LET s == QFrom(qmem, h)
      hits == {i \in DOMAIN s : qmem[s[i]].data = d}
  IN  IF hits = {} THEN QNull ELSE s[Min(hits)]

mowgli_queue_remove_data(h, d) ==
  /\ mowgli_queue_find(h, d) \notin {QNull, QAnchor}
  /\ QDrop(mowgli_queue_find(h, d))

\* a turn of the loop: the successor of the node is read before the node is
\* freed
QDestroyTurn(t) ==
  IF t.n = QNull THEN t ELSE [m |-> QUnlink(t.m, t.n), n |-> t.m[t.n].next]

QDestroyFrom(m, n) ==
  LET turn[k \in Nat] == IF k = 0 THEN [m |-> m, n |-> n] ELSE QDestroyTurn(turn[k - 1])
  IN  turn[Cardinality(QAll)].m

\* the nodes from h on go
mowgli_queue_destroy(h) ==
  /\ QAnchor \notin ToSet(QFrom(qmem, h))
  /\ qmem' = QDestroyFrom(qmem, h)
  /\ queue' = SubSeq(queue, 1, IndexOf(queue, h) - 1)

QueueNext ==
  \E h \in ToSet(queue) :
    \/ \E n \in QNode, d \in QData : mowgli_queue_shift(h, n, d) \/ mowgli_queue_push(h, n, d)
    \/ mowgli_queue_remove(h)
    \/ mowgli_queue_pop_head(h)
    \/ mowgli_queue_pop_tail(h)
    \/ \E d \in QData : mowgli_queue_remove_data(h, d)
    \/ mowgli_queue_destroy(h)

QueueSpec == QueueInit /\ [][QueueNext]_queueVars

-----------------------------------------------------------------------------
\* From whichever node the caller holds, walking forwards and backwards gives
\* the nodes of the queue in order: no insertion or removal at the ends or in
\* the middle, and no freed node put to use again, breaks the chain.
QueueExact ==
  \A i \in DOMAIN queue :
    /\ QFrom(qmem, queue[i]) = SubSeq(queue, i, Len(queue))
    /\ Reverse(QBackFrom(qmem, queue[i])) = SubSeq(queue, 1, i)
    /\ mowgli_queue_head(queue[i]) = Head(queue)
    /\ mowgli_queue_tail(queue[i]) = Last(queue)
    /\ mowgli_queue_length(queue[i]) = Len(queue) - i + 1
    /\ mowgli_queue_skip(queue[i], 1) = QNth(queue, i)
    /\ i > 1 => mowgli_queue_rewind(queue[i], 1) = queue[i - 1]
=============================================================================
