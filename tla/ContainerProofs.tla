--------------------------- MODULE ContainerProofs ---------------------------
(***************************************************************************)
(* Lists, queues and indexes are sequences: what container/list.c and      *)
(* queue.c do to the links of any number of nodes, and index.c to arrays   *)
(* of any size, is what their callers have in mind.  The lists first, then *)
(* the merge sort of list.c, the queues and the indexes.                   *)
(***************************************************************************)
EXTENDS ListSort, Queue, Index, ListProofs

-----------------------------------------------------------------------------
(* What a list is.                                                         *)

\* the pointers of the nodes of s say their order, both ways
Links(m, s) ==
  \A i \in 1 .. Len(s) :
    /\ m.next[s[i]] = IF i = Len(s) THEN ListNull ELSE s[i + 1]
    /\ m.prev[s[i]] = IF i = 1 THEN ListNull ELSE s[i - 1]

Ends(m, l, s) ==
  /\ m.head[l] = IF Len(s) = 0 THEN ListNull ELSE s[1]
  /\ m.tail[l] = IF Len(s) = 0 THEN ListNull ELSE s[Len(s)]
  /\ m.count[l] = Len(s)

\* no node is twice on a list or on two lists
Apart(q) ==
  \A l, k \in List : \A i \in 1 .. Len(q[l]), j \in 1 .. Len(q[k]) :
    q[l][i] = q[k][j] => l = k /\ i = j

\* the memory m represents the sequences q: RepresentsSeq node by node, and
\* no node shared
Repr(m, q) ==
  /\ m \in Mem
  /\ q \in [List -> Seq(Node)]
  /\ Apart(q)
  /\ \A l \in List : Links(m, q[l]) /\ Ends(m, l, q[l])

ListInv == Repr(mem, seq)

-----------------------------------------------------------------------------
(* Inserting a node.                                                       *)

\* t is s with n inserted as its ith element
Inserted(t, s, i, n) ==
  /\ t \in Seq(Node)
  /\ Len(t) = Len(s) + 1
  /\ \A j \in 1 .. Len(s) + 1 : t[j] = IF j < i THEN s[j] ELSE IF j = i THEN n ELSE s[j - 1]

\* what an insertion of n as the ith node of the list l, which is s, has to
\* do to the memory
InsertedAt(m, m2, l, s, i, n) ==
  LET p == IF i = 1 THEN ListNull ELSE s[i - 1]
      x == IF i = Len(s) + 1 THEN ListNull ELSE s[i]
  IN  /\ \A y \in Node : /\ m2.next[y] = IF y = n THEN x ELSE IF y = p THEN n ELSE m.next[y]
                         /\ m2.prev[y] = IF y = n THEN p ELSE IF y = x THEN n ELSE m.prev[y]
      /\ \A k \in List : /\ m2.head[k] = IF k = l /\ i = 1 THEN n ELSE m.head[k]
                         /\ m2.tail[k] = IF k = l /\ i = Len(s) + 1 THEN n ELSE m.tail[k]
                         /\ m2.count[k] = IF k = l THEN m.count[k] + 1 ELSE m.count[k]

\* n is on no list
Unlinked(q, n) == \A k \in List : \A j \in 1 .. Len(q[k]) : q[k][j] # n

LEMMA InsertRepr ==
  ASSUME NEW m, NEW q, Repr(m, q), NEW l \in List, NEW n \in Node, Unlinked(q, n),
         NEW i \in 1 .. Len(q[l]) + 1, NEW t, Inserted(t, q[l], i, n),
         NEW m2 \in Mem, InsertedAt(m, m2, l, q[l], i, n)
  PROVE  Repr(m2, [q EXCEPT ![l] = t])
<1> DEFINE r == [q EXCEPT ![l] = t]
           s == q[l]
           p == IF i = 1 THEN ListNull ELSE s[i - 1]
           x == IF i = Len(s) + 1 THEN ListNull ELSE s[i]
<1>1. /\ q \in [List -> Seq(Node)] /\ s \in Seq(Node) /\ Len(s) \in Nat
      /\ t \in Seq(Node) /\ Len(t) = Len(s) + 1
      /\ \A j \in 1 .. Len(s) + 1 : t[j] = IF j < i THEN s[j] ELSE IF j = i THEN n ELSE s[j - 1]
      /\ \A j \in 1 .. Len(s) : s[j] \in Node /\ s[j] # n
      /\ i \in 1 .. Len(s) + 1 /\ i \in Nat
  BY DEF Repr, Inserted, Unlinked
<1>2. \A j, k \in 1 .. Len(s) : s[j] = s[k] => j = k
  BY DEF Repr, Apart
<1>3. ListNull \notin Node
  BY LinkedListAssumption
<1>4. /\ \A y \in Node : m2.next[y] = IF y = n THEN x ELSE IF y = p THEN n ELSE m.next[y]
      /\ \A y \in Node : m2.prev[y] = IF y = n THEN p ELSE IF y = x THEN n ELSE m.prev[y]
  BY DEF InsertedAt
<1>5. /\ \A j \in 1 .. Len(s) : m.next[s[j]] = IF j = Len(s) THEN ListNull ELSE s[j + 1]
      /\ \A j \in 1 .. Len(s) : m.prev[s[j]] = IF j = 1 THEN ListNull ELSE s[j - 1]
  BY DEF Repr, Links
<1>6. r \in [List -> Seq(Node)] /\ r[l] = t /\ \A k \in List : k # l => r[k] = q[k]
  BY <1>1
<1>12. /\ \/ i = 1 /\ p = ListNull
          \/ i - 1 \in 1 .. Len(s) /\ p = s[i - 1]
       /\ \/ i = Len(s) + 1 /\ x = ListNull
          \/ i \in 1 .. Len(s) /\ x = s[i]
  BY <1>1
<1>7. Links(m2, t)
  <2> SUFFICES ASSUME NEW j \in 1 .. Len(t)
               PROVE  /\ m2.next[t[j]] = IF j = Len(t) THEN ListNull ELSE t[j + 1]
                      /\ m2.prev[t[j]] = IF j = 1 THEN ListNull ELSE t[j - 1]
    BY DEF Links
  <2>4. p = IF i = 1 THEN ListNull ELSE s[i - 1]
    OBVIOUS
  <2>5. x = IF i = Len(s) + 1 THEN ListNull ELSE s[i]
    OBVIOUS
  <2> HIDE DEF s, p, x
  <2>6. /\ Len(s) \in Nat /\ Len(t) = Len(s) + 1
        /\ j \in Nat /\ 1 <= j /\ j <= Len(s) + 1
        /\ i \in Nat /\ 1 <= i /\ i <= Len(s) + 1
    BY <1>1
  <2>1. CASE j = i
    <3>1. t[j] = n
      BY <1>1, <2>1
    <3>2. x = IF j = Len(t) THEN ListNull ELSE t[j + 1]
      BY <1>1, <2>1, <2>5
    <3>3. p = IF j = 1 THEN ListNull ELSE t[j - 1]
      BY <1>1, <2>1, <2>4
    <3> QED
      BY <1>4, <3>1, <3>2, <3>3
  <2>2. CASE j < i
    <3>1. j \in 1 .. Len(s) /\ t[j] = s[j] /\ s[j] # n /\ s[j] \in Node
      BY <1>1, <2>2
    <3>2. s[j] = p <=> j = i - 1
      BY <1>1, <1>2, <1>3, <1>12, <2>2, <3>1
    <3>3. s[j] # x
      BY <1>1, <1>2, <1>3, <1>12, <2>2, <3>1
    <3>4. m2.prev[t[j]] = IF j = 1 THEN ListNull ELSE s[j - 1]
      BY <1>4, <1>5, <3>1, <3>3, SMTT(30)
    <3>5. m2.next[t[j]] = IF j = i - 1 THEN n ELSE s[j + 1]
      <4>1. j # i - 1 => j # Len(s)
        BY <1>1, <2>2
      <4> QED
        BY <1>4, <1>5, <3>1, <3>2, <4>1
    <3>6. j - 1 \in 1 .. Len(s) => t[j - 1] = s[j - 1]
      BY <1>1, <2>2
    <3>7. t[j + 1] = IF j = i - 1 THEN n ELSE s[j + 1]
      BY <1>1, <2>2
    <3> QED
      BY <1>1, <2>2, <3>1, <3>4, <3>5, <3>6, <3>7
  <2>3. CASE j > i
    <3>1. j - 1 \in 1 .. Len(s) /\ t[j] = s[j - 1] /\ s[j - 1] # n /\ s[j - 1] \in Node
      BY <1>1, <2>3
    <3>2. s[j - 1] = x <=> j - 1 = i
      BY <1>1, <1>2, <1>3, <1>12, <2>3, <3>1
    <3>3. s[j - 1] # p
      BY <1>1, <1>2, <1>3, <1>12, <2>3, <3>1
    <3>8. (j - 1) + 1 = j /\ (j - 1) - 1 = j - 2 /\ (j = Len(t) <=> j - 1 = Len(s)) /\ (j - 1 = 1 => i = 1)
      BY <2>3, <2>6
    <3>9. /\ m.next[s[j - 1]] = IF j - 1 = Len(s) THEN ListNull ELSE s[(j - 1) + 1]
          /\ m.prev[s[j - 1]] = IF j - 1 = 1 THEN ListNull ELSE s[(j - 1) - 1]
      BY <1>5, <3>1
    <3>4. m2.next[t[j]] = IF j = Len(t) THEN ListNull ELSE s[j]
      BY <1>4, <3>1, <3>3, <3>8, <3>9
    <3>5. m2.prev[t[j]] = IF j - 1 = i THEN n ELSE s[j - 2]
      BY <1>4, <2>3, <2>6, <3>1, <3>2, <3>8, <3>9
    <3>6. t[j - 1] = IF j - 1 = i THEN n ELSE s[j - 2]
      <4>1. j - 1 \in 1 .. Len(s) + 1 /\ (j - 1) - 1 = j - 2
        BY <1>1, <2>3
      <4>2. t[j - 1] = IF j - 1 < i THEN s[j - 1] ELSE IF j - 1 = i THEN n ELSE s[(j - 1) - 1]
        BY <1>1, <4>1
      <4> QED
        BY <1>1, <2>3, <4>1, <4>2
    <3>7. j # Len(t) => t[j + 1] = s[j]
      <4> SUFFICES ASSUME j # Len(t) PROVE t[j + 1] = s[j]
        OBVIOUS
      <4>1. j + 1 \in 1 .. Len(s) + 1 /\ (j + 1) - 1 = j
        BY <2>3, <2>6
      <4>2. t[j + 1] = IF j + 1 < i THEN s[j + 1] ELSE IF j + 1 = i THEN n ELSE s[(j + 1) - 1]
        BY <1>1, <4>1
      <4> QED
        BY <1>1, <2>3, <4>1, <4>2
    <3> QED
      BY <1>1, <2>3, <3>1, <3>4, <3>5, <3>6, <3>7
  <2> QED
    BY <2>1, <2>2, <2>3, <1>1
<1>8. Ends(m2, l, t)
  <2>1. m2.head[l] = IF i = 1 THEN n ELSE m.head[l]
    BY DEF InsertedAt
  <2>2. m2.tail[l] = IF i = Len(s) + 1 THEN n ELSE m.tail[l]
    BY DEF InsertedAt
  <2>3. m2.count[l] = m.count[l] + 1
    BY DEF InsertedAt
  <2>4. Ends(m, l, s)
    BY DEF Repr
  <2> HIDE DEF s
  <2>5. t[1] = IF i = 1 THEN n ELSE s[1]
    BY <1>1
  <2>6. t[Len(s) + 1] = IF i = Len(s) + 1 THEN n ELSE s[Len(s)]
    BY <1>1
  <2>7. Len(s) = 0 => i = 1 /\ i = Len(s) + 1
    BY <1>1
  <2> QED
    BY <1>1, <2>1, <2>2, <2>3, <2>4, <2>5, <2>6, <2>7 DEF Ends
<1>9. ASSUME NEW k \in List, k # l
      PROVE  Links(m2, q[k]) /\ Ends(m2, k, q[k])
  <2>1. q[k] \in Seq(Node) /\ \A j \in 1 .. Len(q[k]) : q[k][j] \in Node /\ q[k][j] # n
    BY DEF Repr, Unlinked
  <2>2. \A j \in 1 .. Len(q[k]) : q[k][j] # p /\ q[k][j] # x
    BY <1>1, <1>3, <1>9, <2>1 DEF Repr, Apart
  <2>3. \A j \in 1 .. Len(q[k]) : m2.next[q[k][j]] = m.next[q[k][j]] /\ m2.prev[q[k][j]] = m.prev[q[k][j]]
    BY <1>4, <2>1, <2>2
  <2>4. Links(m, q[k]) /\ Ends(m, k, q[k])
    BY DEF Repr
  <2>5. m2.head[k] = m.head[k] /\ m2.tail[k] = m.tail[k] /\ m2.count[k] = m.count[k]
    BY <1>9 DEF InsertedAt
  <2> QED
    BY <2>3, <2>4, <2>5 DEF Links, Ends
<1>10. Apart(r)
  <2> SUFFICES ASSUME NEW a \in List, NEW b \in List, NEW j \in 1 .. Len(r[a]), NEW k \in 1 .. Len(r[b]),
                      r[a][j] = r[b][k]
               PROVE  a = b /\ j = k
    BY DEF Apart
  <2> HIDE DEF r
  <2>1. \A c \in List : q[c] \in Seq(Node) /\ Len(q[c]) \in Nat
    BY <1>1
  <2>2. Apart(q) /\ Unlinked(q, n)
    BY DEF Repr
  <2>3. ASSUME NEW d \in 1 .. Len(t)
        PROVE  \/ d = i /\ t[d] = n
               \/ d # i /\ \E e \in 1 .. Len(q[l]) : t[d] = q[l][e] /\ e = (IF d < i THEN d ELSE d - 1)
    <3>1. /\ Len(s) \in Nat /\ i \in Nat /\ i >= 1 /\ i <= Len(s) + 1 /\ d \in 1 .. Len(s) + 1
          /\ t[d] = IF d < i THEN s[d] ELSE IF d = i THEN n ELSE s[d - 1]
      BY <1>1
    <3>2. CASE d = i
      BY ONLY <3>1, <3>2
    <3>3. CASE d < i
      <4>1. d \in 1 .. Len(s) /\ t[d] = s[d] /\ d # i
        BY ONLY <3>1, <3>3
      <4> QED
        BY <3>3, <4>1
    <3>4. CASE d > i
      <4>1. d - 1 \in 1 .. Len(s) /\ t[d] = s[d - 1] /\ d # i /\ ~(d < i)
        BY ONLY <3>1, <3>4
      <4> QED
        BY <4>1
    <3> QED
      BY <3>1, <3>2, <3>3, <3>4
  <2>4. CASE a # l /\ b # l
    <3>1. q[a][j] = q[b][k] /\ j \in 1 .. Len(q[a]) /\ k \in 1 .. Len(q[b])
      BY <1>6, <2>4
    <3> QED
      BY ONLY <2>2, <3>1, a \in List, b \in List DEF Apart
  <2>5. ASSUME NEW c \in List, c # l, NEW e \in 1 .. Len(q[c]), NEW d \in 1 .. Len(t)
        PROVE  t[d] # q[c][e]
    BY <2>2, <2>3, <2>5 DEF Apart, Unlinked
  <2>6. CASE a = l /\ b # l
    BY <1>6, <2>5, <2>6
  <2>7. CASE a # l /\ b = l
    BY <1>6, <2>5, <2>7
  <2>8. CASE a = l /\ b = l
    <3>1. j \in 1 .. Len(t) /\ k \in 1 .. Len(t) /\ t[j] = t[k]
      BY <1>6, <2>8
    <3>2. j = k
      <4>1. CASE j = i \/ k = i
        BY <1>1, <2>3, <3>1, <4>1
      <4>2. CASE j # i /\ k # i
        <5>1. (IF j < i THEN j ELSE j - 1) = (IF k < i THEN k ELSE k - 1)
          BY <1>2, <2>3, <3>1, <4>2
        <5> QED
          BY <1>1, <3>1, <4>2, <5>1
      <4> QED
        BY <4>1, <4>2
    <3> QED
      BY <2>8, <3>2
  <2> QED
    BY <2>4, <2>6, <2>7, <2>8
<1>11. \A k \in List : Links(m2, r[k]) /\ Ends(m2, k, r[k])
  <2> HIDE DEF r
  <2> QED
    BY <1>6, <1>7, <1>8, <1>9
<1> QED
  BY <1>6, <1>10, <1>11 DEF Repr

LEMMA MemFields ==
  ASSUME NEW m \in Mem
  PROVE  /\ m.head \in [List -> Node \cup {ListNull}] /\ m.tail \in [List -> Node \cup {ListNull}]
         /\ m.count \in [List -> Nat]
         /\ m.next \in [Node -> Node \cup {ListNull}] /\ m.prev \in [Node -> Node \cup {ListNull}]
         /\ m = [head |-> m.head, tail |-> m.tail, count |-> m.count, next |-> m.next, prev |-> m.prev]
BY DEF Mem

LEMMA MemRecord ==
  ASSUME NEW h \in [List -> Node \cup {ListNull}], NEW t \in [List -> Node \cup {ListNull}],
         NEW c \in [List -> Nat],
         NEW x \in [Node -> Node \cup {ListNull}], NEW p \in [Node -> Node \cup {ListNull}]
  PROVE  [head |-> h, tail |-> t, count |-> c, next |-> x, prev |-> p] \in Mem
BY DEF Mem

\* a list that m represents, with what its ends are
LEMMA ReprList ==
  ASSUME NEW m, NEW q, Repr(m, q), NEW l \in List
  PROVE  /\ m \in Mem /\ q[l] \in Seq(Node) /\ Len(q[l]) \in Nat
         /\ \A j \in 1 .. Len(q[l]) : q[l][j] \in Node
         /\ Injective(q[l])
         /\ Len(q[l]) = 0 => m.head[l] = ListNull /\ m.tail[l] = ListNull
         /\ Len(q[l]) # 0 => m.head[l] = q[l][1] /\ m.tail[l] = q[l][Len(q[l])]
         /\ (Len(q[l]) = 0) <=> (m.head[l] = ListNull)
         /\ m.count[l] = Len(q[l])
<1>1. m \in Mem /\ q[l] \in Seq(Node)
  BY DEF Repr
<1>2. Len(q[l]) \in Nat /\ DOMAIN q[l] = 1 .. Len(q[l]) /\ \A j \in 1 .. Len(q[l]) : q[l][j] \in Node
  BY <1>1
<1>3. Injective(q[l])
  BY <1>2 DEF Repr, Apart, Injective
<1>4. Ends(m, l, q[l])
  BY DEF Repr
<1>5. Len(q[l]) # 0 => q[l][1] # ListNull
  BY <1>2, LinkedListAssumption
<1> QED
  BY <1>1, <1>2, <1>3, <1>4, <1>5 DEF Ends

(* mowgli_node_add inserts behind the last node.                           *)
LEMMA AddInserts ==
  ASSUME NEW m, NEW q, Repr(m, q), NEW l \in List, NEW n \in Node, Unlinked(q, n)
  PROVE  /\ mowgli_node_add(m, n, l) \in Mem
         /\ InsertedAt(m, mowgli_node_add(m, n, l), l, q[l], Len(q[l]) + 1, n)
<1> DEFINE s == q[l]
           m2 == mowgli_node_add(m, n, l)
<1>1. /\ m \in Mem /\ s \in Seq(Node) /\ Len(s) \in Nat
      /\ Len(s) = 0 => m.head[l] = ListNull
      /\ Len(s) # 0 => m.head[l] # ListNull /\ m.tail[l] = s[Len(s)] /\ s[Len(s)] \in Node
      /\ m.count[l] = Len(s)
  BY ReprList
<1>2. Len(s) # 0 => s[Len(s)] # n
  BY <1>1 DEF Unlinked
<1>3. /\ m.head \in [List -> Node \cup {ListNull}] /\ m.tail \in [List -> Node \cup {ListNull}]
      /\ m.count \in [List -> Nat]
      /\ m.next \in [Node -> Node \cup {ListNull}] /\ m.prev \in [Node -> Node \cup {ListNull}]
      /\ m = [head |-> m.head, tail |-> m.tail, count |-> m.count, next |-> m.next, prev |-> m.prev]
  BY <1>1, MemFields
<1>4. ListNull \notin Node
  BY LinkedListAssumption
<1>5. CASE Len(s) = 0
  <2>1. m2 = First(m, n, l)
    BY <1>1, <1>5 DEF mowgli_node_add
  <2>2. m2 = [head |-> [m.head EXCEPT ![l] = n], tail |-> [m.tail EXCEPT ![l] = n],
              count |-> [m.count EXCEPT ![l] = 1],
              next |-> [m.next EXCEPT ![n] = ListNull], prev |-> [m.prev EXCEPT ![n] = ListNull]]
    BY <1>3, <2>1 DEF First
  <2>3. m2 \in Mem
    <3>1. /\ [m.head EXCEPT ![l] = n] \in [List -> Node \cup {ListNull}]
          /\ [m.tail EXCEPT ![l] = n] \in [List -> Node \cup {ListNull}]
      BY <1>3
    <3>2. [m.count EXCEPT ![l] = 1] \in [List -> Nat]
      BY <1>3
    <3>3. /\ [m.next EXCEPT ![n] = ListNull] \in [Node -> Node \cup {ListNull}]
          /\ [m.prev EXCEPT ![n] = ListNull] \in [Node -> Node \cup {ListNull}]
      BY <1>3
    <3> HIDE DEF m2
    <3> QED
      BY ONLY <2>2, <3>1, <3>2, <3>3, MemRecord
  <2> HIDE DEF m2
  <2>4. InsertedAt(m, m2, l, s, Len(s) + 1, n)
    <3> HIDE DEF s
    <3> QED
      BY <1>1, <1>3, <1>4, <1>5, <2>2 DEF InsertedAt
  <2> QED
    BY <2>3, <2>4 DEF m2
<1>6. CASE Len(s) # 0
  <2> DEFINE t == s[Len(s)]
  <2>2. m2 = [head |-> m.head, tail |-> [m.tail EXCEPT ![l] = n],
              count |-> [m.count EXCEPT ![l] = @ + 1],
              next |-> [m.next EXCEPT ![n] = ListNull, ![t] = n], prev |-> [m.prev EXCEPT ![n] = t]]
    BY <1>1, <1>3, <1>6 DEF mowgli_node_add
  <2>3. m2 \in Mem
    <3>1. t \in Node /\ m.count[l] + 1 \in Nat
      BY <1>1, <1>6
    <3> HIDE DEF t
    <3>2. [m.next EXCEPT ![n] = ListNull, ![t] = n] \in [Node -> Node \cup {ListNull}]
      BY <1>3, <3>1
    <3>3. [m.prev EXCEPT ![n] = t] \in [Node -> Node \cup {ListNull}]
      BY <1>3, <3>1
    <3>4. [m.count EXCEPT ![l] = @ + 1] \in [List -> Nat]
      BY <1>3, <3>1
    <3>5. [m.tail EXCEPT ![l] = n] \in [List -> Node \cup {ListNull}]
      BY <1>3
    <3> QED
      BY <1>3, <2>2, <3>2, <3>3, <3>4, <3>5, MemRecord
  <2> HIDE DEF m2
  <2>4. InsertedAt(m, m2, l, s, Len(s) + 1, n)
    <3> HIDE DEF s
    <3> QED
      BY <1>1, <1>2, <1>3, <1>4, <1>6, <2>2 DEF InsertedAt
  <2> QED
    BY <2>3, <2>4 DEF m2
<1> QED
  BY <1>5, <1>6

(* mowgli_node_add_head inserts before the first node.                     *)
LEMMA AddHeadInserts ==
  ASSUME NEW m, NEW q, Repr(m, q), NEW l \in List, NEW n \in Node, Unlinked(q, n)
  PROVE  /\ mowgli_node_add_head(m, n, l) \in Mem
         /\ InsertedAt(m, mowgli_node_add_head(m, n, l), l, q[l], 1, n)
<1> DEFINE s == q[l]
           m2 == mowgli_node_add_head(m, n, l)
<1>1. /\ m \in Mem /\ s \in Seq(Node) /\ Len(s) \in Nat
      /\ Len(s) = 0 => m.head[l] = ListNull
      /\ Len(s) # 0 => m.head[l] # ListNull /\ m.head[l] = s[1] /\ s[1] \in Node
      /\ m.count[l] = Len(s)
  BY ReprList
<1>2. Len(s) # 0 => s[1] # n
  BY <1>1 DEF Unlinked
<1>3. /\ m.head \in [List -> Node \cup {ListNull}] /\ m.tail \in [List -> Node \cup {ListNull}]
      /\ m.count \in [List -> Nat]
      /\ m.next \in [Node -> Node \cup {ListNull}] /\ m.prev \in [Node -> Node \cup {ListNull}]
      /\ m = [head |-> m.head, tail |-> m.tail, count |-> m.count, next |-> m.next, prev |-> m.prev]
  BY <1>1, MemFields
<1>4. ListNull \notin Node
  BY LinkedListAssumption
<1>5. CASE Len(s) = 0
  <2>1. m2 = mowgli_node_add(m, n, l)
    BY <1>1, <1>5 DEF mowgli_node_add, mowgli_node_add_head
  <2>2. Len(s) + 1 = 1
    BY <1>5
  <2> QED
    BY <2>1, <2>2, AddInserts
<1>6. CASE Len(s) # 0
  <2> DEFINE t == s[1]
  <2>2. m2 = [head |-> [m.head EXCEPT ![l] = n], tail |-> m.tail,
              count |-> [m.count EXCEPT ![l] = @ + 1],
              next |-> [m.next EXCEPT ![n] = t], prev |-> [m.prev EXCEPT ![n] = ListNull, ![t] = n]]
    BY <1>1, <1>3, <1>6 DEF mowgli_node_add_head
  <2>3. m2 \in Mem
    <3>1. t \in Node /\ m.count[l] + 1 \in Nat
      BY <1>1, <1>6
    <3> HIDE DEF t
    <3>2. [m.prev EXCEPT ![n] = ListNull, ![t] = n] \in [Node -> Node \cup {ListNull}]
      BY <1>3, <3>1
    <3>3. [m.next EXCEPT ![n] = t] \in [Node -> Node \cup {ListNull}]
      BY <1>3, <3>1
    <3>4. [m.count EXCEPT ![l] = @ + 1] \in [List -> Nat]
      BY <1>3, <3>1
    <3>5. [m.head EXCEPT ![l] = n] \in [List -> Node \cup {ListNull}]
      BY <1>3
    <3> QED
      BY <1>3, <2>2, <3>2, <3>3, <3>4, <3>5, MemRecord
  <2> HIDE DEF m2
  <2>4. InsertedAt(m, m2, l, s, 1, n)
    <3> HIDE DEF s
    <3> QED
      BY <1>1, <1>2, <1>3, <1>4, <1>6, <2>2 DEF InsertedAt
  <2> QED
    BY <2>3, <2>4 DEF m2
<1> QED
  BY <1>5, <1>6

\* an insertion that links n between two nodes of the list
LEMMA BetweenInserts ==
  ASSUME NEW m, NEW q, Repr(m, q), NEW l \in List, NEW n \in Node, Unlinked(q, n),
         NEW i \in 2 .. Len(q[l]), NEW nx, NEW pv,
         nx = [y \in Node |-> IF y = n THEN q[l][i] ELSE IF y = q[l][i - 1] THEN n ELSE m.next[y]],
         pv = [y \in Node |-> IF y = n THEN q[l][i - 1] ELSE IF y = q[l][i] THEN n ELSE m.prev[y]],
         NEW m2, m2 = [head |-> m.head, tail |-> m.tail, count |-> [m.count EXCEPT ![l] = @ + 1],
                       next |-> nx, prev |-> pv]
  PROVE  m2 \in Mem /\ InsertedAt(m, m2, l, q[l], i, n)
<1> DEFINE s == q[l]
           p == s[i - 1]
           x == s[i]
           ct == [m.count EXCEPT ![l] = @ + 1]
<1>1. m \in Mem /\ s \in Seq(Node) /\ Len(s) \in Nat /\ m.count[l] = Len(s)
  BY ReprList
<1>2. p \in Node /\ x \in Node
  BY <1>1
<1>3. /\ m.head \in [List -> Node \cup {ListNull}] /\ m.tail \in [List -> Node \cup {ListNull}]
      /\ m.count \in [List -> Nat]
      /\ m.next \in [Node -> Node \cup {ListNull}] /\ m.prev \in [Node -> Node \cup {ListNull}]
  BY <1>1, MemFields
<1>4. /\ nx \in [Node -> Node \cup {ListNull}] /\ pv \in [Node -> Node \cup {ListNull}]
      /\ ct \in [List -> Nat]
  <2>1. /\ nx = [y \in Node |-> IF y = n THEN x ELSE IF y = p THEN n ELSE m.next[y]]
        /\ pv = [y \in Node |-> IF y = n THEN p ELSE IF y = x THEN n ELSE m.prev[y]]
    OBVIOUS
  <2> HIDE DEF p, x
  <2> QED
    BY <1>2, <1>3, <2>1
<1>5. m2 = [head |-> m.head, tail |-> m.tail, count |-> ct, next |-> nx, prev |-> pv]
  OBVIOUS
<1>6. m2 \in Mem
  <2> HIDE DEF ct
  <2> QED
    BY <1>3, <1>4, <1>5 DEF Mem
<1>7. /\ m2.next = nx /\ m2.prev = pv /\ m2.head = m.head /\ m2.tail = m.tail /\ m2.count = ct
  BY <1>5
<1>8. InsertedAt(m, m2, l, s, i, n)
  <2>1. /\ p = IF i = 1 THEN ListNull ELSE s[i - 1]
        /\ x = IF i = Len(s) + 1 THEN ListNull ELSE s[i]
    BY <1>1
  <2>2. /\ \A y \in Node : nx[y] = IF y = n THEN x ELSE IF y = p THEN n ELSE m.next[y]
        /\ \A y \in Node : pv[y] = IF y = n THEN p ELSE IF y = x THEN n ELSE m.prev[y]
        /\ \A k \in List : ct[k] = IF k = l THEN m.count[k] + 1 ELSE m.count[k]
    BY <1>3
  <2>3. i # 1 /\ i # Len(s) + 1
    BY <1>1
  <2> HIDE DEF p, x, ct, s
  <2> QED
    BY <1>7, <2>1, <2>2, <2>3, Zenon DEF InsertedAt
<1> QED
  BY <1>6, <1>8

(* mowgli_node_add_before inserts before the node it is given.             *)
LEMMA AddBeforeInserts ==
  ASSUME NEW m, NEW q, Repr(m, q), NEW l \in List, NEW n \in Node, Unlinked(q, n),
         NEW i \in 1 .. Len(q[l])
  PROVE  /\ mowgli_node_add_before(m, n, l, q[l][i]) \in Mem
         /\ InsertedAt(m, mowgli_node_add_before(m, n, l, q[l][i]), l, q[l], i, n)
<1> DEFINE s == q[l]
           m2 == mowgli_node_add_before(m, n, l, s[i])
<1>1. /\ m \in Mem /\ s \in Seq(Node) /\ Len(s) \in Nat /\ s[i] \in Node /\ Injective(s)
      /\ m.head[l] = s[1] /\ DOMAIN s = 1 .. Len(s)
  BY ReprList
<1>2. s[i] # ListNull
  BY <1>1, LinkedListAssumption
<1>3. CASE i = 1
  <2>1. m2 = mowgli_node_add_head(m, n, l)
    BY <1>1, <1>2, <1>3 DEF mowgli_node_add_before
  <2> QED
    BY <1>3, <2>1, AddHeadInserts
<1>4. CASE i # 1
  <2>1. s[i] # s[1]
    BY <1>1, <1>4 DEF Injective
  <2>2. m.prev[s[i]] = s[i - 1]
    BY <1>4 DEF Repr, Links
  <2>3. m \in Mem /\ m.prev \in [Node -> Node \cup {ListNull}]
    BY <1>1, MemFields
  <2>4. i - 1 \in 1 .. Len(s) /\ s[i - 1] \in Node /\ s[i - 1] # n /\ s[i] # n /\ i \in 2 .. Len(s)
    BY <1>1, <1>4 DEF Unlinked
  <2>5. [m.prev EXCEPT ![n] = s[i - 1], ![s[i]] = n]
          = [y \in Node |-> IF y = n THEN s[i - 1] ELSE IF y = s[i] THEN n ELSE m.prev[y]]
    BY <1>1, <2>3, <2>4
  <2> DEFINE nx == [y \in Node |-> IF y = n THEN s[i] ELSE IF y = s[i - 1] THEN n ELSE m.next[y]]
             pv == [m.prev EXCEPT ![n] = s[i - 1], ![s[i]] = n]
  <2>6. m2 = [head |-> m.head, tail |-> m.tail, count |-> [m.count EXCEPT ![l] = @ + 1],
              next |-> nx, prev |-> pv]
    <3>1. m2 = [m EXCEPT !.prev = pv, !.next = nx, !.count[l] = @ + 1]
      BY <1>1, <1>2, <2>1, <2>2 DEF mowgli_node_add_before
    <3>2. m = [head |-> m.head, tail |-> m.tail, count |-> m.count, next |-> m.next, prev |-> m.prev]
      BY <1>1, MemFields
    <3> HIDE DEF nx, pv, m2
    <3> QED
      BY <3>1, <3>2
  <2>8. nx = [y \in Node |-> IF y = n THEN s[i] ELSE IF y = s[i - 1] THEN n ELSE m.next[y]]
    OBVIOUS
  <2> HIDE DEF m2, nx, pv
  <2>7. m2 \in Mem /\ InsertedAt(m, m2, l, q[l], i, n)
    BY <2>4, <2>5, <2>6, <2>8, BetweenInserts, SMTT(30) DEF pv
  <2> QED
    BY <2>7 DEF m2
<1> QED
  BY <1>3, <1>4

(* mowgli_node_add_after inserts behind the node it is given.              *)
LEMMA AddAfterInserts ==
  ASSUME NEW m, NEW q, Repr(m, q), NEW l \in List, NEW n \in Node, Unlinked(q, n),
         NEW i \in 1 .. Len(q[l])
  PROVE  /\ mowgli_node_add_after(m, n, l, q[l][i]) \in Mem
         /\ InsertedAt(m, mowgli_node_add_after(m, n, l, q[l][i]), l, q[l], i + 1, n)
<1> DEFINE s == q[l]
           m2 == mowgli_node_add_after(m, n, l, s[i])
<1>1. /\ m \in Mem /\ s \in Seq(Node) /\ Len(s) \in Nat /\ s[i] \in Node /\ Injective(s)
      /\ DOMAIN s = 1 .. Len(s)
  BY ReprList
<1>2. s[i] # ListNull /\ ListNull \notin Node
  BY <1>1, LinkedListAssumption
<1>3. m.next[s[i]] = IF i = Len(s) THEN ListNull ELSE s[i + 1]
  BY DEF Repr, Links
<1>4. CASE i = Len(s)
  <2>1. m2 = mowgli_node_add(m, n, l)
    BY <1>2, <1>3, <1>4 DEF mowgli_node_add_after
  <2> QED
    BY <1>4, <2>1, AddInserts
<1>5. CASE i # Len(s)
  <2>1. /\ i + 1 \in 2 .. Len(s) /\ s[i + 1] \in Node /\ s[i + 1] # n /\ s[i] # n /\ (i + 1) - 1 = i
        /\ s[i] # s[i + 1]
    BY <1>1, <1>5 DEF Unlinked, Injective
  <2>2. m.next[s[i]] = s[i + 1] /\ s[i + 1] # ListNull
    BY <1>2, <1>3, <1>5, <2>1
  <2>3. m.prev \in [Node -> Node \cup {ListNull}] /\ m.next \in [Node -> Node \cup {ListNull}]
    BY <1>1, MemFields
  <2>4. [m.prev EXCEPT ![n] = s[i], ![s[i + 1]] = n]
          = [y \in Node |-> IF y = n THEN s[i] ELSE IF y = s[i + 1] THEN n ELSE m.prev[y]]
    BY <2>1, <2>3
  <2>5. [m.next EXCEPT ![n] = s[i + 1], ![s[i]] = n]
          = [y \in Node |-> IF y = n THEN s[i + 1] ELSE IF y = s[i] THEN n ELSE m.next[y]]
    BY <1>1, <2>1, <2>3
  <2> DEFINE nx == [m.next EXCEPT ![n] = s[i + 1], ![s[i]] = n]
             pv == [m.prev EXCEPT ![n] = s[i], ![s[i + 1]] = n]
  <2>6. m2 = [head |-> m.head, tail |-> m.tail, count |-> [m.count EXCEPT ![l] = @ + 1],
              next |-> nx, prev |-> pv]
    <3>1. m2 = [m EXCEPT !.prev = pv, !.next = nx, !.count[l] = @ + 1]
      BY <1>1, <1>2, <2>2 DEF mowgli_node_add_after
    <3>2. m = [head |-> m.head, tail |-> m.tail, count |-> m.count, next |-> m.next, prev |-> m.prev]
      BY <1>1, MemFields
    <3> HIDE DEF nx, pv, m2
    <3> QED
      BY <3>1, <3>2
  <2> HIDE DEF m2, nx, pv
  <2>7. m2 \in Mem /\ InsertedAt(m, m2, l, q[l], i + 1, n)
    BY <2>1, <2>4, <2>5, <2>6, BetweenInserts, SMTT(30) DEF nx, pv
  <2> QED
    BY <2>7 DEF m2
<1> QED
  BY <1>4, <1>5

-----------------------------------------------------------------------------
(* Taking a node off a list.                                               *)

\* t is s without its ith element
Deleted(t, s, i) ==
  /\ t \in Seq(Node)
  /\ Len(t) = Len(s) - 1
  /\ \A j \in 1 .. Len(s) - 1 : t[j] = IF j < i THEN s[j] ELSE s[j + 1]

LEMMA DetachRepr ==
  ASSUME NEW m, NEW q, Repr(m, q), NEW l \in List, NEW i \in 1 .. Len(q[l]),
         NEW t, Deleted(t, q[l], i)
  PROVE  Repr(Detach(m, q[l][i], l), [q EXCEPT ![l] = t])
<1> DEFINE r == [q EXCEPT ![l] = t]
           s == q[l]
           N == Len(s)
           n == s[i]
           m2 == Detach(m, n, l)
           p == m.prev[n]
           x == m.next[n]
           h == [m.head EXCEPT ![l] = IF p = ListNull THEN x ELSE @]
           tl == [m.tail EXCEPT ![l] = IF x = ListNull THEN p ELSE @]
           ct == [m.count EXCEPT ![l] = @ - 1]
           nx == Store(m.next, p, x)
           pv == Store(m.prev, x, p)
<1>1. /\ q \in [List -> Seq(Node)] /\ s \in Seq(Node) /\ N \in Nat /\ i \in Nat /\ 1 <= i /\ i <= N
      /\ t \in Seq(Node) /\ Len(t) = N - 1
      /\ \A j \in 1 .. N - 1 : t[j] = IF j < i THEN s[j] ELSE s[j + 1]
      /\ \A j \in 1 .. N : s[j] \in Node
  BY DEF Repr, Deleted
<1>2. \A j, k \in 1 .. N : s[j] = s[k] => j = k
  BY DEF Repr, Apart
<1>3. ListNull \notin Node
  BY LinkedListAssumption
<1>4. /\ m.head \in [List -> Node \cup {ListNull}] /\ m.tail \in [List -> Node \cup {ListNull}]
      /\ m.count \in [List -> Nat]
      /\ m.next \in [Node -> Node \cup {ListNull}] /\ m.prev \in [Node -> Node \cup {ListNull}]
      /\ m = [head |-> m.head, tail |-> m.tail, count |-> m.count, next |-> m.next, prev |-> m.prev]
  BY MemFields DEF Repr
<1>5. /\ \A j \in 1 .. N : m.next[s[j]] = IF j = N THEN ListNull ELSE s[j + 1]
      /\ \A j \in 1 .. N : m.prev[s[j]] = IF j = 1 THEN ListNull ELSE s[j - 1]
  BY DEF Repr, Links
<1>6. /\ m.head[l] = s[1] /\ m.tail[l] = s[N] /\ m.count[l] = N
  BY <1>1 DEF Repr, Ends
<1>7. /\ p = IF i = 1 THEN ListNull ELSE s[i - 1]
      /\ x = IF i = N THEN ListNull ELSE s[i + 1]
  BY <1>1, <1>5
<1>8. r \in [List -> Seq(Node)] /\ r[l] = t /\ \A k \in List : k # l => r[k] = q[k]
  BY <1>1
<1>9. m2 = [head |-> h, tail |-> tl, count |-> ct, next |-> nx, prev |-> pv]
  <2>1. m2 = [m EXCEPT !.head[l] = IF p = ListNull THEN x ELSE @,
                       !.tail[l] = IF x = ListNull THEN p ELSE @,
                       !.next = nx, !.prev = pv, !.count[l] = @ - 1]
    BY Zenon DEF Detach
  <2> HIDE DEF m2, nx, pv, p, x
  <2> QED
    BY <1>4, <2>1
<1> HIDE DEF m2
<1>10. /\ m2.next = nx /\ m2.prev = pv /\ m2.head = h /\ m2.tail = tl /\ m2.count = ct
  <2> HIDE DEF h, tl, ct, nx, pv
  <2> QED
    BY <1>9
<1>11. /\ \A y \in Node : nx[y] = IF y = p THEN x ELSE m.next[y]
       /\ \A y \in Node : pv[y] = IF y = x THEN p ELSE m.prev[y]
  BY DEF Store
<1>12. \A k \in List : /\ h[k] = IF k = l /\ p = ListNull THEN x ELSE m.head[k]
                       /\ tl[k] = IF k = l /\ x = ListNull THEN p ELSE m.tail[k]
                       /\ ct[k] = IF k = l THEN m.count[k] - 1 ELSE m.count[k]
  BY <1>4
<1>13. p \in Node \cup {ListNull} /\ x \in Node \cup {ListNull}
  BY <1>1, <1>7
<1>14. /\ nx \in [Node -> Node \cup {ListNull}] /\ pv \in [Node -> Node \cup {ListNull}]
       /\ h \in [List -> Node \cup {ListNull}] /\ tl \in [List -> Node \cup {ListNull}]
  <2> HIDE DEF p, x
  <2> QED
    BY <1>4, <1>13 DEF Store
<1>15. ct \in [List -> Nat]
  <2>1. m.count[l] - 1 \in Nat
    BY <1>1, <1>6
  <2> QED
    BY <1>4, <2>1
<1>16. m2 \in Mem
  <2> HIDE DEF h, tl, ct, nx, pv
  <2> QED
    BY <1>9, <1>14, <1>15 DEF Mem
<1> HIDE DEF s, n, p, x, h, tl, ct, nx, pv
<1>17. ASSUME NEW j \in 1 .. N
       PROVE  /\ s[j] = p <=> (i # 1 /\ j = i - 1)
              /\ s[j] = x <=> (i # N /\ j = i + 1)
  <2>1. s[j] # ListNull
    BY <1>1, <1>3
  <2>2. i # 1 => i - 1 \in 1 .. N
    BY <1>1
  <2>3. i # N => i + 1 \in 1 .. N
    BY <1>1
  <2> QED
    BY <1>2, <1>7, <2>1, <2>2, <2>3
<1>18. Links(m2, t)
  <2> SUFFICES ASSUME NEW j \in 1 .. N - 1
               PROVE  /\ m2.next[t[j]] = IF j = N - 1 THEN ListNull ELSE t[j + 1]
                      /\ m2.prev[t[j]] = IF j = 1 THEN ListNull ELSE t[j - 1]
    BY <1>1 DEF Links
  <2>1. /\ j \in Nat /\ 1 <= j /\ j <= N - 1 /\ j \in 1 .. N /\ j + 1 \in 1 .. N
        /\ (j + 1) - 1 = j /\ (j - 1) + 1 = j /\ (j + 1) + 1 = j + 2
    BY <1>1
  <2>2. j # N - 1 => t[j + 1] = IF j + 1 < i THEN s[j + 1] ELSE s[j + 2]
    <3>1. j # N - 1 => j + 1 \in 1 .. N - 1
      BY <1>1, <2>1
    <3> QED
      BY <1>1, <2>1, <3>1
  <2>3. j # 1 => t[j - 1] = IF j - 1 < i THEN s[j - 1] ELSE s[j]
    <3>1. j # 1 => j - 1 \in 1 .. N - 1
      BY <1>1, <2>1
    <3> QED
      BY <1>1, <2>1, <3>1
  <2>4. CASE j < i
    <3>1. t[j] = s[j] /\ s[j] \in Node /\ s[j] # x
      <4>1. t[j] = s[j] /\ s[j] \in Node
        BY <1>1, <2>1, <2>4
      <4>2. i # N => j # i + 1
        BY <1>1, <2>1, <2>4
      <4> QED
        BY <1>17, <2>1, <4>1, <4>2
    <3>2. m2.prev[t[j]] = IF j = 1 THEN ListNull ELSE s[j - 1]
      BY <1>5, <1>10, <1>11, <2>1, <3>1
    <3>3. m2.next[t[j]] = IF j = i - 1 THEN x ELSE s[j + 1]
      <4>1. j # N
        BY <1>1, <2>1
      <4>2. s[j] = p <=> j = i - 1
        BY <1>1, <1>17, <2>1, <2>4, SMTT(30)
      <4> QED
        BY <1>5, <1>10, <1>11, <2>1, <3>1, <4>1, <4>2
    <3>4. j = i - 1 => x = IF j = N - 1 THEN ListNull ELSE t[j + 1]
      <4>1. j = i - 1 => i + 1 = j + 2 /\ (i = N <=> j = N - 1) /\ ~(j + 1 < i)
        BY <1>1, <2>1
      <4> QED
        BY <1>7, <2>2, <4>1
    <3>5. j # i - 1 => j # N - 1 /\ j + 1 < i
      BY <1>1, <2>1, <2>4
    <3>6. j # 1 => j - 1 < i
      BY <1>1, <2>1, <2>4
    <3> QED
      BY <2>2, <2>3, <3>2, <3>3, <3>4, <3>5, <3>6
  <2>5. CASE ~(j < i)
    <3>1. t[j] = s[j + 1] /\ s[j + 1] \in Node /\ s[j + 1] # p
      <4>1. j + 1 # i - 1
        BY <1>1, <2>1, <2>5
      <4> QED
        BY <1>1, <1>17, <2>1, <2>5, <4>1
    <3>2. m2.next[t[j]] = IF j = N - 1 THEN ListNull ELSE s[j + 2]
      <4>1. j + 1 = N <=> j = N - 1
        BY <1>1, <2>1
      <4>2. m.next[s[j + 1]] = IF j + 1 = N THEN ListNull ELSE s[(j + 1) + 1]
        BY <1>5, <2>1
      <4> QED
        BY <1>10, <1>11, <2>1, <3>1, <4>1, <4>2
    <3>3. m2.prev[t[j]] = IF j = i THEN p ELSE s[j]
      <4>1. s[j + 1] = x <=> j = i
        <5>1. j + 1 = i + 1 <=> j = i
          BY <1>1, <2>1
        <5>2. j = i => i # N
          BY <1>1, <2>1
        <5> QED
          BY <1>17, <2>1, <5>1, <5>2
      <4>2. m.prev[s[j + 1]] = IF j + 1 = 1 THEN ListNull ELSE s[(j + 1) - 1]
        BY <1>5, <2>1
      <4>3. j + 1 # 1
        BY <2>1
      <4> QED
        BY <1>10, <1>11, <2>1, <3>1, <4>1, <4>2, <4>3
    <3>4. j # N - 1 => ~(j + 1 < i)
      BY <1>1, <2>1, <2>5
    <3>5. CASE j = i
      <4>1. j # 1 => j - 1 < i /\ s[j - 1] = p
        BY <1>1, <1>7, <2>1, <3>5
      <4>2. j = 1 => p = ListNull
        BY <1>7, <3>5
      <4> QED
        BY <2>2, <2>3, <3>2, <3>3, <3>4, <3>5, <4>1, <4>2
    <3>6. CASE j # i
      <4>1. j # 1 /\ ~(j - 1 < i)
        BY <1>1, <2>1, <2>5, <3>6
      <4> QED
        BY <2>2, <2>3, <3>2, <3>3, <3>4, <3>6, <4>1
    <3> QED
      BY <3>5, <3>6
  <2> QED
    BY <2>4, <2>5
<1>19. Ends(m2, l, t)
  <2>1. m2.head[l] = IF p = ListNull THEN x ELSE s[1]
    BY <1>6, <1>10, <1>12
  <2>2. m2.tail[l] = IF x = ListNull THEN p ELSE s[N]
    BY <1>6, <1>10, <1>12
  <2>3. m2.count[l] = N - 1
    BY <1>6, <1>10, <1>12
  <2>4. i # 1 => i - 1 \in 1 .. N /\ s[i - 1] \in Node
    BY <1>1
  <2>5. i # N => i + 1 \in 1 .. N /\ s[i + 1] \in Node
    BY <1>1
  <2>6. (p = ListNull <=> i = 1) /\ (x = ListNull <=> i = N)
    BY <1>3, <1>7, <2>4, <2>5
  <2>7. CASE N = 1
    BY <1>1, <1>7, <2>1, <2>2, <2>3, <2>6, <2>7 DEF Ends
  <2>8. CASE N # 1
    <3>1. N - 1 \in 1 .. N - 1 /\ 1 \in 1 .. N - 1 /\ N - 1 # 0
      BY <1>1, <2>8
    <3>2. t[1] = IF i = 1 THEN s[2] ELSE s[1]
      BY <1>1, <3>1
    <3>3. t[N - 1] = IF i = N THEN s[N - 1] ELSE s[N]
      BY <1>1, <3>1
    <3>4. m2.head[l] = t[1]
      <4>1. i = 1 => x = s[2]
        BY <1>7, <2>8
      <4> QED
        BY <2>1, <2>6, <3>2, <4>1
    <3>5. m2.tail[l] = t[N - 1]
      <4>1. i = N => p = s[N - 1]
        BY <1>7, <2>8
      <4> QED
        BY <2>2, <2>6, <3>3, <4>1
    <3> QED
      BY <1>1, <2>3, <3>1, <3>4, <3>5 DEF Ends
  <2> QED
    BY <2>7, <2>8
<1>20. ASSUME NEW k \in List, k # l
       PROVE  Links(m2, q[k]) /\ Ends(m2, k, q[k])
  <2>1. q[k] \in Seq(Node) /\ \A j \in 1 .. Len(q[k]) : q[k][j] \in Node
    BY <1>1
  <2>2. ASSUME NEW j \in 1 .. Len(q[k])
        PROVE  q[k][j] # p /\ q[k][j] # x
    <3>1. \A d \in 1 .. N : q[k][j] # s[d]
      BY <1>20 DEF Repr, Apart, s
    <3>2. (i # 1 => i - 1 \in 1 .. N) /\ (i # N => i + 1 \in 1 .. N)
      BY <1>1
    <3> QED
      BY <1>3, <1>7, <2>1, <3>1, <3>2
  <2>3. \A j \in 1 .. Len(q[k]) : m2.next[q[k][j]] = m.next[q[k][j]] /\ m2.prev[q[k][j]] = m.prev[q[k][j]]
    BY <1>10, <1>11, <2>1, <2>2
  <2>4. Links(m, q[k]) /\ Ends(m, k, q[k])
    BY DEF Repr
  <2>5. m2.head[k] = m.head[k] /\ m2.tail[k] = m.tail[k] /\ m2.count[k] = m.count[k]
    BY <1>10, <1>12, <1>20
  <2> QED
    BY <2>3, <2>4, <2>5 DEF Links, Ends
<1>21. Apart(r)
  <2>1. ASSUME NEW d \in 1 .. Len(t)
        PROVE  /\ (IF d < i THEN d ELSE d + 1) \in 1 .. N
               /\ t[d] = s[IF d < i THEN d ELSE d + 1]
    BY <1>1
  <2> SUFFICES ASSUME NEW a \in List, NEW b \in List, NEW j \in 1 .. Len(r[a]), NEW k \in 1 .. Len(r[b]),
                      r[a][j] = r[b][k]
               PROVE  a = b /\ j = k
    BY DEF Apart
  <2> HIDE DEF r
  <2>2. Apart(q)
    BY DEF Repr
  <2>3. CASE a # l /\ b # l
    BY <1>8, <2>2, <2>3, SMTT(30) DEF Apart
  <2>4. ASSUME NEW c \in List, c # l, NEW e \in 1 .. Len(q[c]), NEW d \in 1 .. Len(t)
        PROVE  t[d] # q[c][e]
    <3>1. \E f \in 1 .. Len(q[l]) : t[d] = q[l][f]
      BY <2>1, Zenon DEF s
    <3> QED
      BY <2>2, <2>4, <3>1 DEF Apart
  <2>5. CASE a = l /\ b # l
    BY <1>8, <2>4, <2>5
  <2>6. CASE a # l /\ b = l
    BY <1>8, <2>4, <2>6
  <2>7. CASE a = l /\ b = l
    <3>1. j \in 1 .. Len(t) /\ k \in 1 .. Len(t) /\ t[j] = t[k]
      BY <1>8, <2>7
    <3>2. (IF j < i THEN j ELSE j + 1) = (IF k < i THEN k ELSE k + 1)
      BY <1>2, <2>1, <3>1, ZenonT(40)
    <3>3. j = k
      BY <1>1, <3>1, <3>2
    <3> QED
      BY <2>7, <3>3
  <2> QED
    BY <2>3, <2>5, <2>6, <2>7
<1>22. \A k \in List : Links(m2, r[k]) /\ Ends(m2, k, r[k])
  <2> HIDE DEF r
  <2> QED
    BY <1>8, <1>18, <1>19, <1>20
<1> QED
  BY <1>8, <1>16, <1>21, <1>22 DEF Repr, m2, n, s

(* What mowgli_node_move does to the list the node goes to.                *)
LEMMA MoveInserts ==
  ASSUME NEW d, NEW q, Repr(d, q), NEW l \in List, NEW n \in Node, Unlinked(q, n),
         NEW h, h = d.head[l],
         NEW m2, m2 = [d EXCEPT !.prev = [Store(@, h, n) EXCEPT ![n] = ListNull],
                                !.next[n] = h,
                                !.tail[l] = IF h = ListNull /\ @ = ListNull THEN n ELSE @,
                                !.head[l] = n,
                                !.count[l] = @ + 1]
  PROVE  m2 \in Mem /\ InsertedAt(d, m2, l, q[l], 1, n)
<1> DEFINE s == q[l]
           pv == [Store(d.prev, h, n) EXCEPT ![n] = ListNull]
           nx == [d.next EXCEPT ![n] = h]
           tl == [d.tail EXCEPT ![l] = IF h = ListNull /\ @ = ListNull THEN n ELSE @]
           hd == [d.head EXCEPT ![l] = n]
           ct == [d.count EXCEPT ![l] = @ + 1]
<1>1. /\ d \in Mem /\ s \in Seq(Node) /\ Len(s) \in Nat
      /\ Len(s) = 0 => h = ListNull /\ d.tail[l] = ListNull
      /\ Len(s) # 0 => h # ListNull /\ h = s[1] /\ s[1] \in Node
      /\ d.count[l] = Len(s)
  BY ReprList
<1>2. h # n
  BY <1>1, LinkedListAssumption DEF Unlinked
<1>3. /\ d.head \in [List -> Node \cup {ListNull}] /\ d.tail \in [List -> Node \cup {ListNull}]
      /\ d.count \in [List -> Nat]
      /\ d.next \in [Node -> Node \cup {ListNull}] /\ d.prev \in [Node -> Node \cup {ListNull}]
      /\ d = [head |-> d.head, tail |-> d.tail, count |-> d.count, next |-> d.next, prev |-> d.prev]
  BY <1>1, MemFields
<1>4. m2 = [head |-> hd, tail |-> tl, count |-> ct, next |-> nx, prev |-> pv]
  <2>1. m2 = [d EXCEPT !.prev = pv, !.next[n] = h,
                       !.tail[l] = IF h = ListNull /\ @ = ListNull THEN n ELSE @,
                       !.head[l] = n, !.count[l] = @ + 1]
    BY <1>3
  <2> HIDE DEF pv
  <2> QED
    BY <1>3, <2>1
<1>5. h \in Node \cup {ListNull}
  BY <1>1
<1>6. \A y \in Node : pv[y] = IF y = n THEN ListNull ELSE IF y = h THEN n ELSE d.prev[y]
  BY DEF Store
<1>7. pv \in [Node -> Node \cup {ListNull}]
  BY <1>3 DEF Store
<1>8. /\ nx \in [Node -> Node \cup {ListNull}]
      /\ tl \in [List -> Node \cup {ListNull}] /\ hd \in [List -> Node \cup {ListNull}]
      /\ ct \in [List -> Nat]
  BY <1>3, <1>5
<1>9. \A y \in Node : nx[y] = IF y = n THEN h ELSE d.next[y]
  BY <1>3
<1>10. \A k \in List : /\ hd[k] = IF k = l THEN n ELSE d.head[k]
                       /\ tl[k] = IF k = l /\ h = ListNull /\ d.tail[k] = ListNull THEN n ELSE d.tail[k]
                       /\ ct[k] = IF k = l THEN d.count[k] + 1 ELSE d.count[k]
  BY <1>3
<1> HIDE DEF pv, nx, tl, hd, ct
<1>11. m2 \in Mem
  BY <1>4, <1>7, <1>8 DEF Mem
<1>12. m2.next = nx /\ m2.prev = pv /\ m2.head = hd /\ m2.tail = tl /\ m2.count = ct
  BY ONLY <1>4
<1>13. h = IF 1 = Len(s) + 1 THEN ListNull ELSE s[1]
  BY <1>1
<1>14. Len(s) = 0 <=> 1 = Len(s) + 1
  BY <1>1
<1>15. ListNull \notin Node
  BY LinkedListAssumption
<1>16. InsertedAt(d, m2, l, s, 1, n)
  <2> HIDE DEF s
  <2>1. \A y \in Node : /\ m2.next[y] = IF y = n THEN h ELSE d.next[y]
                        /\ m2.prev[y] = IF y = n THEN ListNull ELSE IF y = h THEN n ELSE d.prev[y]
    BY <1>6, <1>9, <1>12
  <2>2. \A k \in List : /\ m2.head[k] = IF k = l THEN n ELSE d.head[k]
                        /\ m2.tail[k] = IF k = l /\ 1 = Len(s) + 1 THEN n ELSE d.tail[k]
                        /\ m2.count[k] = IF k = l THEN d.count[k] + 1 ELSE d.count[k]
    BY <1>1, <1>10, <1>12, <1>14
  <2> QED
    BY <1>13, <1>15, <2>1, <2>2 DEF InsertedAt
<1> QED
  BY <1>11, <1>16

LEMMA UnlinkDeletes ==
  ASSUME NEW m, NEW q, Repr(m, q), NEW l \in List, NEW n \in ToSet(q[l])
  PROVE  \E i \in 1 .. Len(q[l]) : q[l][i] = n /\ Deleted(Unlink(q[l], n), q[l], i)
<1> DEFINE s == q[l]
<1>1. s \in Seq(Node) /\ \A i, j \in DOMAIN s : s[i] = s[j] => i = j
  BY ReprList DEF Injective
<1>2. n \in ToSet(s)
  OBVIOUS
<1> HIDE DEF s
<1>3. PICK p \in 1 .. Len(s) :
        /\ s[p] = n
        /\ Unlink(s, n) \in Seq(Node)
        /\ Len(Unlink(s, n)) = Len(s) - 1
        /\ \A i \in 1 .. Len(s) - 1 : Unlink(s, n)[i] = IF i < p THEN s[i] ELSE s[i + 1]
  BY <1>1, <1>2, UnlinkProperties
<1>4. Deleted(Unlink(s, n), s, p)
  BY <1>3 DEF Deleted
<1> QED
  BY <1>3, <1>4 DEF s

LEMMA DeleteRepr ==
  ASSUME NEW m, NEW q, Repr(m, q), NEW l \in List, NEW n \in ToSet(q[l])
  PROVE  LET r == [q EXCEPT ![l] = Unlink(q[l], n)]
         IN  Repr(Detach(m, n, l), r) /\ Unlinked(r, n) /\ n \in Node
<1> DEFINE r == [q EXCEPT ![l] = Unlink(q[l], n)]
           t == Unlink(q[l], n)
<1>1. PICK i \in 1 .. Len(q[l]) : q[l][i] = n /\ Deleted(t, q[l], i)
  BY UnlinkDeletes
<1> HIDE DEF t
<1>2. Repr(Detach(m, n, l), [q EXCEPT ![l] = t])
  BY <1>1, DetachRepr
<1>3. q \in [List -> Seq(Node)] /\ Len(q[l]) \in Nat /\ n \in Node
  BY <1>1 DEF Repr
<1>4. ASSUME NEW k \in List, NEW j \in 1 .. Len([q EXCEPT ![l] = t][k])
      PROVE  [q EXCEPT ![l] = t][k][j] # n
  <2>1. CASE k # l
    <3>1. [q EXCEPT ![l] = t][k] = q[k]
      BY <1>3, <2>1
    <3> QED
      BY <1>1, <1>4, <2>1, <3>1 DEF Repr, Apart
  <2>2. CASE k = l
    <3>1. [q EXCEPT ![l] = t][k] = t
      BY <1>3, <2>2
    <3>2. j \in 1 .. Len(q[l]) - 1
      BY <1>1, <3>1 DEF Deleted
    <3>3. \E f \in 1 .. Len(q[l]) : f # i /\ t[j] = q[l][f]
      <4>1. t[j] = IF j < i THEN q[l][j] ELSE q[l][j + 1]
        BY <1>1, <3>2 DEF Deleted
      <4>2. j \in 1 .. Len(q[l]) /\ j + 1 \in 1 .. Len(q[l])
        BY <1>3, <3>2
      <4>3. CASE j < i
        BY <1>3, <4>1, <4>2, <4>3
      <4>4. CASE ~(j < i)
        <5>1. j + 1 # i
          BY <1>3, <4>2, <4>4
        <5> QED
          BY <4>1, <4>2, <4>4, <5>1
      <4> QED
        BY <4>3, <4>4
    <3> QED
      BY <1>1, <3>1, <3>3 DEF Repr, Apart
  <2> QED
    BY <2>1, <2>2
<1> QED
  BY <1>2, <1>3, <1>4 DEF Unlinked, t

\* what the new first element does to a sequence
LEMMA ConsInserted ==
  ASSUME NEW s \in Seq(Node), NEW n \in Node
  PROVE  Inserted(<<n>> \o s, s, 1, n)
<1>1. /\ <<n>> \o s \in Seq(Node) /\ Len(<<n>> \o s) = Len(s) + 1
      /\ \A j \in 1 .. Len(s) + 1 : (<<n>> \o s)[j] = IF j = 1 THEN n ELSE s[j - 1]
  OBVIOUS
<1> QED
  BY <1>1 DEF Inserted

LEMMA MoveRepr ==
  ASSUME NEW m, NEW q, Repr(m, q), NEW o \in List, NEW l \in List, NEW n \in ToSet(q[o])
  PROVE  LET r == [q EXCEPT ![o] = Unlink(q[o], n)]
         IN  Repr(mowgli_node_move(m, n, o, l), [r EXCEPT ![l] = <<n>> \o r[l]])
<1> DEFINE r == [q EXCEPT ![o] = Unlink(q[o], n)]
           d == Detach(m, n, o)
           h == d.head[l]
           m2 == mowgli_node_move(m, n, o, l)
<1>1. Repr(d, r) /\ Unlinked(r, n) /\ n \in Node
  BY DeleteRepr
<1>2. m2 = [d EXCEPT !.prev = [Store(@, h, n) EXCEPT ![n] = ListNull],
                     !.next[n] = h,
                     !.tail[l] = IF h = ListNull /\ @ = ListNull THEN n ELSE @,
                     !.head[l] = n,
                     !.count[l] = @ + 1]
  BY Zenon DEF mowgli_node_move
<1> HIDE DEF m2, d, r
<1>3. m2 \in Mem /\ InsertedAt(d, m2, l, r[l], 1, n)
  BY <1>1, <1>2, MoveInserts
<1>4. r[l] \in Seq(Node) /\ 1 \in 1 .. Len(r[l]) + 1
  BY <1>1, ReprList
<1>5. Inserted(<<n>> \o r[l], r[l], 1, n)
  BY <1>1, <1>4, ConsInserted
<1>6. Repr(m2, [r EXCEPT ![l] = <<n>> \o r[l]])
  BY <1>1, <1>3, <1>4, <1>5, InsertRepr
<1> QED
  BY <1>6 DEF m2, r

-----------------------------------------------------------------------------
(* Appending one list to another.                                          *)

LEMMA ConcatRepr ==
  ASSUME NEW m, NEW q, Repr(m, q), NEW l \in List, NEW k \in List, l # k,
         Len(q[k]) = 0 => Len(q[l]) = 0
  PROVE  Repr(mowgli_list_concat(m, l, k), [q EXCEPT ![l] = q[l] \o q[k], ![k] = << >>])
<1> DEFINE r == [q EXCEPT ![l] = q[l] \o q[k], ![k] = << >>]
           a == q[l]
           b == q[k]
           A == Len(a)
           B == Len(b)
           u == a \o b
           m2 == mowgli_list_concat(m, l, k)
           t == m.tail[l]
           hb == m.head[k]
           hd == [m.head EXCEPT ![l] = IF @ = ListNull THEN hb ELSE @, ![k] = ListNull]
           tl == [m.tail EXCEPT ![l] = m.tail[k], ![k] = ListNull]
           ct == [m.count EXCEPT ![l] = @ + m.count[k], ![k] = 0]
           nx == Store(m.next, t, hb)
           pv == IF t = ListNull THEN m.prev ELSE Store(m.prev, hb, t)
<1>1. /\ m \in Mem /\ a \in Seq(Node) /\ A \in Nat
      /\ \A j \in 1 .. A : a[j] \in Node
      /\ A = 0 => m.head[l] = ListNull /\ t = ListNull
      /\ A # 0 => m.head[l] = a[1] /\ t = a[A] /\ m.head[l] # ListNull
      /\ m.count[l] = A
  BY ReprList
<1>2. /\ b \in Seq(Node) /\ B \in Nat
      /\ \A j \in 1 .. B : b[j] \in Node
      /\ B = 0 => hb = ListNull /\ m.tail[k] = ListNull
      /\ B # 0 => hb = b[1] /\ m.tail[k] = b[B]
      /\ m.count[k] = B
  BY ReprList
<1>3. ListNull \notin Node
  BY LinkedListAssumption
<1>4. /\ m.head \in [List -> Node \cup {ListNull}] /\ m.tail \in [List -> Node \cup {ListNull}]
      /\ m.count \in [List -> Nat]
      /\ m.next \in [Node -> Node \cup {ListNull}] /\ m.prev \in [Node -> Node \cup {ListNull}]
      /\ m = [head |-> m.head, tail |-> m.tail, count |-> m.count, next |-> m.next, prev |-> m.prev]
  BY <1>1, MemFields
<1>5. m2 = [head |-> hd, tail |-> tl, count |-> ct, next |-> nx, prev |-> pv]
  <2>1. m2 = [m EXCEPT !.head = hd, !.tail = tl, !.next = nx, !.prev = pv, !.count = ct]
    <3>1. hd = [m.head EXCEPT ![l] = IF m.head[l] = ListNull THEN hb ELSE m.head[l], ![k] = ListNull]
      BY <1>4
    <3>2. ct = [m.count EXCEPT ![l] = m.count[l] + m.count[k], ![k] = 0]
      BY <1>4
    <3> QED
      BY <1>4, <3>1, <3>2 DEF mowgli_list_concat
  <2> HIDE DEF m2, hd, tl, ct, nx, pv
  <2> QED
    BY <1>4, <2>1
<1> HIDE DEF m2
<1>6. t \in Node \cup {ListNull} /\ hb \in Node \cup {ListNull}
  BY <1>4
<1>7. /\ \A y \in Node : nx[y] = IF y = t THEN hb ELSE m.next[y]
      /\ \A y \in Node : pv[y] = IF y = hb /\ t # ListNull THEN t ELSE m.prev[y]
  BY DEF Store
<1>8. nx \in [Node -> Node \cup {ListNull}] /\ pv \in [Node -> Node \cup {ListNull}]
  <2> HIDE DEF t, hb
  <2> QED
    BY <1>4, <1>6 DEF Store
<1>9. /\ hd \in [List -> Node \cup {ListNull}] /\ tl \in [List -> Node \cup {ListNull}]
      /\ ct \in [List -> Nat]
  <2>1. m.count[l] + m.count[k] \in Nat
    BY <1>4
  <2>2. m.tail[k] \in Node \cup {ListNull}
    BY <1>4
  <2> HIDE DEF hb
  <2> QED
    BY <1>4, <1>6, <2>1, <2>2
<1>10. \A c \in List : /\ hd[c] = IF c = k THEN ListNull
                                  ELSE IF c = l /\ m.head[l] = ListNull THEN hb ELSE m.head[c]
                       /\ tl[c] = IF c = k THEN ListNull ELSE IF c = l THEN m.tail[k] ELSE m.tail[c]
                       /\ ct[c] = IF c = k THEN 0 ELSE IF c = l THEN m.count[l] + m.count[k] ELSE m.count[c]
  BY <1>4
<1> HIDE DEF hd, tl, ct, nx, pv
<1>11. m2 \in Mem
  BY <1>5, <1>8, <1>9 DEF Mem
<1>12. m2.next = nx /\ m2.prev = pv /\ m2.head = hd /\ m2.tail = tl /\ m2.count = ct
  BY ONLY <1>5
<1>13. /\ \A j \in 1 .. A : m.next[a[j]] = IF j = A THEN ListNull ELSE a[j + 1]
       /\ \A j \in 1 .. A : m.prev[a[j]] = IF j = 1 THEN ListNull ELSE a[j - 1]
       /\ \A j \in 1 .. B : m.next[b[j]] = IF j = B THEN ListNull ELSE b[j + 1]
       /\ \A j \in 1 .. B : m.prev[b[j]] = IF j = 1 THEN ListNull ELSE b[j - 1]
  BY DEF Repr, Links
<1>14. /\ \A i, j \in 1 .. A : a[i] = a[j] => i = j
       /\ \A i, j \in 1 .. B : b[i] = b[j] => i = j
       /\ \A i \in 1 .. A, j \in 1 .. B : a[i] # b[j]
  BY DEF Repr, Apart
<1>15. /\ u \in Seq(Node) /\ Len(u) = A + B
       /\ \A j \in 1 .. A + B : u[j] = IF j <= A THEN a[j] ELSE b[j - A]
  <2> HIDE DEF a, b
  <2> QED
    BY <1>1, <1>2, ConcatProperties
<1>16. /\ r \in [List -> Seq(Node)] /\ r[l] = u /\ r[k] = << >>
       /\ \A c \in List : c # l /\ c # k => r[c] = q[c]
  <2>1. << >> \in Seq(Node) /\ q \in [List -> Seq(Node)]
    BY EmptySeq DEF Repr
  <2> HIDE DEF u
  <2>2. r = [q EXCEPT ![l] = u, ![k] = << >>]
    BY DEF u
  <2> HIDE DEF r
  <2> QED
    BY <1>15, <2>1, <2>2
<1> HIDE DEF a, b, u, t, hb
<1>17. B = 0 => A = 0
  BY DEF a, b
<1>18. Links(m2, u)
  <2> SUFFICES ASSUME NEW j \in 1 .. A + B
               PROVE  /\ nx[u[j]] = IF j = A + B THEN ListNull ELSE u[j + 1]
                      /\ pv[u[j]] = IF j = 1 THEN ListNull ELSE u[j - 1]
    BY <1>12, <1>15 DEF Links
  <2>1. j \in Nat /\ 1 <= j /\ j <= A + B
    BY <1>1, <1>2
  <2>2. j # A + B => u[j + 1] = IF j + 1 <= A THEN a[j + 1] ELSE b[(j + 1) - A]
    <3>1. j # A + B => j + 1 \in 1 .. A + B
      BY <1>1, <1>2, <2>1
    <3> QED
      BY <1>15, <3>1
  <2>3. j # 1 => u[j - 1] = IF j - 1 <= A THEN a[j - 1] ELSE b[(j - 1) - A]
    <3>1. j # 1 => j - 1 \in 1 .. A + B
      BY <1>1, <1>2, <2>1
    <3> QED
      BY <1>15, <3>1
  <2>4. CASE j <= A
    <3>1. j \in 1 .. A /\ A # 0 /\ B # 0 /\ u[j] = a[j] /\ a[j] \in Node
      BY <1>1, <1>2, <1>15, <1>17, <2>1, <2>4
    <3>2. t = a[A] /\ hb = b[1] /\ 1 \in 1 .. B /\ A \in 1 .. A
      BY <1>1, <1>2, <3>1
    <3>3. a[j] # hb /\ (a[j] = t <=> j = A)
      BY <1>14, <3>1, <3>2
    <3>4. nx[u[j]] = IF j = A THEN b[1] ELSE a[j + 1]
      BY <1>7, <1>13, <3>1, <3>2, <3>3
    <3>5. pv[u[j]] = IF j = 1 THEN ListNull ELSE a[j - 1]
      BY <1>7, <1>13, <3>1, <3>3
    <3>6. j # A + B /\ (j # A => j + 1 <= A) /\ (j = A => ~(j + 1 <= A) /\ (j + 1) - A = 1) /\ j - 1 <= A
      BY <1>1, <1>2, <2>1, <2>4, <3>1
    <3> QED
      BY <2>2, <2>3, <3>4, <3>5, <3>6
  <2>5. CASE ~(j <= A)
    <3> DEFINE i == j - A
    <3>1. /\ i \in 1 .. B /\ B # 0 /\ u[j] = b[i] /\ b[i] \in Node
          /\ j # A + B => (j + 1) - A = i + 1 /\ ~(j + 1 <= A)
          /\ j = A + B <=> i = B
      BY <1>1, <1>2, <1>15, <2>1, <2>5
    <3>2. hb = b[1] /\ 1 \in 1 .. B
      BY <1>1, <1>2, <3>1
    <3>3. (t = ListNull <=> A = 0) /\ (A # 0 => t = a[A] /\ A \in 1 .. A)
      BY <1>1, <1>3
    <3>4. j # 1 => IF i = 1 THEN j - 1 <= A /\ j - 1 = A /\ A # 0 ELSE ~(j - 1 <= A) /\ (j - 1) - A = i - 1
      BY <1>1, <2>1, <2>5
    <3>5. j = 1 => i = 1 /\ A = 0
      BY <1>1, <2>1, <2>5
    <3>6. i \in Int /\ j \in Int
      BY <1>1, <2>1
    <3> HIDE DEF i
    <3>7. b[i] # t /\ (b[i] = hb <=> i = 1)
      BY <1>3, <1>14, <3>1, <3>2, <3>3
    <3>8. nx[u[j]] = IF i = B THEN ListNull ELSE b[i + 1]
      BY <1>7, <1>13, <3>1, <3>7, ZenonT(40)
    <3>9. pv[u[j]] = IF i = 1 THEN (IF A = 0 THEN ListNull ELSE a[A]) ELSE b[i - 1]
      BY <1>7, <1>13, <3>1, <3>3, <3>7
    <3> QED
      BY <2>2, <2>3, <3>1, <3>4, <3>5, <3>8, <3>9
  <2> QED
    BY <2>4, <2>5
<1>19. Ends(m2, l, u)
  <2>1. /\ m2.head[l] = IF m.head[l] = ListNull THEN hb ELSE m.head[l]
        /\ m2.tail[l] = m.tail[k]
        /\ m2.count[l] = m.count[l] + m.count[k]
    BY <1>10, <1>12
  <2>2. CASE B = 0
    BY <1>1, <1>2, <1>15, <1>17, <2>1, <2>2 DEF Ends
  <2>3. CASE B # 0
    <3>1. u[A + B] = b[B] /\ Len(u) # 0 /\ Len(u) = A + B
      <4>1. A + B \in 1 .. A + B /\ ~(A + B <= A) /\ (A + B) - A = B /\ A + B # 0
        BY <1>1, <1>2, <2>3
      <4>2. u[A + B] = IF A + B <= A THEN a[A + B] ELSE b[(A + B) - A]
        BY <1>15, <4>1
      <4> QED
        BY <1>15, <4>1, <4>2
    <3>2. u[1] = IF A = 0 THEN b[1] ELSE a[1]
      <4>1. u[1] = IF 1 <= A THEN a[1] ELSE b[1 - A]
        BY <1>1, <1>2, <1>15, <2>3, SMTT(30)
      <4>2. IF A = 0 THEN ~(1 <= A) /\ 1 - A = 1 ELSE 1 <= A
        BY <1>1
      <4> QED
        BY <4>1, <4>2
    <3>3. m2.head[l] = u[1] /\ m2.tail[l] = u[A + B] /\ m2.count[l] = A + B
      BY <1>1, <1>2, <2>1, <2>3, <3>1, <3>2
    <3> QED
      BY <3>1, <3>3 DEF Ends
  <2> QED
    BY <2>2, <2>3
<1>20. Links(m2, << >>) /\ Ends(m2, k, << >>)
  <2>1. Len(<< >>) = 0 /\ 1 .. 0 = {}
    OBVIOUS
  <2>2. m2.head[k] = ListNull /\ m2.tail[k] = ListNull /\ m2.count[k] = 0
    BY <1>10, <1>12
  <2> QED
    BY <2>1, <2>2 DEF Links, Ends
<1>21. ASSUME NEW c \in List, c # l, c # k
       PROVE  Links(m2, q[c]) /\ Ends(m2, c, q[c])
  <2>1. \A j \in 1 .. Len(q[c]) : q[c][j] \in Node
    BY DEF Repr
  <2>2. ASSUME NEW j \in 1 .. Len(q[c])
        PROVE  q[c][j] # t /\ (t # ListNull => q[c][j] # hb)
    <3>1. (\A i \in 1 .. A : q[c][j] # a[i]) /\ (\A i \in 1 .. B : q[c][j] # b[i])
      BY <1>21 DEF Repr, Apart, a, b
    <3>2. t = ListNull \/ (t = a[A] /\ A \in 1 .. A /\ A # 0)
      BY <1>1
    <3>3. t # ListNull => hb = b[1] /\ 1 \in 1 .. B
      BY <1>1, <1>2, <1>17
    <3> QED
      BY <1>3, <2>1, <3>1, <3>2, <3>3
  <2>3. \A j \in 1 .. Len(q[c]) : nx[q[c][j]] = m.next[q[c][j]] /\ pv[q[c][j]] = m.prev[q[c][j]]
    BY <1>7, <2>1, <2>2
  <2>4. Links(m, q[c]) /\ Ends(m, c, q[c])
    BY DEF Repr
  <2>5. m2.head[c] = m.head[c] /\ m2.tail[c] = m.tail[c] /\ m2.count[c] = m.count[c]
    BY <1>10, <1>12, <1>21
  <2> QED
    BY <1>12, <2>3, <2>4, <2>5 DEF Links, Ends
<1>22. Apart(r)
  <2>1. ASSUME NEW c \in List, NEW j \in 1 .. Len(r[c])
        PROVE  /\ c # k
               /\ j \in Nat
               /\ c # l => j \in 1 .. Len(q[c]) /\ r[c][j] = q[c][j]
               /\ c = l /\ j <= A => j \in 1 .. Len(q[l]) /\ r[c][j] = q[l][j]
               /\ c = l /\ ~(j <= A) => j - A \in 1 .. Len(q[k]) /\ r[c][j] = q[k][j - A]
    <3> HIDE DEF r
    <3>1. c # k
      <4>1. 1 .. 0 = {} /\ Len(<< >>) = 0
        OBVIOUS
      <4> QED
        BY <1>16, <2>1, <4>1
    <3>2. CASE c # l
      <4>1. r[c] = q[c] /\ q[c] \in Seq(Node)
        BY <1>16, <3>1, <3>2 DEF Repr
      <4> QED
        BY <3>1, <3>2, <4>1
    <3>3. CASE c = l
      <4>1. j \in 1 .. A + B /\ r[c][j] = u[j]
        BY <1>15, <1>16, <3>3
      <4>2. r[c][j] = IF j <= A THEN a[j] ELSE b[j - A]
        BY <1>15, <4>1
      <4>3. j \in Nat /\ (j <= A => j \in 1 .. A) /\ (~(j <= A) => j - A \in 1 .. B)
        BY <1>1, <1>2, <4>1
      <4> QED
        BY <3>1, <3>3, <4>2, <4>3 DEF a, b
    <3> QED
      BY <3>2, <3>3
  <2> SUFFICES ASSUME NEW c \in List, NEW d \in List, NEW i \in 1 .. Len(r[c]), NEW j \in 1 .. Len(r[d]),
                      r[c][i] = r[d][j]
               PROVE  c = d /\ i = j
    BY DEF Apart
  <2> HIDE DEF r
  <2>2. Apart(q)
    BY DEF Repr
  <2>7. \E e \in List : \E f \in 1 .. Len(q[e]) :
          /\ r[c][i] = q[e][f]
          /\ \/ c # l /\ e = c /\ f = i
             \/ c = l /\ i <= A /\ e = l /\ f = i
             \/ c = l /\ ~(i <= A) /\ e = k /\ f = i - A
    BY <2>1
  <2>8. \E e \in List : \E f \in 1 .. Len(q[e]) :
          /\ r[d][j] = q[e][f]
          /\ \/ d # l /\ e = d /\ f = j
             \/ d = l /\ j <= A /\ e = l /\ f = j
             \/ d = l /\ ~(j <= A) /\ e = k /\ f = j - A
    BY <2>1
  <2>9. c # k /\ d # k /\ i \in Nat /\ j \in Nat
    BY <2>1
  <2>10. PICK e1 \in List : \E f \in 1 .. Len(q[e1]) :
          /\ r[c][i] = q[e1][f]
          /\ \/ c # l /\ e1 = c /\ f = i
             \/ c = l /\ i <= A /\ e1 = l /\ f = i
             \/ c = l /\ ~(i <= A) /\ e1 = k /\ f = i - A
    BY <2>7
  <2>11. PICK f1 \in 1 .. Len(q[e1]) :
          /\ r[c][i] = q[e1][f1]
          /\ \/ c # l /\ e1 = c /\ f1 = i
             \/ c = l /\ i <= A /\ e1 = l /\ f1 = i
             \/ c = l /\ ~(i <= A) /\ e1 = k /\ f1 = i - A
    BY <2>10
  <2>12. PICK e2 \in List : \E f \in 1 .. Len(q[e2]) :
          /\ r[d][j] = q[e2][f]
          /\ \/ d # l /\ e2 = d /\ f = j
             \/ d = l /\ j <= A /\ e2 = l /\ f = j
             \/ d = l /\ ~(j <= A) /\ e2 = k /\ f = j - A
    BY <2>8
  <2>13. PICK f2 \in 1 .. Len(q[e2]) :
          /\ r[d][j] = q[e2][f2]
          /\ \/ d # l /\ e2 = d /\ f2 = j
             \/ d = l /\ j <= A /\ e2 = l /\ f2 = j
             \/ d = l /\ ~(j <= A) /\ e2 = k /\ f2 = j - A
    BY <2>12
  <2>15. q[e1][f1] = q[e2][f2]
    BY <2>11, <2>13
  <2>14. e1 = e2 /\ f1 = f2
    BY <2>2, <2>15 DEF Apart
  <2> QED
    BY <1>1, <2>9, <2>11, <2>13, <2>14
<1>23. \A c \in List : Links(m2, r[c]) /\ Ends(m2, c, r[c])
  <2> HIDE DEF r
  <2> QED
    BY <1>16, <1>18, <1>19, <1>20, <1>21
<1> QED
  BY <1>11, <1>16, <1>22, <1>23 DEF Repr, m2, a, b

-----------------------------------------------------------------------------
(* Traversals.                                                             *)

LEMMA ReverseProperties ==
  ASSUME NEW S, NEW s \in Seq(S), Injective(s)
  PROVE  /\ Reverse(s) \in Seq(S) /\ Len(Reverse(s)) = Len(s)
         /\ \A i \in 1 .. Len(s) : Reverse(s)[i] = s[(Len(s) - i) + 1]
         /\ Injective(Reverse(s))
<1> DEFINE r == Reverse(s)
           N == Len(s)
<1>1. N \in Nat /\ DOMAIN s = 1 .. N /\ \A i \in 1 .. N : s[i] \in S
  OBVIOUS
<1>2. \A i \in 1 .. N : (N - i) + 1 \in 1 .. N
  BY <1>1
<1>3. r = [i \in 1 .. N |-> s[(N - i) + 1]]
  BY DEF Reverse
<1> HIDE DEF r
<1>4. r \in [1 .. N -> S]
  BY <1>1, <1>2, <1>3
<1>5. r \in Seq(S) /\ Len(r) = N /\ DOMAIN r = 1 .. N
  BY <1>1, <1>4
<1>6. \A i \in 1 .. N : r[i] = s[(N - i) + 1]
  BY <1>3
<1>7. \A i, j \in 1 .. N : r[i] = r[j] => i = j
  <2> SUFFICES ASSUME NEW i \in 1 .. N, NEW j \in 1 .. N, r[i] = r[j] PROVE i = j
    OBVIOUS
  <2>1. (N - i) + 1 = (N - j) + 1
    BY <1>1, <1>2, <1>6 DEF Injective
  <2> QED
    BY <1>1, <2>1
<1>8. Injective(r)
  BY <1>5, <1>7 DEF Injective
<1> QED
  BY <1>5, <1>6, <1>8 DEF r

(* A traversal visits one sequence of nodes.                               *)
LEMMA TraversesPrefix ==
  ASSUME NEW succ, NEW from, NEW s \in Seq(Node), NEW t \in Seq(Node),
         Traverses(s, succ, from), Traverses(t, succ, from)
  PROVE  /\ \A i \in 1 .. Len(s) : i <= Len(t) => s[i] = t[i]
         /\ Len(s) >= Len(t)
<1> DEFINE Bad == {i \in 1 .. Len(s) : i <= Len(t) /\ s[i] # t[i]}
<1>1. /\ Len(s) \in Nat /\ Len(t) \in Nat /\ DOMAIN s = 1 .. Len(s) /\ DOMAIN t = 1 .. Len(t)
      /\ s = << >> <=> Len(s) = 0
      /\ t = << >> <=> Len(t) = 0
      /\ \A i \in 1 .. Len(t) : t[i] \in Node
  BY EmptySeq
<1>2. /\ from = IF Len(s) = 0 THEN ListNull ELSE s[1]
      /\ from = IF Len(t) = 0 THEN ListNull ELSE t[1]
      /\ \A i \in 1 .. Len(s) : succ[s[i]] = IF i = Len(s) THEN ListNull ELSE s[i + 1]
      /\ \A i \in 1 .. Len(t) : succ[t[i]] = IF i = Len(t) THEN ListNull ELSE t[i + 1]
  BY <1>1 DEF Traverses
<1>3. ListNull \notin Node
  BY LinkedListAssumption
<1>7. Len(s) \in Nat /\ Len(t) \in Nat
  BY <1>1
<1>4. Bad = {}
  <2> SUFFICES ASSUME Bad # {} PROVE FALSE
    OBVIOUS
  <2>1. Bad \in SUBSET Nat
    BY <1>1
  <2>2. PICK i \in Bad : \A j \in Bad : i <= j
    <3> HIDE DEF Bad
    <3> QED
      BY <2>1, NatMin
  <2>3. i \in Nat /\ 1 <= i /\ i <= Len(s) /\ i <= Len(t) /\ s[i] # t[i]
    BY <1>1
  <2>4. i # 1
    <3>1. Len(s) # 0 /\ Len(t) # 0
      BY <1>7, <2>3
    <3> QED
      BY <1>2, <2>3, <3>1
  <2>5. i - 1 \notin Bad
    BY <2>2, <2>3
  <2>6. i - 1 \in 1 .. Len(s) /\ i - 1 \in 1 .. Len(t) /\ (i - 1) + 1 = i /\ i - 1 # Len(s) /\ i - 1 # Len(t)
    BY <1>1, <2>3, <2>4
  <2>7. s[i - 1] = t[i - 1]
    BY <2>5, <2>6
  <2>8. succ[s[i - 1]] = s[i] /\ succ[t[i - 1]] = t[i]
    BY <1>2, <2>6
  <2> QED
    BY <2>3, <2>7, <2>8
<1>5. \A i \in 1 .. Len(s) : i <= Len(t) => s[i] = t[i]
  BY <1>4
<1>6. ASSUME Len(s) < Len(t) PROVE FALSE
  <2>1. CASE Len(s) = 0
    <3>1. Len(t) # 0 /\ 1 \in 1 .. Len(t)
      BY <1>6, <1>7, <2>1
    <3> QED
      BY <1>1, <1>2, <1>3, <2>1, <3>1, ZenonT(40)
  <2>2. CASE Len(s) # 0
    <3> DEFINE N == Len(s)
    <3>1. N \in 1 .. N /\ N \in 1 .. Len(t) /\ N # Len(t) /\ N + 1 \in 1 .. Len(t) /\ N <= Len(t)
      BY <1>6, <1>7, <2>2
    <3>2. succ[s[N]] = ListNull /\ succ[t[N]] = t[N + 1] /\ s[N] = t[N]
      BY <1>2, <1>5, <3>1
    <3> QED
      BY <1>1, <1>3, <3>1, <3>2
  <2> QED
    BY <2>1, <2>2
<1> QED
  BY <1>5, <1>6, <1>7

LEMMA PathIs ==
  ASSUME NEW succ, NEW from, NEW s \in Seq(Node), Injective(s), Traverses(s, succ, from)
  PROVE  Path(succ, from) = s
<1> DEFINE P == UNION {[1 .. k -> Node] : k \in 0 .. Cardinality(Node)}
<1>1. Len(s) \in Nat /\ s \in [1 .. Len(s) -> Node] /\ DOMAIN s = 1 .. Len(s)
  OBVIOUS
<1>2. IsFiniteSet(Node) /\ Cardinality(Node) \in Nat
  BY LinkedListAssumption, FS_CardinalityType
<1>3. Len(s) <= Cardinality(Node)
  BY <1>2, InjectiveLen
<1>4. Len(s) \in 0 .. Cardinality(Node)
  BY <1>1, <1>2, <1>3
<1>5. s \in P
  BY <1>1, <1>4
<1>6. ASSUME NEW t \in P, Traverses(t, succ, from)
      PROVE  t = s
  <2>1. PICK k \in 0 .. Cardinality(Node) : t \in [1 .. k -> Node]
    OBVIOUS
  <2>2. t \in Seq(Node) /\ Len(t) = k
    BY <1>2, <2>1
  <2>3. /\ \A i \in 1 .. Len(s) : i <= Len(t) => s[i] = t[i]
        /\ Len(s) >= Len(t)
    BY <1>6, <2>2, TraversesPrefix
  <2>4. Len(t) >= Len(s)
    BY <1>6, <2>2, TraversesPrefix
  <2>5. Len(s) = Len(t)
    <3>1. Len(s) \in Nat /\ Len(t) \in Nat
      BY <2>2
    <3>2. Len(s) >= Len(t) /\ Len(t) >= Len(s)
      BY <2>3, <2>4
    <3> QED
      BY ONLY <3>1, <3>2
  <2>6. \A i \in 1 .. Len(s) : s[i] = t[i]
    BY <1>1, <2>3, <2>5
  <2> QED
    BY <2>2, <2>5, <2>6, SeqEqual
<1> HIDE DEF P
<1>7. Path(succ, from) = CHOOSE x \in P : Traverses(x, succ, from)
  BY DEF Path, P
<1> QED
  BY <1>5, <1>6, <1>7

LEMMA ReprPaths ==
  ASSUME NEW m, NEW q, Repr(m, q), NEW l \in List
  PROVE  /\ Traverses(q[l], m.next, m.head[l])
         /\ Traverses(Reverse(q[l]), m.prev, m.tail[l])
         /\ Path(m.next, m.head[l]) = q[l]
         /\ Path(m.prev, m.tail[l]) = Reverse(q[l])
<1> DEFINE s == q[l]
           r == Reverse(q[l])
           N == Len(q[l])
<1>1. /\ s \in Seq(Node) /\ N \in Nat /\ Injective(s) /\ DOMAIN s = 1 .. N
      /\ N = 0 => m.head[l] = ListNull /\ m.tail[l] = ListNull
      /\ N # 0 => m.head[l] = s[1] /\ m.tail[l] = s[N]
  BY ReprList
<1>2. /\ r \in Seq(Node) /\ Len(r) = N /\ Injective(r)
      /\ \A i \in 1 .. N : r[i] = s[(N - i) + 1]
  BY <1>1, ReverseProperties
<1>3. /\ \A j \in 1 .. N : m.next[s[j]] = IF j = N THEN ListNull ELSE s[j + 1]
      /\ \A j \in 1 .. N : m.prev[s[j]] = IF j = 1 THEN ListNull ELSE s[j - 1]
  BY DEF Repr, Links
<1>4. (s = << >> <=> N = 0) /\ (r = << >> <=> N = 0) /\ DOMAIN r = 1 .. N
  BY <1>1, <1>2, EmptySeq
<1>5. Traverses(s, m.next, m.head[l])
  BY <1>1, <1>3, <1>4 DEF Traverses
<1>6. Traverses(r, m.prev, m.tail[l])
  <2>1. N # 0 => r[1] = s[N]
    <3>1. N # 0 => 1 \in 1 .. N /\ (N - 1) + 1 = N
      BY <1>1
    <3> QED
      BY <1>2, <3>1
  <2>2. ASSUME NEW i \in 1 .. N
        PROVE  m.prev[r[i]] = IF i = N THEN ListNull ELSE r[i + 1]
    <3> DEFINE j == (N - i) + 1
    <3>1. j \in 1 .. N /\ (j = 1 <=> i = N) /\ (i # N => i + 1 \in 1 .. N /\ (N - (i + 1)) + 1 = j - 1)
      BY <1>1, SMTT(30)
    <3>2. r[i] = s[j]
      BY <1>2
    <3> HIDE DEF j
    <3>3. i # N => r[i + 1] = s[j - 1]
      BY <1>2, <3>1
    <3> QED
      BY <1>3, <3>1, <3>2, <3>3
  <2> HIDE DEF r, s
  <2> QED
    BY <1>1, <1>2, <1>4, <2>1, <2>2 DEF Traverses
<1> QED
  BY <1>1, <1>2, <1>5, <1>6, PathIs

(* mowgli_list_reverse swaps the pointers of the nodes it visits.          *)
LEMMA ReverseRepr ==
  ASSUME NEW m, NEW q, Repr(m, q), NEW l \in List
  PROVE  Repr(mowgli_list_reverse(m, l), [q EXCEPT ![l] = Reverse(q[l])])
<1> DEFINE s == q[l]
           t == Reverse(q[l])
           N == Len(q[l])
           r == [q EXCEPT ![l] = Reverse(q[l])]
           V == ToSet(q[l])
           m2 == mowgli_list_reverse(m, l)
           nx == [n \in Node |-> IF n \in V THEN m.prev[n] ELSE m.next[n]]
           pv == [n \in Node |-> IF n \in V THEN m.next[n] ELSE m.prev[n]]
           hd == [m.head EXCEPT ![l] = m.tail[l]]
           tl == [m.tail EXCEPT ![l] = m.head[l]]
<1>1. /\ m \in Mem /\ s \in Seq(Node) /\ N \in Nat /\ Injective(s) /\ DOMAIN s = 1 .. N
      /\ \A j \in 1 .. N : s[j] \in Node
      /\ N = 0 => m.head[l] = ListNull /\ m.tail[l] = ListNull
      /\ N # 0 => m.head[l] = s[1] /\ m.tail[l] = s[N]
      /\ m.count[l] = N
  BY ReprList
<1>2. /\ t \in Seq(Node) /\ Len(t) = N /\ Injective(t)
      /\ \A i \in 1 .. N : t[i] = s[(N - i) + 1]
  BY <1>1, ReverseProperties
<1>3. /\ \A j \in 1 .. N : m.next[s[j]] = IF j = N THEN ListNull ELSE s[j + 1]
      /\ \A j \in 1 .. N : m.prev[s[j]] = IF j = 1 THEN ListNull ELSE s[j - 1]
  BY DEF Repr, Links
<1>4. /\ m.head \in [List -> Node \cup {ListNull}] /\ m.tail \in [List -> Node \cup {ListNull}]
      /\ m.count \in [List -> Nat]
      /\ m.next \in [Node -> Node \cup {ListNull}] /\ m.prev \in [Node -> Node \cup {ListNull}]
      /\ m = [head |-> m.head, tail |-> m.tail, count |-> m.count, next |-> m.next, prev |-> m.prev]
  BY <1>1, MemFields
<1>5. m2 = [head |-> hd, tail |-> tl, count |-> m.count, next |-> nx, prev |-> pv]
  <2>1. Path(m.next, m.head[l]) = q[l]
    BY ReprPaths
  <2>2. m2 = [m EXCEPT !.next = nx, !.prev = pv, !.head[l] = m.tail[l], !.tail[l] = m.head[l]]
    BY <2>1 DEF mowgli_list_reverse
  <2> HIDE DEF m2, nx, pv
  <2> QED
    BY <1>4, <2>2
<1>6. /\ nx \in [Node -> Node \cup {ListNull}] /\ pv \in [Node -> Node \cup {ListNull}]
      /\ hd \in [List -> Node \cup {ListNull}] /\ tl \in [List -> Node \cup {ListNull}]
  BY <1>4
<1>7. /\ \A n \in Node : nx[n] = IF n \in V THEN m.prev[n] ELSE m.next[n]
      /\ \A n \in Node : pv[n] = IF n \in V THEN m.next[n] ELSE m.prev[n]
      /\ \A k \in List : hd[k] = IF k = l THEN m.tail[l] ELSE m.head[k]
      /\ \A k \in List : tl[k] = IF k = l THEN m.head[l] ELSE m.tail[k]
  BY <1>4
<1>8. /\ \A j \in 1 .. N : s[j] \in V
      /\ \A k \in List : k # l => \A j \in 1 .. Len(q[k]) : q[k][j] \notin V
  BY <1>1 DEF ToSet, Repr, Apart
<1>9. r \in [List -> Seq(Node)] /\ r[l] = t /\ \A k \in List : k # l => r[k] = q[k]
  <2>1. q \in [List -> Seq(Node)] /\ r = [q EXCEPT ![l] = t]
    BY DEF Repr
  <2> HIDE DEF r, t
  <2> QED
    BY <1>2, <2>1
<1> HIDE DEF m2, nx, pv, hd, tl, V, s, t
<1>10. m2 \in Mem
  BY <1>4, <1>5, <1>6 DEF Mem
<1>11. m2.next = nx /\ m2.prev = pv /\ m2.head = hd /\ m2.tail = tl /\ m2.count = m.count
  BY ONLY <1>5
<1>12. Links(m2, t)
  <2> SUFFICES ASSUME NEW i \in 1 .. N
               PROVE  /\ nx[t[i]] = IF i = N THEN ListNull ELSE t[i + 1]
                      /\ pv[t[i]] = IF i = 1 THEN ListNull ELSE t[i - 1]
    BY <1>2, <1>11 DEF Links
  <2> DEFINE j == (N - i) + 1
  <2>1. /\ j \in 1 .. N /\ (j = 1 <=> i = N) /\ (j = N <=> i = 1)
        /\ i # N => i + 1 \in 1 .. N /\ (N - (i + 1)) + 1 = j - 1
        /\ i # 1 => i - 1 \in 1 .. N /\ (N - (i - 1)) + 1 = j + 1
    BY <1>1
  <2>2. t[i] = s[j]
    BY <1>2
  <2> HIDE DEF j
  <2>3. (i # N => t[i + 1] = s[j - 1]) /\ (i # 1 => t[i - 1] = s[j + 1])
    BY <1>2, <2>1
  <2>4. s[j] \in Node /\ s[j] \in V
    BY <1>1, <1>8, <2>1
  <2> QED
    BY <1>3, <1>7, <2>1, <2>2, <2>3, <2>4
<1>13. Ends(m2, l, t)
  <2>1. N # 0 => t[1] = s[N] /\ t[N] = s[1]
    <3>1. N # 0 => 1 \in 1 .. N /\ N \in 1 .. N /\ (N - 1) + 1 = N /\ (N - N) + 1 = 1
      BY <1>1
    <3> QED
      BY <1>2, <3>1
  <2> QED
    BY <1>1, <1>2, <1>7, <1>11, <2>1 DEF Ends
<1>14. ASSUME NEW k \in List, k # l
       PROVE  Links(m2, q[k]) /\ Ends(m2, k, q[k])
  <2>1. \A j \in 1 .. Len(q[k]) : q[k][j] \in Node /\ q[k][j] \notin V
    BY <1>8, <1>14 DEF Repr
  <2>2. Links(m, q[k]) /\ Ends(m, k, q[k])
    BY DEF Repr
  <2> QED
    BY <1>7, <1>11, <1>14, <2>1, <2>2, ZenonT(60) DEF Links, Ends
<1>15. Apart(r)
  <2>1. ASSUME NEW i \in 1 .. N
        PROVE  \E f \in 1 .. Len(q[l]) : t[i] = q[l][f]
    <3>1. (N - i) + 1 \in 1 .. N
      BY <1>1
    <3> QED
      BY <1>2, <3>1 DEF s
  <2>2. Apart(q)
    BY DEF Repr
  <2>3. ASSUME NEW c \in List, c # l, NEW e \in 1 .. Len(q[c]), NEW d \in 1 .. N
        PROVE  t[d] # q[c][e]
    BY <2>1, <2>2, <2>3 DEF Apart
  <2> SUFFICES ASSUME NEW a \in List, NEW b \in List, NEW j \in 1 .. Len(r[a]), NEW k \in 1 .. Len(r[b]),
                      r[a][j] = r[b][k]
               PROVE  a = b /\ j = k
    BY DEF Apart
  <2> HIDE DEF r
  <2>4. CASE a # l /\ b # l
    BY <1>9, <2>2, <2>4, SMTT(30) DEF Apart
  <2>5. CASE a = l /\ b # l
    <3>1. j \in 1 .. N /\ k \in 1 .. Len(q[b]) /\ t[j] = q[b][k]
      BY <1>2, <1>9, <2>5
    <3> QED
      BY <2>3, <2>5, <3>1
  <2>6. CASE a # l /\ b = l
    BY <1>2, <1>9, <2>3, <2>6, SMTT(30)
  <2>7. CASE a = l /\ b = l
    <3>1. DOMAIN t = 1 .. N
      BY <1>2
    <3> QED
      BY <1>2, <1>9, <2>7, <3>1 DEF Injective
  <2> QED
    BY <2>4, <2>5, <2>6, <2>7
<1>16. \A k \in List : Links(m2, r[k]) /\ Ends(m2, k, r[k])
  <2> HIDE DEF r
  <2> QED
    BY <1>9, <1>12, <1>13, <1>14
<1> QED
  BY <1>9, <1>10, <1>15, <1>16 DEF Repr, m2

LEMMA Half ==
  ASSUME NEW n \in Nat
  PROVE  n \div 2 \in Nat /\ n \div 2 <= n
OBVIOUS

(* mowgli_node_nth finds the node at pos from either end.                  *)
LEMMA NthIs ==
  ASSUME NEW m, NEW q, Repr(m, q), NEW l \in List, NEW pos \in Nat
  PROVE  mowgli_node_nth(m, l, pos) = IF pos < Len(q[l]) THEN q[l][pos + 1] ELSE ListNull
<1> DEFINE s == q[l]
           t == Reverse(q[l])
           N == Len(q[l])
           H == N \div 2
<1>1. s \in Seq(Node) /\ N \in Nat /\ Injective(s) /\ DOMAIN s = 1 .. N /\ m.count[l] = N
  BY ReprList
<1>2. /\ DOMAIN t = 1 .. N
      /\ \A i \in 1 .. N : t[i] = s[(N - i) + 1]
  BY <1>1, ReverseProperties
<1>3. mowgli_node_nth(m, l, pos) = IF pos < H THEN At(s, pos + 1) ELSE At(t, N - pos)
  BY <1>1, ReprPaths DEF mowgli_node_nth
<1>7. N \in Nat /\ H \in Nat /\ H <= N
  BY <1>1, Half
<1> HIDE DEF s, t, H
<1>4. CASE pos < H
  <2>1. pos < N /\ pos + 1 \in 1 .. N
    BY <1>4, <1>7
  <2> QED
    BY <1>1, <1>3, <1>4, <2>1 DEF At, s
<1>5. CASE ~(pos < H) /\ pos < N
  <2>1. N - pos \in 1 .. N /\ (N - (N - pos)) + 1 = pos + 1
    BY <1>1, <1>5
  <2> QED
    BY <1>2, <1>3, <1>5, <2>1 DEF At, s
<1>6. CASE ~(pos < N)
  <2>1. N - pos \notin 1 .. N /\ ~(pos < H)
    BY <1>6, <1>7
  <2> QED
    BY <1>2, <1>3, <1>6, <2>1 DEF At
<1> QED
  BY <1>4, <1>5, <1>6

LEMMA AppendInserted ==
  ASSUME NEW s \in Seq(Node), NEW n \in Node
  PROVE  Inserted(Append(s, n), s, Len(s) + 1, n)
<1>1. /\ Append(s, n) \in Seq(Node) /\ Len(Append(s, n)) = Len(s) + 1 /\ Len(s) \in Nat
      /\ \A j \in 1 .. Len(s) : Append(s, n)[j] = s[j]
      /\ Append(s, n)[Len(s) + 1] = n
  OBVIOUS
<1> QED
  BY <1>1 DEF Inserted

LEMMA InsertAtInserted ==
  ASSUME NEW s \in Seq(Node), NEW n \in Node, NEW i \in 1 .. Len(s) + 1
  PROVE  Inserted(InsertAt(s, i, n), s, i, n)
BY InsertAtProperties DEF Inserted

-----------------------------------------------------------------------------
(* The calls.                                                              *)

LEMMA InsertStep ==
  ASSUME ListInv, NEW l \in List, NEW n \in Node, Unlinked(seq, n),
         \E i \in 1 .. Len(seq[l]) + 1 :
           /\ Inserted(seq'[l], seq[l], i, n)
           /\ InsertedAt(mem, mem', l, seq[l], i, n),
         mem' \in Mem,
         seq' = [seq EXCEPT ![l] = seq'[l]]
  PROVE  ListInv'
<1>1. PICK i \in 1 .. Len(seq[l]) + 1 :
        /\ Inserted(seq'[l], seq[l], i, n)
        /\ InsertedAt(mem, mem', l, seq[l], i, n)
  OBVIOUS
<1>2. Repr(mem, seq)
  BY DEF ListInv
<1>3. Repr(mem', [seq EXCEPT ![l] = seq'[l]])
  BY <1>1, <1>2, InsertRepr
<1> QED
  BY <1>3 DEF ListInv

LEMMA AddStep ==
  ASSUME ListInv, NEW l \in List, NEW n \in Node, Unlinked(seq, n), Add(n, l)
  PROVE  ListInv'
<1>1. mem' = mowgli_node_add(mem, n, l) /\ seq' = [seq EXCEPT ![l] = Append(seq[l], n)]
  BY DEF Add, Update
<1>2. Repr(mem, seq) /\ seq \in [List -> Seq(Node)]
  BY DEF ListInv, Repr
<1>3. seq'[l] = Append(seq[l], n) /\ seq' = [seq EXCEPT ![l] = seq'[l]]
  BY <1>1, <1>2
<1>4. mem' \in Mem /\ InsertedAt(mem, mem', l, seq[l], Len(seq[l]) + 1, n)
  BY <1>1, <1>2, AddInserts
<1>5. Inserted(seq'[l], seq[l], Len(seq[l]) + 1, n) /\ Len(seq[l]) + 1 \in 1 .. Len(seq[l]) + 1
  BY <1>2, <1>3, AppendInserted
<1> QED
  BY <1>3, <1>4, <1>5, InsertStep

LEMMA AddHeadStep ==
  ASSUME ListInv, NEW l \in List, NEW n \in Node, Unlinked(seq, n), AddHead(n, l)
  PROVE  ListInv'
<1>1. mem' = mowgli_node_add_head(mem, n, l) /\ seq' = [seq EXCEPT ![l] = <<n>> \o seq[l]]
  BY DEF AddHead, Update
<1>2. Repr(mem, seq) /\ seq \in [List -> Seq(Node)] /\ Len(seq[l]) \in Nat
  BY DEF ListInv, Repr
<1>3. seq'[l] = <<n>> \o seq[l] /\ seq' = [seq EXCEPT ![l] = seq'[l]]
  BY <1>1, <1>2
<1>4. mem' \in Mem /\ InsertedAt(mem, mem', l, seq[l], 1, n)
  BY <1>1, <1>2, AddHeadInserts
<1>5. Inserted(seq'[l], seq[l], 1, n) /\ 1 \in 1 .. Len(seq[l]) + 1
  BY <1>2, <1>3, ConsInserted
<1> QED
  BY <1>3, <1>4, <1>5, InsertStep

\* a node of the list and its place in it
LEMMA PlaceOf ==
  ASSUME ListInv, NEW l \in List, NEW x \in On(l)
  PROVE  \E i \in 1 .. Len(seq[l]) : x = seq[l][i] /\ IndexOf(seq[l], x) = i /\ x # ListNull
<1>1. Repr(mem, seq)
  BY DEF ListInv
<1>2. seq[l] \in Seq(Node) /\ Injective(seq[l]) /\ \A j \in 1 .. Len(seq[l]) : seq[l][j] \in Node
  BY <1>1, ReprList
<1>3. PICK i \in 1 .. Len(seq[l]) : x = seq[l][i]
  BY <1>2 DEF On, ToSet
<1>4. IndexOf(seq[l], seq[l][i]) = i
  BY <1>2, IndexOfInjective
<1> QED
  BY <1>2, <1>3, <1>4, LinkedListAssumption

LEMMA AddBeforeStep ==
  ASSUME ListInv, NEW l \in List, NEW n \in Node, Unlinked(seq, n),
         NEW x \in On(l) \cup {ListNull}, AddBefore(n, l, x)
  PROVE  ListInv'
<1>1. mem' = mowgli_node_add_before(mem, n, l, x) /\ seq' = [seq EXCEPT ![l] = Before(seq[l], n, x)]
  BY DEF AddBefore, Update
<1>2. Repr(mem, seq) /\ seq \in [List -> Seq(Node)] /\ seq[l] \in Seq(Node)
  BY DEF ListInv, Repr
<1>3. CASE x = ListNull
  <2>1. Add(n, l)
    BY <1>1, <1>3 DEF Add, Update, mowgli_node_add_before, Before
  <2> QED
    BY <2>1, AddStep
<1>4. CASE x # ListNull
  <2>1. PICK i \in 1 .. Len(seq[l]) : x = seq[l][i] /\ IndexOf(seq[l], x) = i
    BY <1>4, PlaceOf
  <2>2. seq'[l] = InsertAt(seq[l], i, n) /\ seq' = [seq EXCEPT ![l] = seq'[l]]
    BY <1>1, <1>2, <1>4, <2>1 DEF Before
  <2>3. mem' \in Mem /\ InsertedAt(mem, mem', l, seq[l], i, n)
    BY <1>1, <1>2, <2>1, AddBeforeInserts
  <2>4. i \in 1 .. Len(seq[l]) + 1
    BY <1>2
  <2>5. Inserted(seq'[l], seq[l], i, n)
    BY <1>2, <2>2, <2>4, InsertAtInserted
  <2> QED
    BY <2>2, <2>3, <2>4, <2>5, InsertStep
<1> QED
  BY <1>3, <1>4

LEMMA AddAfterStep ==
  ASSUME ListInv, NEW l \in List, NEW n \in Node, Unlinked(seq, n),
         NEW x \in On(l) \cup {ListNull}, AddAfter(n, l, x)
  PROVE  ListInv'
<1>1. mem' = mowgli_node_add_after(mem, n, l, x) /\ seq' = [seq EXCEPT ![l] = After(seq[l], n, x)]
  BY DEF AddAfter, Update
<1>2. Repr(mem, seq) /\ seq \in [List -> Seq(Node)] /\ seq[l] \in Seq(Node)
  BY DEF ListInv, Repr
<1>3. CASE x = ListNull
  <2>1. Add(n, l)
    BY <1>1, <1>3 DEF Add, Update, mowgli_node_add_after, After
  <2> QED
    BY <2>1, AddStep
<1>4. CASE x # ListNull
  <2>1. PICK i \in 1 .. Len(seq[l]) : x = seq[l][i] /\ IndexOf(seq[l], x) = i
    BY <1>4, PlaceOf
  <2>2. seq'[l] = InsertAt(seq[l], i + 1, n) /\ seq' = [seq EXCEPT ![l] = seq'[l]]
    BY <1>1, <1>2, <1>4, <2>1 DEF After
  <2>3. mem' \in Mem /\ InsertedAt(mem, mem', l, seq[l], i + 1, n)
    BY <1>1, <1>2, <2>1, AddAfterInserts
  <2>4. i + 1 \in 1 .. Len(seq[l]) + 1
    BY <1>2
  <2>5. Inserted(seq'[l], seq[l], i + 1, n)
    BY <1>2, <2>2, <2>4, InsertAtInserted
  <2> QED
    BY <2>2, <2>3, <2>4, <2>5, InsertStep
<1> QED
  BY <1>3, <1>4

LEMMA InsertPosStep ==
  ASSUME ListInv, NEW l \in List, NEW n \in Node, Unlinked(seq, n), NEW pos \in Nat, Insert(n, l, pos)
  PROVE  ListInv'
<1> DEFINE x == mowgli_node_nth(mem, l, pos)
<1>1. Repr(mem, seq) /\ seq \in [List -> Seq(Node)] /\ seq[l] \in Seq(Node) /\ Len(seq[l]) \in Nat
  BY DEF ListInv, Repr
<1>2. x = IF pos < Len(seq[l]) THEN seq[l][pos + 1] ELSE ListNull
  BY <1>1, NthIs
<1>3. /\ mem' = mowgli_node_add_before(mem, n, l, x)
      /\ seq' = [seq EXCEPT ![l] = IF pos < Len(seq[l]) THEN InsertAt(seq[l], pos + 1, n)
                                                       ELSE Append(seq[l], n)]
  BY DEF Insert, Update, mowgli_node_insert
<1> HIDE DEF x
<1>4. CASE ~(pos < Len(seq[l]))
  <2>1. Add(n, l)
    BY <1>2, <1>3, <1>4 DEF Add, Update, mowgli_node_add_before
  <2> QED
    BY <2>1, AddStep
<1>5. CASE pos < Len(seq[l])
  <2>1. pos + 1 \in 1 .. Len(seq[l]) /\ pos + 1 \in 1 .. Len(seq[l]) + 1
    BY <1>1, <1>5
  <2>2. seq'[l] = InsertAt(seq[l], pos + 1, n) /\ seq' = [seq EXCEPT ![l] = seq'[l]]
    BY <1>1, <1>3, <1>5
  <2>3. mem' \in Mem /\ InsertedAt(mem, mem', l, seq[l], pos + 1, n)
    BY <1>1, <1>2, <1>3, <1>5, <2>1, AddBeforeInserts
  <2>4. Inserted(seq'[l], seq[l], pos + 1, n)
    BY <1>1, <2>1, <2>2, InsertAtInserted
  <2> QED
    BY <2>1, <2>2, <2>3, <2>4, InsertStep
<1> QED
  BY <1>4, <1>5

LEMMA ListNextInv ==
  ASSUME ~ConcatEmpty, ListInv, ListNext
  PROVE  ListInv'
<1>1. Repr(mem, seq) /\ seq \in [List -> Seq(Node)]
  BY DEF ListInv, Repr
<1>2. ASSUME NEW n \in Node \ Linked, NEW l \in List,
             \/ Add(n, l)
             \/ AddHead(n, l)
             \/ \E x \in On(l) \cup {ListNull} : AddBefore(n, l, x) \/ AddAfter(n, l, x)
             \/ \E pos \in 0 .. Len(seq[l]) + 1 : Insert(n, l, pos)
      PROVE  ListInv'
  <2>1. Unlinked(seq, n)
    <3> SUFFICES ASSUME NEW k \in List, NEW j \in 1 .. Len(seq[k]) PROVE seq[k][j] # n
      BY DEF Unlinked
    <3>1. seq[k][j] \in On(k)
      BY <1>1 DEF On, ToSet
    <3> QED
      BY <3>1 DEF Linked
  <2>2. \A pos \in 0 .. Len(seq[l]) + 1 : pos \in Nat
    BY <1>1
  <2> QED
    BY <1>2, <2>1, <2>2, AddStep, AddHeadStep, AddBeforeStep, AddAfterStep, InsertPosStep
<1>3. ASSUME NEW l \in List, NEW n \in On(l), Delete(n, l)
      PROVE  ListInv'
  <2>1. mem' = Detach(mem, n, l) /\ seq' = [seq EXCEPT ![l] = Unlink(seq[l], n)]
    BY <1>3 DEF Delete, Update, mowgli_node_delete
  <2>2. Repr(Detach(mem, n, l), [seq EXCEPT ![l] = Unlink(seq[l], n)])
    BY <1>1, DeleteRepr DEF On
  <2> QED
    BY <2>1, <2>2 DEF ListInv
<1>4. ASSUME NEW o \in List, NEW n \in On(o), NEW l \in List, Move(n, o, l)
      PROVE  ListInv'
  <2> DEFINE r == [seq EXCEPT ![o] = Unlink(seq[o], n)]
  <2>1. mem' = mowgli_node_move(mem, n, o, l) /\ seq' = [r EXCEPT ![l] = <<n>> \o r[l]]
    BY <1>4 DEF Move
  <2>2. Repr(mowgli_node_move(mem, n, o, l), [r EXCEPT ![l] = <<n>> \o r[l]])
    BY <1>1, MoveRepr DEF On
  <2> HIDE DEF r
  <2> QED
    BY <2>1, <2>2 DEF ListInv
<1>5. ASSUME NEW l \in List, NEW k \in List, Concat(l, k)
      PROVE  ListInv'
  <2>1. /\ l # k
        /\ mem' = mowgli_list_concat(mem, l, k)
        /\ seq' = [seq EXCEPT ![l] = seq[l] \o seq[k], ![k] = << >>]
    BY <1>5 DEF Concat
  <2>2. Len(seq[k]) = 0 => Len(seq[l]) = 0
    <3>1. seq[k] = << >> => seq[l] = << >>
      BY <1>5 DEF Concat
    <3>2. seq[k] \in Seq(Node) /\ seq[l] \in Seq(Node)
      BY <1>1
    <3> QED
      BY <3>1, <3>2, EmptySeq
  <2>3. Repr(mowgli_list_concat(mem, l, k), [seq EXCEPT ![l] = seq[l] \o seq[k], ![k] = << >>])
    BY <1>1, <2>1, <2>2, ConcatRepr
  <2> QED
    BY <2>1, <2>3 DEF ListInv
<1>6. ASSUME NEW l \in List, ListReverse(l)
      PROVE  ListInv'
  <2>1. mem' = mowgli_list_reverse(mem, l) /\ seq' = [seq EXCEPT ![l] = Reverse(seq[l])]
    BY <1>6 DEF ListReverse, Update
  <2>2. Repr(mowgli_list_reverse(mem, l), [seq EXCEPT ![l] = Reverse(seq[l])])
    BY <1>1, ReverseRepr
  <2> QED
    BY <2>1, <2>2 DEF ListInv
<1> QED
  BY <1>2, <1>3, <1>4, <1>5, <1>6, Zenon DEF ListNext

LEMMA ListInitInv ==
  ASSUME ListInit
  PROVE  ListInv
<1>1. mem \in Mem
  BY DEF ListInit, Mem
<1>2. /\ << >> \in Seq(Node) /\ Len(<< >>) = 0 /\ 1 .. 0 = {}
  BY EmptySeq
<1>3. \A l \in List : seq[l] = << >> /\ mem.head[l] = ListNull /\ mem.tail[l] = ListNull /\ mem.count[l] = 0
  BY DEF ListInit
<1>4. seq \in [List -> Seq(Node)]
  BY <1>2 DEF ListInit
<1>5. Apart(seq)
  BY <1>2, <1>3 DEF Apart
<1>6. \A l \in List : Links(mem, seq[l]) /\ Ends(mem, l, seq[l])
  BY <1>2, <1>3 DEF Links, Ends
<1> QED
  BY <1>1, <1>4, <1>5, <1>6 DEF ListInv, Repr

LEMMA ListInvSeq == ListInv => RepresentsSeq
<1> SUFFICES ASSUME ListInv, NEW l \in List
             PROVE  /\ Traverses(seq[l], mem.next, mem.head[l])
                    /\ Traverses(Reverse(seq[l]), mem.prev, mem.tail[l])
                    /\ mem.count[l] = Len(seq[l])
  BY DEF RepresentsSeq
<1>1. Repr(mem, seq)
  BY DEF ListInv
<1> QED
  BY <1>1, ReprList, ReprPaths

(* container/list.c implements sequences.  As long as no empty list is     *)
(* appended to a list with nodes (mowgli_list_concat then loses the tail), *)
(* any mix of insertions, deletions, moves, concatenations and reversals,  *)
(* of any number of nodes on any number of lists, leaves every list with   *)
(* the nodes its callers expect, in order from both ends, and counted.     *)
THEOREM ListsAreSequences ==
  ASSUME ~ConcatEmpty
  PROVE  ListSpec => []RepresentsSeq
<1>1. ListInit => ListInv
  BY ListInitInv
<1>2. ListInv /\ [ListNext]_listVars => ListInv'
  <2>1. ASSUME ListInv, UNCHANGED listVars PROVE ListInv'
    BY <2>1 DEF ListInv, listVars
  <2> QED
    BY <2>1, ListNextInv
<1>3. ListInv => RepresentsSeq
  BY ListInvSeq
<1> QED
  BY <1>1, <1>2, <1>3, PTL DEF ListSpec

(* The comment in mowgli_node_move states its assumption on every node of  *)
(* a list: without a next it is the tail, without a prev the head.  The    *)
(* operations of list.c keep it, under the same condition on concat.       *)
THEOREM MoveAssumptionHolds ==
  ASSUME ~ConcatEmpty
  PROVE  ListSpec => []MoveAssumption
<1>1. ListInit => ListInv
  BY ListInitInv
<1>2. ListInv /\ [ListNext]_listVars => ListInv'
  <2>1. ASSUME ListInv, UNCHANGED listVars PROVE ListInv'
    BY <2>1 DEF ListInv, listVars
  <2> QED
    BY <2>1, ListNextInv
<1>3. ListInv => MoveAssumption
  <2> SUFFICES ASSUME ListInv, NEW l \in List, NEW n \in On(l)
               PROVE  /\ mem.next[n] = ListNull => mem.tail[l] = n
                      /\ mem.prev[n] = ListNull => mem.head[l] = n
    BY DEF MoveAssumption
  <2>1. Repr(mem, seq)
    BY DEF ListInv
  <2>2. PICK i \in 1 .. Len(seq[l]) : n = seq[l][i]
    BY PlaceOf
  <2>3. /\ seq[l] \in Seq(Node) /\ Len(seq[l]) \in Nat
        /\ \A j \in 1 .. Len(seq[l]) : seq[l][j] \in Node
        /\ Len(seq[l]) # 0 => mem.head[l] = seq[l][1] /\ mem.tail[l] = seq[l][Len(seq[l])]
    BY <2>1, ReprList
  <2>4. /\ mem.next[n] = IF i = Len(seq[l]) THEN ListNull ELSE seq[l][i + 1]
        /\ mem.prev[n] = IF i = 1 THEN ListNull ELSE seq[l][i - 1]
    BY <2>1, <2>2 DEF Repr, Links
  <2>5. /\ i # Len(seq[l]) => i + 1 \in 1 .. Len(seq[l])
        /\ i # 1 => i - 1 \in 1 .. Len(seq[l])
        /\ Len(seq[l]) # 0
    BY <2>3
  <2>6. (i # Len(seq[l]) => mem.next[n] # ListNull) /\ (i # 1 => mem.prev[n] # ListNull)
    BY <2>3, <2>4, <2>5, LinkedListAssumption
  <2> QED
    BY <2>2, <2>3, <2>5, <2>6
<1> QED
  BY <1>1, <1>2, <1>3, PTL DEF ListSpec

-----------------------------------------------------------------------------
(* Order.                                                                  *)

LEMMA PrecedesTransitive ==
  ASSUME NEW S, NEW s \in Seq(S), Injective(s), NEW x, NEW y, NEW z,
         Precedes(s, x, y), Precedes(s, y, z)
  PROVE  Precedes(s, x, z)
<1>1. DOMAIN s \subseteq Int
  OBVIOUS
<1>2. PICK i, j \in DOMAIN s : i < j /\ s[i] = x /\ s[j] = y
  BY DEF Precedes
<1>3. PICK k, h \in DOMAIN s : k < h /\ s[k] = y /\ s[h] = z
  BY DEF Precedes
<1>4. j = k
  BY <1>2, <1>3 DEF Injective
<1>5. i < h
  BY <1>1, <1>2, <1>3, <1>4
<1> QED
  BY <1>2, <1>3, <1>5 DEF Precedes

\* the elements before the ith
LEMMA PrecedesPlace ==
  ASSUME NEW S, NEW s \in Seq(S), Injective(s), NEW i \in 1 .. Len(s)
  PROVE  \A x : Precedes(s, x, s[i]) <=> \E k \in 1 .. Len(s) : k < i /\ s[k] = x
<1>1. DOMAIN s = 1 .. Len(s)
  OBVIOUS
<1> QED
  BY <1>1 DEF Precedes, Injective

LEMMA UnlinkKeepsOrder ==
  ASSUME NEW S, NEW s \in Seq(S), Injective(s), NEW b \in ToSet(s)
  PROVE  LET u == Unlink(s, b)
         IN  /\ u \in Seq(S) /\ Injective(u) /\ ToSet(u) = ToSet(s) \ {b}
             /\ \A x, y : Precedes(u, x, y) <=> x # b /\ y # b /\ Precedes(s, x, y)
<1> DEFINE u == Unlink(s, b)
<1>1. u \in Seq(S) /\ ToSet(u) = ToSet(s) \ {b} /\ Injective(u)
  BY UnlinkSet DEF Injective
<1>2. ASSUME NEW x, NEW y, x # b, y # b, Precedes(s, x, y) PROVE Precedes(u, x, y)
  BY <1>2, UnlinkPrecedes
<1> HIDE DEF u
<1>3. ASSUME NEW x, NEW y, Precedes(u, x, y) PROVE x # b /\ y # b /\ Precedes(s, x, y)
  <2>1. x \in ToSet(u) /\ y \in ToSet(u) /\ ~Precedes(u, y, x) /\ x # y
    BY <1>1, <1>3, PrecedesOrder
  <2>2. x \in ToSet(s) /\ y \in ToSet(s) /\ x # b /\ y # b
    BY <1>1, <2>1
  <2>3. Precedes(s, x, y) \/ Precedes(s, y, x)
    BY <2>1, <2>2, PrecedesOrder
  <2> QED
    BY <1>2, <2>1, <2>2, <2>3
<1> QED
  BY <1>1, <1>2, <1>3 DEF u

LEMMA InsertedOrder ==
  ASSUME NEW s \in Seq(Node), Injective(s), NEW n \in Node, n \notin ToSet(s),
         NEW i \in 1 .. Len(s) + 1, NEW t, Inserted(t, s, i, n)
  PROVE  /\ t \in Seq(Node) /\ Injective(t) /\ ToSet(t) = ToSet(s) \cup {n}
         /\ \A x, y : x # n /\ y # n => (Precedes(t, x, y) <=> Precedes(s, x, y))
         /\ \A x : Precedes(t, x, n) <=> \E k \in 1 .. Len(s) : k < i /\ s[k] = x
<1> DEFINE N == Len(s)
           K(j) == IF j < i THEN j ELSE j + 1
<1>1. /\ N \in Nat /\ i \in Nat /\ 1 <= i /\ i <= N + 1 /\ DOMAIN s = 1 .. N
      /\ t \in Seq(Node) /\ DOMAIN t = 1 .. N + 1
      /\ \A j \in 1 .. N + 1 : t[j] = IF j < i THEN s[j] ELSE IF j = i THEN n ELSE s[j - 1]
  BY DEF Inserted
<1>2. \A j \in 1 .. N : s[j] # n
  BY <1>1 DEF ToSet
<1>3. \A j \in 1 .. N : K(j) \in 1 .. N + 1 /\ K(j) # i /\ (K(j) < i <=> j < i)
                        /\ (~(K(j) < i) => K(j) - 1 = j)
                        /\ (K(j) < i => K(j) = j)
  BY <1>1
<1>4. \A j, k \in 1 .. N : (j < k <=> K(j) < K(k)) /\ (K(j) = K(k) => j = k)
  BY <1>1
<1>5. \A h \in 1 .. N + 1 : h # i => \E j \in 1 .. N : K(j) = h
  <2> SUFFICES ASSUME NEW h \in 1 .. N + 1, h # i PROVE \E j \in 1 .. N : K(j) = h
    OBVIOUS
  <2>1. CASE h < i
    <3>1. h \in 1 .. N /\ K(h) = h
      BY <1>1, <2>1
    <3> QED
      BY <3>1
  <2>2. CASE h > i
    <3>1. h - 1 \in 1 .. N /\ K(h - 1) = h
      BY <1>1, <2>2
    <3> QED
      BY <3>1
  <2> QED
    BY <1>1, <2>1, <2>2
<1> HIDE DEF K
<1>6. \A j \in 1 .. N : t[K(j)] = s[j]
  BY <1>1, <1>3
<1>7. t[i] = n /\ i \in 1 .. N + 1
  BY <1>1
<1>8. \A h \in 1 .. N + 1 : h # i => t[h] # n
  BY <1>2, <1>5, <1>6
<1> HIDE DEF N
<1>9. Injective(t)
  <2> SUFFICES ASSUME NEW h \in 1 .. N + 1, NEW g \in 1 .. N + 1, t[h] = t[g] PROVE h = g
    BY <1>1 DEF Injective
  <2>1. CASE h = i \/ g = i
    BY <1>7, <1>8, <2>1
  <2>2. CASE h # i /\ g # i
    <3>1. PICK j \in 1 .. N : K(j) = h
      BY <1>5, <2>2
    <3>2. PICK k \in 1 .. N : K(k) = g
      BY <1>5, <2>2
    <3>3. s[j] = s[k]
      BY <1>6, <3>1, <3>2
    <3> QED
      BY <1>1, <3>1, <3>2, <3>3 DEF Injective
  <2> QED
    BY <2>1, <2>2
<1>10. ToSet(t) = ToSet(s) \cup {n}
  <2>1. ASSUME NEW x \in ToSet(t) PROVE x \in ToSet(s) \cup {n}
    <3>1. PICK h \in 1 .. N + 1 : t[h] = x
      BY <1>1 DEF ToSet
    <3>2. CASE h = i
      BY <1>7, <3>1, <3>2
    <3>3. CASE h # i
      <4>1. PICK j \in 1 .. N : K(j) = h
        BY <1>5, <3>3
      <4>2. s[j] = x
        BY <1>6, <3>1, <4>1
      <4> QED
        BY <1>1, <4>2 DEF ToSet
    <3> QED
      BY <3>2, <3>3
  <2>2. ASSUME NEW x \in ToSet(s) PROVE x \in ToSet(t)
    <3>1. PICK j \in 1 .. N : s[j] = x
      BY <1>1 DEF ToSet
    <3>2. K(j) \in 1 .. N + 1 /\ t[K(j)] = x
      BY <1>3, <1>6, <3>1
    <3> QED
      BY <1>1, <3>2 DEF ToSet
  <2>3. n \in ToSet(t)
    BY <1>1, <1>7 DEF ToSet
  <2> QED
    BY <2>1, <2>2, <2>3
<1>11. ASSUME NEW x, NEW y, x # n, y # n
       PROVE  Precedes(t, x, y) <=> Precedes(s, x, y)
  <2>1. ASSUME Precedes(t, x, y) PROVE Precedes(s, x, y)
    <3>1. PICK h, g \in 1 .. N + 1 : h < g /\ t[h] = x /\ t[g] = y
      BY <1>1, <2>1 DEF Precedes
    <3>2. h # i /\ g # i
      BY <1>7, <1>11, <3>1
    <3>3. PICK j \in 1 .. N : K(j) = h
      BY <1>5, <3>2
    <3>4. PICK k \in 1 .. N : K(k) = g
      BY <1>5, <3>2
    <3>5. s[j] = x /\ s[k] = y /\ j < k
      BY <1>4, <1>6, <3>1, <3>3, <3>4
    <3> QED
      BY <1>1, <3>5 DEF Precedes
  <2>2. ASSUME Precedes(s, x, y) PROVE Precedes(t, x, y)
    <3>1. PICK j, k \in 1 .. N : j < k /\ s[j] = x /\ s[k] = y
      BY <1>1, <2>2 DEF Precedes
    <3>2. K(j) < K(k) /\ t[K(j)] = x /\ t[K(k)] = y /\ K(j) \in 1 .. N + 1 /\ K(k) \in 1 .. N + 1
      BY <1>3, <1>4, <1>6, <3>1
    <3> QED
      BY <1>1, <3>2 DEF Precedes
  <2> QED
    BY <2>1, <2>2
<1>12. ASSUME NEW x
       PROVE  Precedes(t, x, n) <=> \E k \in 1 .. N : k < i /\ s[k] = x
  <2>1. Precedes(t, x, n) <=> \E h \in 1 .. N + 1 : h < i /\ t[h] = x
    BY <1>1, <1>7, <1>8 DEF Precedes
  <2>2. ASSUME NEW h \in 1 .. N + 1, h < i PROVE h \in 1 .. N /\ t[h] = s[h]
    BY <1>1, <2>2
  <2>3. ASSUME NEW k \in 1 .. N, k < i PROVE k \in 1 .. N + 1 /\ t[k] = s[k]
    BY <1>1, <2>3
  <2> QED
    BY <2>1, <2>2, <2>3
<1> QED
  BY <1>1, <1>9, <1>10, <1>11, <1>12 DEF N

-----------------------------------------------------------------------------
(* A turn of the inner loop.                                               *)

\* u is s with n moved to the side of p it belongs on
Placed(s, u, n, p) ==
  /\ u \in Seq(Node) /\ Injective(u) /\ ToSet(u) = ToSet(s) /\ Len(u) = Len(s)
  /\ \A x, y : x # n /\ y # n => (Precedes(u, x, y) <=> Precedes(s, x, y))
  /\ IF n # p /\ Key(n) < Key(p) /\ Precedes(s, p, n)
     THEN \A x : x # n => (Precedes(u, x, n) <=> Precedes(s, x, p))
     ELSE IF n # p /\ Key(n) > Key(p) /\ Precedes(s, n, p)
          THEN \A x : x # n => (Precedes(u, x, n) <=> x = p \/ Precedes(s, x, p))
          ELSE u = s

NextTo(j, i) == j = i \/ j = i + 1

\* n, taken from s and put in front of the ith node of the rest, or behind it
LEMMA MovedOrder ==
  ASSUME NEW s \in Seq(Node), Injective(s), NEW n \in ToSet(s), NEW p \in ToSet(s), n # p,
         NEW i \in 1 .. Len(Unlink(s, n)), Unlink(s, n)[i] = p,
         NEW j, NextTo(j, i), NEW u, Inserted(u, Unlink(s, n), j, n)
  PROVE  /\ u \in Seq(Node) /\ Injective(u) /\ ToSet(u) = ToSet(s) /\ Len(u) = Len(s)
         /\ \A x, y : x # n /\ y # n => (Precedes(u, x, y) <=> Precedes(s, x, y))
         /\ j = i => \A x : x # n => (Precedes(u, x, n) <=> Precedes(s, x, p))
         /\ j # i => \A x : x # n => (Precedes(u, x, n) <=> x = p \/ Precedes(s, x, p))
<1> DEFINE r == Unlink(s, n)
<1>1. /\ r \in Seq(Node) /\ Injective(r) /\ ToSet(r) = ToSet(s) \ {n}
      /\ \A x, y : Precedes(r, x, y) <=> x # n /\ y # n /\ Precedes(s, x, y)
  BY UnlinkKeepsOrder
<1>2. n \in Node /\ n \notin ToSet(r) /\ (ToSet(s) \ {n}) \cup {n} = ToSet(s)
  <2>1. n \in Node
    BY DEF ToSet
  <2> HIDE DEF r
  <2> QED
    BY <1>1, <2>1
<1>3. Len(r) = Len(s) - 1 /\ Len(s) \in Nat
  <2>1. Len(r) = Len(s) - 1
    <3>1. \A j1, j2 \in DOMAIN s : s[j1] = s[j2] => j1 = j2
      BY DEF Injective
    <3>2. s \in Seq(Node) /\ n \in ToSet(s)
      OBVIOUS
    <3>3. Len(Unlink(s, n)) = Len(s) - 1
      BY ONLY <3>1, <3>2, UnlinkProperties
    <3> QED
      BY <3>3 DEF r
  <2> QED
    BY <2>1
<1>4. i \in 1 .. Len(r) /\ r[i] = p
  OBVIOUS
<1> HIDE DEF r
<1>5. \A x : Precedes(r, x, p) <=> \E k \in 1 .. Len(r) : k < i /\ r[k] = x
  <2>1. r \in Seq(Node) /\ Injective(r)
    BY <1>1
  <2> QED
    BY ONLY <1>4, <2>1, PrecedesPlace
<1>6. /\ Len(r) \in Nat /\ i \in Nat /\ j \in 1 .. Len(r) + 1 /\ (j # i => j = i + 1)
      /\ Inserted(u, r, j, n)
  BY <1>1, <1>4 DEF r, NextTo
<1>7. /\ u \in Seq(Node) /\ Injective(u) /\ ToSet(u) = ToSet(s) /\ Len(u) = Len(s)
      /\ \A x, y : x # n /\ y # n => (Precedes(u, x, y) <=> Precedes(s, x, y))
      /\ \A x : Precedes(u, x, n) <=> \E k \in 1 .. Len(r) : k < j /\ r[k] = x
  <2>1. /\ u \in Seq(Node) /\ Injective(u) /\ ToSet(u) = ToSet(r) \cup {n}
        /\ \A x, y : x # n /\ y # n => (Precedes(u, x, y) <=> Precedes(r, x, y))
        /\ \A x : Precedes(u, x, n) <=> \E k \in 1 .. Len(r) : k < j /\ r[k] = x
    BY <1>1, <1>2, <1>6, InsertedOrder
  <2>2. Len(u) = Len(s)
    BY <1>3, <1>6 DEF Inserted
  <2> QED
    BY <1>1, <1>2, <2>1, <2>2
<1>8. \A x : x # n => (Precedes(r, x, p) <=> Precedes(s, x, p))
  BY <1>1
<1>9. CASE j = i
  <2>1. \A x : x # n => (Precedes(u, x, n) <=> Precedes(s, x, p))
    BY <1>5, <1>7, <1>8, <1>9
  <2> QED
    BY <1>7, <1>9, <2>1
<1>10. CASE j # i
  <2>1. \A k \in 1 .. Len(r) : k < j <=> k = i \/ k < i
    BY <1>6, <1>10
  <2>2. \A x : (\E k \in 1 .. Len(r) : k < j /\ r[k] = x) <=> (x = p \/ Precedes(r, x, p))
    BY <1>4, <1>5, <2>1
  <2>3. \A x : x # n => (Precedes(u, x, n) <=> x = p \/ Precedes(s, x, p))
    BY <1>7, <1>8, <2>2
  <2> QED
    BY <1>7, <1>10, <2>3
<1> QED
  BY <1>9, <1>10

LEMMA PlaceRepr ==
  ASSUME NEW m, NEW q, Repr(m, q), NEW l \in List, NEW n \in ToSet(q[l]), NEW p \in ToSet(q[l])
  PROVE  \E u : Repr(Place(m, l, n, p), [q EXCEPT ![l] = u]) /\ Placed(q[l], u, n, p)
<1> DEFINE s == q[l]
           r == [q EXCEPT ![l] = Unlink(s, n)]
           d == Detach(m, n, l)
<1>1. s \in Seq(Node) /\ Injective(s) /\ q \in [List -> Seq(Node)] /\ Path(m.next, m.head[l]) = s
  BY ReprList, ReprPaths DEF Repr
<1>2. n \in Node /\ p \in Node /\ Repr(d, r) /\ Unlinked(r, n)
  BY DeleteRepr, ReprList DEF ToSet
<1>3. \A x, y \in ToSet(s) : Precedes(s, x, y) <=> Index(m, x, l) < Index(m, y, l)
  <2> SUFFICES ASSUME NEW x \in ToSet(s), NEW y \in ToSet(s)
               PROVE  Precedes(s, x, y) <=> Index(m, x, l) < Index(m, y, l)
    OBVIOUS
  <2>1. PICK i \in 1 .. Len(s) : s[i] = x
    BY <1>1 DEF ToSet
  <2>2. PICK j \in 1 .. Len(s) : s[j] = y
    BY <1>1 DEF ToSet
  <2>3. IndexOf(s, s[i]) = i /\ IndexOf(s, s[j]) = j
    BY <1>1, IndexOfInjective
  <2>4. Index(m, x, l) = i /\ Index(m, y, l) = j
    BY <1>1, <2>1, <2>2, <2>3 DEF Index
  <2>5. Precedes(s, x, y) <=> i < j
    BY <1>1, <2>1, <2>2 DEF Precedes, Injective
  <2> QED
    BY <2>4, <2>5
<1>4. r[l] = Unlink(s, n) /\ \A u : [r EXCEPT ![l] = u] = [q EXCEPT ![l] = u]
  BY <1>1
<1>5. n # p => \E i \in 1 .. Len(r[l]) : r[l][i] = p
  <2>1. Unlink(s, n) \in Seq(Node) /\ ToSet(Unlink(s, n)) = ToSet(s) \ {n}
    BY <1>1, UnlinkKeepsOrder
  <2> DEFINE z == Unlink(s, n)
  <2>2. z \in Seq(Node) /\ ToSet(z) = ToSet(s) \ {n} /\ r[l] = z
    BY <1>4, <2>1
  <2> HIDE DEF z, r, s
  <2>3. DOMAIN z = 1 .. Len(z)
    BY <2>2
  <2>4. n # p => p \in ToSet(z)
    BY <2>2 DEF s
  <2> QED
    BY <2>2, <2>3, <2>4 DEF ToSet
<1> HIDE DEF d, r
<1>6. CASE n # p /\ Key(n) < Key(p) /\ Precedes(s, p, n)
  <2>1. PICK i \in 1 .. Len(r[l]) : r[l][i] = p
    BY <1>5, <1>6
  <2>2. Place(m, l, n, p) = mowgli_node_add_before(d, n, l, r[l][i])
    <3>1. Index(m, n, l) > Index(m, p, l)
      <4>1. Index(m, p, l) < Index(m, n, l)
        BY <1>3, <1>6
      <4> QED
        BY <4>1
    <3> QED
      BY <1>6, <2>1, <3>1 DEF Place, mowgli_node_delete, d
  <2>3. PICK m2 : m2 = mowgli_node_add_before(d, n, l, r[l][i])
    OBVIOUS
  <2>4. m2 \in Mem /\ InsertedAt(d, m2, l, r[l], i, n)
    BY <1>2, <2>3, AddBeforeInserts
  <2>5. r[l] \in Seq(Node) /\ i \in 1 .. Len(r[l]) + 1
    BY <1>2, ReprList
  <2>6. PICK u : u = InsertAt(r[l], i, n)
    OBVIOUS
  <2>7. Inserted(u, r[l], i, n)
    BY <1>2, <2>5, <2>6, InsertAtInserted
  <2>8. Repr(m2, [r EXCEPT ![l] = u])
    BY <1>2, <2>4, <2>5, <2>7, InsertRepr
  <2>9. Placed(s, u, n, p)
    <3>1. /\ u \in Seq(Node) /\ Injective(u) /\ ToSet(u) = ToSet(s) /\ Len(u) = Len(s)
          /\ \A x, y : x # n /\ y # n => (Precedes(u, x, y) <=> Precedes(s, x, y))
          /\ \A x : x # n => (Precedes(u, x, n) <=> Precedes(s, x, p))
      <4>1. PICK j : j = i
        OBVIOUS
      <4>2. /\ s \in Seq(Node) /\ Injective(s) /\ n \in ToSet(s) /\ p \in ToSet(s) /\ n # p
            /\ i \in 1 .. Len(Unlink(s, n)) /\ Unlink(s, n)[i] = p
            /\ NextTo(j, i) /\ Inserted(u, Unlink(s, n), j, n)
        BY <1>1, <1>4, <1>6, <2>1, <2>7, <4>1 DEF NextTo
      <4>3. j = i
        BY <4>1
      <4> HIDE DEF s
      <4> QED
        BY ONLY <4>2, <4>3, MovedOrder
    <3> QED
      BY <1>6, <3>1 DEF Placed
  <2> QED
    BY <1>4, <2>2, <2>3, <2>8, <2>9
<1>7. CASE ~(n # p /\ Key(n) < Key(p) /\ Precedes(s, p, n))
           /\ n # p /\ Key(n) > Key(p) /\ Precedes(s, n, p)
  <2>1. PICK i \in 1 .. Len(r[l]) : r[l][i] = p
    BY <1>5, <1>7
  <2>2. Place(m, l, n, p) = mowgli_node_add_after(d, n, l, r[l][i])
    <3>1. Index(m, n, l) < Index(m, p, l)
      BY <1>3, <1>7
    <3>2. ~(Key(n) < Key(p) /\ Index(m, n, l) > Index(m, p, l))
      <4>1. ~(Index(m, p, l) < Index(m, n, l)) \/ ~(Key(n) < Key(p))
        BY <1>3, <1>7
      <4> QED
        BY <4>1
    <3> QED
      BY <1>7, <2>1, <3>1, <3>2 DEF Place, mowgli_node_delete, d
  <2>3. PICK m2 : m2 = mowgli_node_add_after(d, n, l, r[l][i])
    OBVIOUS
  <2>4. m2 \in Mem /\ InsertedAt(d, m2, l, r[l], i + 1, n)
    BY <1>2, <2>3, AddAfterInserts
  <2>5. r[l] \in Seq(Node) /\ i + 1 \in 1 .. Len(r[l]) + 1
    BY <1>2, ReprList
  <2>6. PICK u : u = InsertAt(r[l], i + 1, n)
    OBVIOUS
  <2>7. Inserted(u, r[l], i + 1, n)
    BY <1>2, <2>5, <2>6, InsertAtInserted
  <2>8. Repr(m2, [r EXCEPT ![l] = u])
    BY <1>2, <2>4, <2>5, <2>7, InsertRepr
  <2>9. Placed(s, u, n, p)
    <3>1. /\ u \in Seq(Node) /\ Injective(u) /\ ToSet(u) = ToSet(s) /\ Len(u) = Len(s)
          /\ \A x, y : x # n /\ y # n => (Precedes(u, x, y) <=> Precedes(s, x, y))
          /\ \A x : x # n => (Precedes(u, x, n) <=> x = p \/ Precedes(s, x, p))
      <4>1. PICK j : j = i + 1
        OBVIOUS
      <4>2. /\ s \in Seq(Node) /\ Injective(s) /\ n \in ToSet(s) /\ p \in ToSet(s) /\ n # p
            /\ i \in 1 .. Len(Unlink(s, n)) /\ Unlink(s, n)[i] = p
            /\ NextTo(j, i) /\ Inserted(u, Unlink(s, n), j, n)
        BY <1>1, <1>4, <1>7, <2>1, <2>7, <4>1 DEF NextTo
      <4>3. j # i
        BY <4>1
      <4> HIDE DEF s
      <4> QED
        BY ONLY <4>2, <4>3, MovedOrder
    <3> QED
      BY <1>7, <3>1 DEF Placed
  <2> QED
    BY <1>4, <2>2, <2>3, <2>8, <2>9
<1>8. CASE /\ ~(n # p /\ Key(n) < Key(p) /\ Precedes(s, p, n))
           /\ ~(n # p /\ Key(n) > Key(p) /\ Precedes(s, n, p))
  <2>1. Place(m, l, n, p) = m
    <3>1. n # p /\ Key(n) < Key(p) => ~(Index(m, n, l) > Index(m, p, l))
      <4>1. n # p /\ Key(n) < Key(p) => ~(Index(m, p, l) < Index(m, n, l))
        BY <1>3, <1>8
      <4> QED
        BY <4>1
    <3>2. n # p /\ Key(n) > Key(p) => ~(Index(m, n, l) < Index(m, p, l))
      BY <1>3, <1>8
    <3> QED
      BY <3>1, <3>2 DEF Place
  <2>2. [q EXCEPT ![l] = s] = q
    BY <1>1
  <2>3. Placed(s, s, n, p)
    <3> HIDE DEF s
    <3> QED
      BY <1>1, <1>8 DEF Placed
  <2> QED
    BY <2>1, <2>2, <2>3
<1> QED
  BY <1>6, <1>7, <1>8

-----------------------------------------------------------------------------
(* How far a traversal has come.                                           *)

\* the nodes of s that a traversal has visited when it is at p
Passed(s, p) == IF p = ListNull THEN ToSet(s) ELSE {x \in ToSet(s) : Precedes(s, x, p)}

\* the nodes with smaller keys than x's are in front of it
Done(s, x) == \A y \in ToSet(s) : Key(y) < Key(x) => Precedes(s, y, x)

LEMMA HeadPassed ==
  ASSUME NEW m, NEW q, Repr(m, q), NEW l \in List
  PROVE  m.head[l] \in ToSet(q[l]) \cup {ListNull} /\ Passed(q[l], m.head[l]) = {}
<1> DEFINE s == q[l]
<1>1. /\ s \in Seq(Node) /\ Len(s) \in Nat /\ Injective(s) /\ \A i \in 1 .. Len(s) : s[i] \in Node
      /\ m.head[l] = IF Len(s) = 0 THEN ListNull ELSE s[1]
      /\ DOMAIN s = 1 .. Len(s)
  BY ReprList
<1> HIDE DEF s
<1>2. CASE Len(s) = 0
  <2>1. ToSet(s) = {}
    BY <1>1, <1>2 DEF ToSet
  <2> QED
    BY <1>1, <1>2, <2>1 DEF Passed, s
<1>3. CASE Len(s) # 0
  <2>1. 1 \in 1 .. Len(s) /\ s[1] # ListNull /\ s[1] \in ToSet(s)
    BY <1>1, <1>3, LinkedListAssumption DEF ToSet
  <2>2. \A x : ~Precedes(s, x, s[1])
    <3>1. \A x : ~ \E k \in 1 .. Len(s) : k < 1 /\ s[k] = x
      BY <1>1
    <3> QED
      BY <1>1, <2>1, <3>1, PrecedesPlace
  <2>3. m.head[l] = s[1]
    BY <1>1, <1>3
  <2> QED
    BY <2>1, <2>2, <2>3 DEF Passed, s
<1> QED
  BY <1>2, <1>3

\* p2 comes next after p on s
NextOn(s, p, p2) ==
  /\ p2 \in ToSet(s) \cup {ListNull} /\ p2 # p
  /\ p \notin Passed(s, p) /\ Passed(s, p2) = Passed(s, p) \cup {p}

LEMMA NextPassed ==
  ASSUME NEW m, NEW q, Repr(m, q), NEW l \in List, NEW p \in ToSet(q[l])
  PROVE  NextOn(q[l], p, m.next[p])
<1> DEFINE s == q[l]
<1>1. /\ s \in Seq(Node) /\ Len(s) \in Nat /\ Injective(s) /\ \A i \in 1 .. Len(s) : s[i] \in Node
      /\ DOMAIN s = 1 .. Len(s)
  BY ReprList
<1>2. \A i \in 1 .. Len(s) : m.next[s[i]] = IF i = Len(s) THEN ListNull ELSE s[i + 1]
  BY DEF Repr, Links
<1>3. p \in ToSet(s)
  OBVIOUS
<1>4. ListNull \notin Node
  BY LinkedListAssumption
<1> HIDE DEF s
<1>5. PICK i \in 1 .. Len(s) : s[i] = p
  BY <1>1, <1>3 DEF ToSet
<1>6. \A x : Precedes(s, x, p) <=> \E k \in 1 .. Len(s) : k < i /\ s[k] = x
  BY <1>1, <1>5, PrecedesPlace
<1>7. p # ListNull /\ ~Precedes(s, p, p)
  BY <1>1, <1>4, <1>5, PrecedesOrder
<1>8. \A x : x \in ToSet(s) <=> \E k \in 1 .. Len(s) : s[k] = x
  BY <1>1 DEF ToSet
<1>9. \A x : x \in Passed(s, p) \cup {p} <=> \E k \in 1 .. Len(s) : k <= i /\ s[k] = x
  <2>1. \A k \in 1 .. Len(s) : k <= i <=> k < i \/ k = i
    BY <1>1
  <2> QED
    BY <1>5, <1>6, <1>7, <1>8, <2>1 DEF Passed
<1>10. CASE i = Len(s)
  <2>1. m.next[p] = ListNull
    BY <1>2, <1>5, <1>10
  <2>2. \A k \in 1 .. Len(s) : k <= i
    BY <1>1, <1>10
  <2>3. Passed(s, ListNull) = Passed(s, p) \cup {p}
    <3>1. Passed(s, ListNull) = ToSet(s)
      BY DEF Passed
    <3> QED
      BY <1>8, <1>9, <2>2, <3>1
  <2> QED
    BY <1>7, <2>1, <2>3 DEF Passed, NextOn, s
<1>11. CASE i # Len(s)
  <2>1. i + 1 \in 1 .. Len(s) /\ m.next[p] = s[i + 1] /\ i # i + 1
    <3>1. i + 1 \in 1 .. Len(s) /\ i # i + 1
      <4> DEFINE N == Len(s)
      <4>1. N \in Nat /\ i \in 1 .. N /\ i # N
        BY <1>1, <1>11
      <4>2. N \in Nat /\ i \in 1 .. N /\ i # N => i + 1 \in 1 .. N /\ i # i + 1
        <5> HIDE DEF N
        <5> QED
          OBVIOUS
      <4> QED
        BY <4>1, <4>2
    <3>2. m.next[s[i]] = s[i + 1]
      BY <1>2, <1>11
    <3> QED
      BY <1>5, <3>1, <3>2
  <2>2. PICK j : j = i + 1
    OBVIOUS
  <2>3. j \in 1 .. Len(s) /\ m.next[p] = s[j] /\ i # j
    BY <2>1, <2>2
  <2>4. s[j] # p /\ s[j] \in ToSet(s) /\ s[j] # ListNull
    BY <1>1, <1>4, <1>5, <1>8, <2>3 DEF Injective
  <2>5. \A x : Precedes(s, x, s[j]) <=> \E k \in 1 .. Len(s) : k < j /\ s[k] = x
    BY <1>1, <2>3, PrecedesPlace
  <2>6. \A k \in 1 .. Len(s) : k < j <=> k <= i
    BY <1>1, <2>2
  <2>7. \A x : x \in Passed(s, s[j]) <=> \E k \in 1 .. Len(s) : k <= i /\ s[k] = x
    BY <1>8, <2>4, <2>5, <2>6 DEF Passed
  <2>8. Passed(s, s[j]) = Passed(s, p) \cup {p}
    BY <1>9, <2>7
  <2> QED
    BY <1>7, <2>3, <2>4, <2>8 DEF Passed, NextOn, s
<1> QED
  BY <1>10, <1>11

\* the order of a sequence without repetitions, as the lemmas below use it
Order(s) ==
  /\ \A x : ~Precedes(s, x, x)
  /\ \A x, y : Precedes(s, x, y) => x \in ToSet(s) /\ y \in ToSet(s) /\ ~Precedes(s, y, x)
  /\ \A x, y \in ToSet(s) : x # y => Precedes(s, x, y) \/ Precedes(s, y, x)
  /\ \A x, y, z : Precedes(s, x, y) /\ Precedes(s, y, z) => Precedes(s, x, z)

LEMMA OrderHolds ==
  ASSUME NEW s \in Seq(Node), Injective(s)
  PROVE  Order(s)
BY PrecedesOrder, PrecedesTransitive DEF Order

-----------------------------------------------------------------------------
(* The inner loop.                                                         *)

(* The inner loop for n started on s and is at p, with the list now u.  The *)
(* nodes it has passed that have smaller keys are in front of n; only n has *)
(* moved, so that a node that was where it belongs still is; and if n was,  *)
(* it has not moved back.                                                   *)
Passing(s, u, n, p) ==
  /\ u \in Seq(Node) /\ Injective(u) /\ ToSet(u) = ToSet(s) /\ Len(u) = Len(s)
  /\ n \in ToSet(u) /\ p \in ToSet(u) \cup {ListNull}
  /\ \A x, y : x # n /\ y # n => (Precedes(u, x, y) <=> Precedes(s, x, y))
  /\ \A x \in Passed(u, p) : x # n /\ Key(x) < Key(n) => Precedes(u, x, n)
  /\ \A x \in ToSet(u) : x # n /\ Done(s, x) => Done(u, x)
  /\ Done(s, n) => \A x : Precedes(s, n, x) => Precedes(u, n, x)

\* the nodes the loop has yet to visit, n aside, and how far it is from n
Left(u, n, p) == (ToSet(u) \ {n}) \ Passed(u, p)

Phase(u, n, p) == IF p = ListNull \/ n \in Passed(u, p) THEN 0 ELSE IF p = n THEN 1 ELSE 2

\* a turn for n at p, which made u into v, and after which the loop is at p2
Turned(u, v, n, p, p2) ==
  /\ n \in ToSet(u) /\ p \in ToSet(u) /\ Placed(u, v, n, p)
  /\ Order(u) /\ Order(v) /\ ToSet(u) \subseteq Node /\ ListNull \notin ToSet(u)
  /\ NextOn(u, p, p2)

LEMMA PlacedPassed ==
  ASSUME NEW u, NEW v, NEW n, NEW p, NEW p2, Turned(u, v, n, p, p2)
  PROVE  /\ p2 # n => Passed(v, p2) \ {n} = (Passed(u, p) \cup {p}) \ {n}
         /\ n # p /\ Key(n) < Key(p) /\ Precedes(u, p, n) =>
              Passed(v, n) = Passed(u, p)
         /\ v = u => Passed(v, p2) = Passed(u, p) \cup {p}
<1>0. /\ n \in ToSet(u) /\ p \in ToSet(u) /\ Placed(u, v, n, p)
      /\ Order(u) /\ Order(v) /\ ToSet(u) \subseteq Node /\ ListNull \notin ToSet(u)
      /\ p2 \in ToSet(u) \cup {ListNull} /\ p2 # p
      /\ p \notin Passed(u, p) /\ Passed(u, p2) = Passed(u, p) \cup {p}
  BY DEF Turned, NextOn
<1>1. /\ ToSet(v) = ToSet(u)
      /\ \A x, y : x # n /\ y # n => (Precedes(v, x, y) <=> Precedes(u, x, y))
  BY <1>0 DEF Placed
<1>2. p2 # n => Passed(v, p2) \ {n} = Passed(u, p2) \ {n}
  BY <1>0, <1>1 DEF Passed
<1>3. ASSUME n # p, Key(n) < Key(p), Precedes(u, p, n)
      PROVE  Passed(v, n) = Passed(u, p)
  <2>1. \A x : x # n => (Precedes(v, x, n) <=> Precedes(u, x, p))
    BY <1>0, <1>3 DEF Placed
  <2>2. n # ListNull /\ p # ListNull
    BY <1>0
  <2>3. ~Precedes(v, n, n) /\ ~Precedes(u, n, p)
    BY <1>0, <1>3 DEF Order
  <2> QED
    BY <1>0, <1>1, <2>1, <2>2, <2>3 DEF Passed
<1> QED
  BY <1>0, <1>2, <1>3

LEMMA PassingStep ==
  ASSUME SortAssumption, NEW s, NEW u, NEW v, NEW n, NEW p, NEW p2,
         Order(s), Passing(s, u, n, p), Turned(u, v, n, p, p2)
  PROVE  Passing(s, v, n, p2)
<1>0. /\ n \in ToSet(u) /\ p \in ToSet(u) /\ Placed(u, v, n, p)
      /\ Order(u) /\ Order(v) /\ ToSet(u) \subseteq Node /\ ListNull \notin ToSet(u)
      /\ p2 \in ToSet(u) \cup {ListNull} /\ p2 # p
      /\ p \notin Passed(u, p) /\ Passed(u, p2) = Passed(u, p) \cup {p}
  BY DEF Turned, NextOn
<1> DEFINE Fore == n # p /\ Key(n) < Key(p) /\ Precedes(u, p, n)
           Back == n # p /\ Key(n) > Key(p) /\ Precedes(u, n, p)
<1>1. /\ v \in Seq(Node) /\ Injective(v) /\ ToSet(v) = ToSet(u) /\ Len(v) = Len(u)
      /\ \A x, y : x # n /\ y # n => (Precedes(v, x, y) <=> Precedes(u, x, y))
      /\ Fore => \A x : x # n => (Precedes(v, x, n) <=> Precedes(u, x, p))
      /\ ~Fore /\ Back => \A x : x # n => (Precedes(v, x, n) <=> x = p \/ Precedes(u, x, p))
      /\ ~Fore /\ ~Back => v = u
  BY <1>0 DEF Placed
<1>2. /\ ToSet(u) = ToSet(s) /\ Len(u) = Len(s) /\ n \in ToSet(u)
      /\ \A x, y : x # n /\ y # n => (Precedes(u, x, y) <=> Precedes(s, x, y))
      /\ \A x \in Passed(u, p) : x # n /\ Key(x) < Key(n) => Precedes(u, x, n)
      /\ \A x \in ToSet(u) : x # n /\ Done(s, x) => Done(u, x)
      /\ Done(s, n) => \A x : Precedes(s, n, x) => Precedes(u, n, x)
  BY <1>0 DEF Passing
<1>3. p # ListNull /\ n # ListNull
  BY <1>0, <1>2
<1>4. \A x \in ToSet(u) : Key(x) \in Int
  BY <1>0 DEF SortAssumption
<1>5. \A x, y \in ToSet(u) : Precedes(v, x, y) <=> x # y /\ ~Precedes(v, y, x)
  BY <1>0, <1>1 DEF Order
<1>6. \A x \in Passed(v, p2) : x # n /\ Key(x) < Key(n) => Precedes(v, x, n)
  <2> SUFFICES ASSUME NEW x \in Passed(v, p2), x # n, Key(x) < Key(n) PROVE Precedes(v, x, n)
    BY <1>0
  <2>1. CASE p2 = n
    BY <1>0, <1>3, <2>1 DEF Passed
  <2>2. CASE p2 # n
    <3>1. x \in Passed(u, p) \/ x = p
      <4>1. Passed(v, p2) \ {n} = (Passed(u, p) \cup {p}) \ {n}
        BY <1>0, <1>2, <2>2, PlacedPassed
      <4> QED
        BY <1>0, <4>1
    <3>2. x \in ToSet(u)
      BY <1>0, <1>1, <3>1 DEF Passed
    <3>3. x \in Passed(u, p) => Precedes(u, x, p) /\ Precedes(u, x, n)
      BY <1>0, <1>2, <1>3 DEF Passed
    <3>4. CASE Fore
      <4>1. x # p
        BY <1>0, <1>2, <1>4, <3>2, <3>4
      <4> QED
        BY <1>0, <1>1, <3>1, <3>3, <3>4, <4>1
    <3>5. CASE ~Fore /\ Back
      BY <1>0, <1>1, <3>1, <3>3, <3>5
    <3>6. CASE ~Fore /\ ~Back
      <4>1. x = p => Precedes(u, p, n)
        <5> SUFFICES ASSUME x = p PROVE Precedes(u, p, n)
          BY <1>0
        <5>1. Key(n) > Key(p) /\ n # p
          BY <1>0, <1>2, <1>4, <3>2
        <5>2. ~Precedes(u, n, p)
          BY <1>0, <3>6, <5>1
        <5> QED
          BY <1>0, <1>2, <5>1, <5>2 DEF Order
      <4> QED
        BY <1>0, <1>1, <3>1, <3>3, <3>6, <4>1
    <3> QED
      BY <1>0, <3>4, <3>5, <3>6
  <2> QED
    BY <1>0, <2>1, <2>2
<1>7. ASSUME NEW x \in ToSet(u), x # n, Done(s, x) PROVE Done(v, x)
  <2>1. \A y \in ToSet(u) : Key(y) < Key(x) => Precedes(u, y, x)
    BY <1>0, <1>2, <1>7 DEF Done
  <2>2. SUFFICES ASSUME NEW y \in ToSet(u), Key(y) < Key(x) PROVE Precedes(v, y, x)
    BY <1>0, <1>1 DEF Done
  <2>3. Precedes(u, y, x)
    BY <1>0, <2>1, <2>2
  <2>4. CASE y # n
    BY <1>0, <1>1, <1>7, <2>3, <2>4
  <2>5. CASE y = n
    <3>1. ~Precedes(v, x, n) => Precedes(v, n, x)
      BY <1>0, <1>2, <1>5, <1>7
    <3>2. CASE Fore
      <4>1. Precedes(u, p, x) /\ ~Precedes(u, x, p)
        BY <1>0, <2>3, <2>5, <3>2 DEF Order
      <4> QED
        BY <1>0, <1>1, <1>7, <2>5, <3>1, <3>2, <4>1
    <3>3. CASE ~Fore /\ Back
      <4>1. Key(p) < Key(x)
        BY <1>0, <1>2, <1>4, <2>2, <2>5, <3>3
      <4>2. Precedes(u, p, x) /\ ~Precedes(u, x, p) /\ x # p
        BY <1>0, <2>1, <4>1 DEF Order
      <4> QED
        BY <1>0, <1>1, <1>7, <2>5, <3>1, <3>3, <4>2
    <3>4. CASE ~Fore /\ ~Back
      BY <1>0, <1>1, <2>3, <3>4
    <3> QED
      BY <1>0, <3>2, <3>3, <3>4
  <2> QED
    BY <1>0, <2>4, <2>5
<1>8. ASSUME Done(s, n), NEW x, Precedes(s, n, x) PROVE Precedes(v, n, x)
  <2>1. Precedes(u, n, x)
    BY <1>0, <1>2, <1>8
  <2>2. x \in ToSet(u) /\ x # n
    BY <1>0, <2>1 DEF Order
  <2>3. ~Precedes(v, x, n) => Precedes(v, n, x)
    BY <1>0, <1>2, <1>5, <2>2
  <2>4. CASE Fore
    <3>1. Precedes(u, p, x) /\ ~Precedes(u, x, p)
      BY <1>0, <2>1, <2>4 DEF Order
    <3> QED
      BY <1>0, <1>1, <2>2, <2>3, <2>4, <3>1
  <2>5. CASE ~Fore /\ Back
    <3>1. Precedes(s, p, n)
      <4>1. Key(p) < Key(n)
        BY <1>0, <1>2, <1>4, <2>5
      <4> QED
        BY <1>0, <1>2, <1>8, <4>1 DEF Done
    <3>2. Precedes(s, p, x)
      BY <1>0, <1>8, <3>1 DEF Order
    <3>3. Precedes(u, p, x)
      BY <1>0, <1>2, <2>2, <2>5, <3>2
    <3>4. x # p /\ ~Precedes(u, x, p)
      BY <1>0, <3>3 DEF Order
    <3> QED
      BY <1>0, <1>1, <2>2, <2>3, <2>5, <3>4
  <2>6. CASE ~Fore /\ ~Back
    BY <1>0, <1>1, <2>1, <2>6
  <2> QED
    BY <1>0, <2>4, <2>5, <2>6
<1>9. \A x, y : x # n /\ y # n => (Precedes(v, x, y) <=> Precedes(s, x, y))
  BY <1>0, <1>1, <1>2
<1> QED
  BY <1>0, <1>1, <1>2, <1>6, <1>7, <1>8, <1>9 DEF Passing

LEMMA LeftStep ==
  ASSUME NEW u, NEW v, NEW n, NEW p, NEW p2, Turned(u, v, n, p, p2)
  PROVE  \/ /\ p \in Left(u, n, p) /\ Left(v, n, p2) \subseteq Left(u, n, p) \ {p}
            /\ Phase(v, n, p2) <= Phase(u, n, p)
         \/ /\ Left(v, n, p2) \subseteq Left(u, n, p)
            /\ Phase(v, n, p2) < Phase(u, n, p)
<1>0. /\ n \in ToSet(u) /\ p \in ToSet(u) /\ Placed(u, v, n, p)
      /\ Order(u) /\ Order(v) /\ ToSet(u) \subseteq Node /\ ListNull \notin ToSet(u)
      /\ p2 \in ToSet(u) \cup {ListNull} /\ p2 # p
      /\ p \notin Passed(u, p) /\ Passed(u, p2) = Passed(u, p) \cup {p}
  BY DEF Turned, NextOn
<1> DEFINE Fore == n # p /\ Key(n) < Key(p) /\ Precedes(u, p, n)
           Back == n # p /\ Key(n) > Key(p) /\ Precedes(u, n, p)
<1>1. /\ ToSet(v) = ToSet(u)
      /\ Fore => \A x : x # n => (Precedes(v, x, n) <=> Precedes(u, x, p))
      /\ ~Fore /\ Back => \A x : x # n => (Precedes(v, x, n) <=> x = p \/ Precedes(u, x, p))
      /\ ~Fore /\ ~Back => v = u
  BY <1>0 DEF Placed
<1>2. p # ListNull /\ n # ListNull
  BY <1>0
<1>3. /\ p2 # n => Passed(v, p2) \ {n} = (Passed(u, p) \cup {p}) \ {n}
      /\ Fore => Passed(v, n) = Passed(u, p)
      /\ v = u => Passed(v, p2) = Passed(u, p) \cup {p}
  BY <1>0, <1>2, PlacedPassed
<1>4. /\ n = p => Phase(u, n, p) = 1
      /\ n \in Passed(u, p) => n # p /\ Phase(u, n, p) = 0
      /\ n \notin Passed(u, p) /\ n # p => Phase(u, n, p) = 2
      /\ Phase(v, n, p2) \in {0, 1, 2}
      /\ p2 = n => Phase(v, n, p2) <= 1
      /\ n \in Passed(v, p2) \/ p2 = ListNull => Phase(v, n, p2) = 0
  BY <1>0, <1>2 DEF Phase
<1>5. CASE n = p
  <2>1. v = u
    BY <1>0, <1>1, <1>5
  <2>2. Left(v, n, p2) = Left(u, n, p) /\ n \in Passed(v, p2)
    BY <1>0, <1>3, <1>5, <2>1 DEF Left
  <2> QED
    BY <1>0, <1>4, <1>5, <2>2
<1>6. CASE n # p /\ p2 # n
  <2>1. p \in Left(u, n, p) /\ Left(v, n, p2) \subseteq Left(u, n, p) \ {p}
    BY <1>0, <1>1, <1>3, <1>6 DEF Left
  <2>2. Phase(v, n, p2) <= Phase(u, n, p)
    <3>1. CASE n \notin Passed(u, p)
      BY <1>0, <1>4, <1>6, <3>1
    <3>2. CASE n \in Passed(u, p) /\ p2 = ListNull
      BY <1>0, <1>4, <3>2
    <3>3. CASE n \in Passed(u, p) /\ p2 # ListNull
      <4>1. Precedes(u, n, p)
        BY <1>0, <1>2, <3>3 DEF Passed
      <4>2. ~Fore
        BY <1>0, <4>1 DEF Order
      <4>3. n \in Passed(v, p2)
        <5>1. CASE Back
          <6>1. p2 \in ToSet(u) /\ ~Precedes(u, p2, p)
            <7>1. p2 \notin Passed(u, p2)
              BY <1>0, <3>3 DEF Passed, Order
            <7> QED
              BY <1>0, <1>2, <3>3, <7>1 DEF Passed
          <6>2. ~Precedes(v, p2, n)
            BY <1>0, <1>1, <1>6, <4>2, <5>1, <6>1
          <6>3. Precedes(v, n, p2)
            BY <1>0, <1>1, <1>6, <6>1, <6>2 DEF Order
          <6> QED
            BY <1>0, <1>1, <3>3, <6>3 DEF Passed
        <5>2. CASE ~Back
          BY <1>0, <1>1, <1>3, <3>3, <4>2, <5>2
        <5> QED
          BY <1>0, <5>1, <5>2
      <4> QED
        BY <1>0, <1>4, <3>3, <4>3
    <3> QED
      BY <1>0, <3>1, <3>2, <3>3
  <2> QED
    BY <1>0, <2>1, <2>2
<1>7. CASE n # p /\ p2 = n
  <2>1. Precedes(u, p, n) /\ ~Precedes(u, n, p)
    BY <1>0, <1>2, <1>7 DEF Passed, Order
  <2>2. n \notin Passed(u, p)
    BY <1>0, <1>2, <2>1 DEF Passed
  <2>3. Left(v, n, p2) \subseteq Left(u, n, p)
    <3>1. CASE Fore
      BY <1>0, <1>1, <1>3, <1>7, <3>1 DEF Left
    <3>2. CASE ~Fore
      BY <1>0, <1>1, <1>3, <2>1, <3>2 DEF Left
    <3> QED
      BY <1>0, <3>1, <3>2
  <2> QED
    BY <1>0, <1>4, <1>7, <2>2, <2>3
<1> QED
  BY <1>0, <1>5, <1>6, <1>7

\* what the inner loop has left to do, in turns
Size(u, n, p) == Cardinality(Left(u, n, p)) + Phase(u, n, p)

LEMMA SubsetSize ==
  ASSUME NEW A \in SUBSET Node
  PROVE  /\ IsFiniteSet(A) /\ Cardinality(A) \in Nat /\ Cardinality(A) <= Cardinality(Node)
         /\ A = {} <=> Cardinality(A) = 0
         /\ \A B \in SUBSET A : Cardinality(B) \in Nat /\ Cardinality(B) <= Cardinality(A)
         /\ \A x \in A : \A B \in SUBSET (A \ {x}) :
              Cardinality(B) \in Nat /\ Cardinality(B) + 1 <= Cardinality(A)
<1>1. IsFiniteSet(Node)
  BY LinkedListAssumption
<1>2. IsFiniteSet(A) /\ Cardinality(A) <= Cardinality(Node)
  BY <1>1, FS_Subset
<1>3. Cardinality(A) \in Nat /\ (A = {} <=> Cardinality(A) = 0)
  BY <1>2, FS_CardinalityType, FS_EmptySet
<1>4. ASSUME NEW B \in SUBSET A PROVE Cardinality(B) \in Nat /\ Cardinality(B) <= Cardinality(A)
  <2>1. IsFiniteSet(B) /\ Cardinality(B) <= Cardinality(A)
    BY <1>2, FS_Subset
  <2> QED
    BY <2>1, FS_CardinalityType
<1>5. ASSUME NEW x \in A, NEW B \in SUBSET (A \ {x})
      PROVE  Cardinality(B) \in Nat /\ Cardinality(B) + 1 <= Cardinality(A)
  <2>1. IsFiniteSet(A \ {x}) /\ Cardinality(A \ {x}) = Cardinality(A) - 1
    BY <1>2, FS_RemoveElement
  <2>2. IsFiniteSet(B) /\ Cardinality(B) <= Cardinality(A \ {x})
    BY <2>1, FS_Subset
  <2>3. Cardinality(B) \in Nat
    BY <2>2, FS_CardinalityType
  <2> QED
    BY <1>3, <2>1, <2>2, <2>3
<1> QED
  BY <1>2, <1>3, <1>4, <1>5

LEMMA SizeStep ==
  ASSUME NEW u, NEW v, NEW n, NEW p, NEW p2, Turned(u, v, n, p, p2)
  PROVE  /\ Size(u, n, p) \in Nat /\ Size(v, n, p2) \in Nat
         /\ Size(v, n, p2) + 1 <= Size(u, n, p)
<1> DEFINE A == Left(u, n, p)
           B == Left(v, n, p2)
           a == Phase(u, n, p)
           b == Phase(v, n, p2)
<1>1. A \in SUBSET Node
  BY DEF Turned, Left
<1>2. a \in Nat /\ b \in Nat
  BY DEF Phase
<1>3. \/ p \in A /\ B \subseteq A \ {p} /\ b <= a
      \/ B \subseteq A /\ b < a
  BY LeftStep
<1>4. Size(u, n, p) = Cardinality(A) + a /\ Size(v, n, p2) = Cardinality(B) + b
  BY DEF Size
<1> HIDE DEF A, B, a, b
<1>5. /\ Cardinality(A) \in Nat /\ Cardinality(B) \in Nat
      /\ \/ Cardinality(B) + 1 <= Cardinality(A) /\ b <= a
         \/ Cardinality(B) <= Cardinality(A) /\ b < a
  <2>1. Cardinality(A) \in Nat
    BY <1>1, SubsetSize
  <2>2. CASE p \in A /\ B \subseteq A \ {p} /\ b <= a
    BY <1>1, <2>1, <2>2, SubsetSize
  <2>3. CASE B \subseteq A /\ b < a
    BY <1>1, <2>1, <2>3, SubsetSize
  <2> QED
    BY <1>3, <2>2, <2>3
<1> QED
  BY <1>2, <1>4, <1>5

\* the loop for n that started on q[l] is in the state t, and the list is u
InnerAt(q, l, n, t, u) ==
  Repr(t.m, [q EXCEPT ![l] = u]) /\ Passing(q[l], u, n, t.n2)

LEMMA InnerTurnStep ==
  ASSUME SortAssumption, NEW q \in [List -> Seq(Node)], NEW l \in List, Injective(q[l]), NEW n,
         NEW t, NEW u, InnerAt(q, l, n, t, u), t.n2 # ListNull
  PROVE  \E v : /\ InnerAt(q, l, n, InnerTurn(l, n, t), v)
                /\ Size(u, n, t.n2) \in Nat /\ Size(v, n, InnerTurn(l, n, t).n2) \in Nat
                /\ Size(v, n, InnerTurn(l, n, t).n2) + 1 <= Size(u, n, t.n2)
<1> DEFINE r == [q EXCEPT ![l] = u]
           m == t.m
           p == t.n2
           p2 == m.next[p]
           m2 == Place(m, l, n, p)
           t2 == InnerTurn(l, n, t)
<1>1. Repr(m, r) /\ Passing(q[l], u, n, p)
  BY DEF InnerAt
<1>2. r[l] = u /\ \A v : [r EXCEPT ![l] = v] = [q EXCEPT ![l] = v]
  OBVIOUS
<1>3. t2.m = m2 /\ t2.n2 = p2
  BY DEF InnerTurn
<1> HIDE DEF r, m, m2, p, p2, t2
<1>4. /\ u \in Seq(Node) /\ Injective(u) /\ n \in ToSet(u) /\ p \in ToSet(u)
      /\ ToSet(u) \subseteq Node /\ ListNull \notin ToSet(u)
  <2>1. u \in Seq(Node) /\ Injective(u) /\ n \in ToSet(u) /\ p \in ToSet(u)
    BY <1>1 DEF Passing, p
  <2>2. ToSet(u) \subseteq Node
    BY <2>1 DEF ToSet
  <2> QED
    BY <2>1, <2>2, LinkedListAssumption
<1>5. PICK v : Repr(m2, [r EXCEPT ![l] = v]) /\ Placed(u, v, n, p)
  BY <1>1, <1>2, <1>4, PlaceRepr DEF m2
<1>6. NextOn(u, p, p2)
  <2>1. Repr(m, r) /\ l \in List /\ p \in ToSet(r[l])
    BY <1>1, <1>2, <1>4
  <2>2. NextOn(r[l], p, m.next[p])
    BY ONLY <2>1, NextPassed
  <2> QED
    BY <1>2, <2>2 DEF p2
<1>7. Order(u) /\ Order(v) /\ Order(q[l])
  <2>1. v \in Seq(Node) /\ Injective(v)
    BY <1>5 DEF Placed
  <2> QED
    BY <1>4, <2>1, OrderHolds
<1>8. Turned(u, v, n, p, p2)
  BY <1>4, <1>5, <1>6, <1>7 DEF Turned
<1>9. Passing(q[l], v, n, p2)
  BY <1>1, <1>7, <1>8, PassingStep
<1>10. InnerAt(q, l, n, t2, v)
  BY <1>2, <1>3, <1>5, <1>9 DEF InnerAt
<1>11. Size(u, n, p) \in Nat /\ Size(v, n, p2) \in Nat /\ Size(v, n, p2) + 1 <= Size(u, n, p)
  BY <1>8, SizeStep
<1> QED
  BY <1>3, <1>10, <1>11 DEF t2, p

LEMMA InnerRepr ==
  ASSUME SortAssumption, NEW m, NEW q, Repr(m, q), NEW l \in List, NEW n \in ToSet(q[l])
  PROVE  /\ Inner(m, l, n).n2 = ListNull
         /\ \E u : InnerAt(q, l, n, Inner(m, l, n), u)
<1> DEFINE s == q[l]
           a == [m |-> m, n2 |-> m.head[l]]
           S == {t \in [m : Mem, n2 : Node \cup {ListNull}] : \E u : InnerAt(q, l, n, t, u)}
           F == [t \in S |-> InnerTurn(l, n, t)]
           End == {t \in S : t.n2 = ListNull}
           Can == [t \in S |-> {b \in Nat : \E u : InnerAt(q, l, n, t, u) /\ Size(u, n, t.n2) <= b}]
           turn[k \in Nat] == IF k = 0 THEN a ELSE InnerTurn(l, n, turn[k - 1])
<1>1. /\ q \in [List -> Seq(Node)] /\ s \in Seq(Node) /\ Injective(s) /\ Order(s) /\ m \in Mem
      /\ [q EXCEPT ![l] = s] = q
  BY ReprList, OrderHolds DEF Repr
<1>2. /\ m.head[l] \in ToSet(s) \cup {ListNull} /\ Passed(s, m.head[l]) = {}
      /\ ToSet(s) \subseteq Node
  <2>1. ToSet(s) \subseteq Node
    BY <1>1 DEF ToSet
  <2> QED
    BY <2>1, HeadPassed
<1>3. InnerAt(q, l, n, a, s)
  <2>1. Passing(s, s, n, m.head[l])
    <3> HIDE DEF s
    <3> QED
      BY <1>1, <1>2 DEF Passing, s
  <2> QED
    BY <1>1, <2>1 DEF InnerAt
<1>4. a \in S
  <2>1. a \in [m : Mem, n2 : Node \cup {ListNull}]
    BY <1>1, <1>2
  <2> HIDE DEF a
  <2> QED
    BY <1>3, <2>1
<1>5. ASSUME NEW t \in S PROVE InnerTurn(l, n, t) \in S
  <2>1. CASE t.n2 = ListNull
    BY <2>1 DEF InnerTurn
  <2>2. CASE t.n2 # ListNull
    <3>1. PICK u : InnerAt(q, l, n, t, u)
      OBVIOUS
    <3>2. PICK v : InnerAt(q, l, n, InnerTurn(l, n, t), v)
      BY <1>1, <2>2, <3>1, InnerTurnStep
    <3> DEFINE t2 == InnerTurn(l, n, t)
    <3>3. t2 = [m |-> t2.m, n2 |-> t2.n2]
      BY <2>2 DEF InnerTurn
    <3> HIDE DEF t2
    <3>4. t2.m \in Mem /\ t2.n2 \in Node \cup {ListNull}
      <4>1. Repr(t2.m, [q EXCEPT ![l] = v]) /\ Passing(s, v, n, t2.n2)
        BY <3>2 DEF InnerAt, t2
      <4>2. ToSet(v) = ToSet(s) /\ t2.n2 \in ToSet(v) \cup {ListNull}
        BY <4>1 DEF Passing
      <4> QED
        BY <1>2, <4>1, <4>2 DEF Repr
    <3>5. t2 \in [m : Mem, n2 : Node \cup {ListNull}]
      BY <3>3, <3>4
    <3> QED
      BY <3>2, <3>5 DEF t2
  <2> QED
    BY <2>1, <2>2
<1>6. StepOn(S, F)
  BY <1>5 DEF StepOn
<1>7. LoopStates(a, F, turn) /\ turn \in [Nat -> S]
  <2>1. PICK g \in [Nat -> S] : LoopStates(a, F, g)
    <3> HIDE DEF F, a, S
    <3>1. LoopDefined(S, a, F)
      BY <1>4, <1>6, Loops
    <3> QED
      BY <3>1 DEF LoopDefined
  <2>2. g = [k \in Nat |-> IF k = 0 THEN a ELSE InnerTurn(l, n, g[k - 1])]
    <3>1. \A k \in Nat : k # 0 => F[g[k - 1]] = InnerTurn(l, n, g[k - 1])
      BY <2>1
    <3> HIDE DEF F, a, S
    <3> QED
      BY <2>1, <3>1 DEF LoopStates
  <2>3. turn = [k \in Nat |-> IF k = 0 THEN a ELSE InnerTurn(l, n, turn[k - 1])]
    BY <2>2
  <2> HIDE DEF F, a, S, turn
  <2>4. \A k \in Nat : turn[k] = IF k = 0 THEN a ELSE InnerTurn(l, n, turn[k - 1])
    BY <2>3
  <2>5. \A k \in Nat : turn[k] = g[k]
    <3> DEFINE P == {k \in Nat : turn[k] = g[k]}
    <3>1. 0 \in P
      BY <2>2, <2>4
    <3>2. ASSUME NEW k \in P PROVE k + 1 \in P
      <4>1. k + 1 \in Nat /\ k + 1 # 0 /\ (k + 1) - 1 = k
        OBVIOUS
      <4>2. turn[k + 1] = InnerTurn(l, n, turn[k]) /\ g[k + 1] = InnerTurn(l, n, g[k])
        BY <2>2, <2>4, <4>1
      <4> QED
        BY <4>1, <4>2
    <3>3. P \in SUBSET Nat
      OBVIOUS
    <3> HIDE DEF P
    <3>4. P = Nat
      BY <3>1, <3>2, <3>3, Induction
    <3> QED
      BY <3>4 DEF P
  <2>6. turn = g
    BY <2>2, <2>3, <2>5
  <2> QED
    BY <2>1, <2>6
<1>10. Inner(m, l, n) = turn[InnerTurns]
  BY DEF Inner
<1>12. InnerTurns \in Can[a]
  <2> DEFINE A == Left(s, n, m.head[l])
             c == Phase(s, n, m.head[l])
             C == Cardinality(Node)
  <2>1. A \in SUBSET Node /\ n \in Node /\ A \subseteq Node \ {n}
    BY <1>2 DEF Left
  <2>2. c \in Nat /\ c <= 2
    BY DEF Phase
  <2>3. C \in Nat /\ Cardinality(A) \in Nat /\ Cardinality(A) + 1 <= C
    <3>1. Node \in SUBSET Node
      OBVIOUS
    <3> HIDE DEF A
    <3> QED
      BY <2>1, <3>1, SubsetSize
  <2>4. Size(s, n, m.head[l]) = Cardinality(A) + c
    BY DEF Size
  <2>5. InnerTurns = C + 1
    BY DEF InnerTurns
  <2> HIDE DEF A, c, C
  <2>6. InnerTurns \in Nat /\ Size(s, n, m.head[l]) <= InnerTurns
    BY <2>2, <2>3, <2>4, <2>5
  <2>7. a.n2 = m.head[l]
    OBVIOUS
  <2> HIDE DEF a
  <2> QED
    BY <1>3, <1>4, <2>6, <2>7
<1>13. \A t \in S : t \in End => F[t] = t
  BY DEF InnerTurn
<1>14. ASSUME NEW t \in S, t \notin End, NEW b \in Can[t]
       PROVE  b - 1 \in Can[F[t]]
  <2>1. F[t] = InnerTurn(l, n, t) /\ F[t] \in S /\ t.n2 # ListNull /\ b \in Nat
    BY <1>5, <1>14
  <2>2. PICK u : InnerAt(q, l, n, t, u) /\ Size(u, n, t.n2) <= b
    OBVIOUS
  <2> DEFINE t2 == InnerTurn(l, n, t)
  <2>3. PICK v : /\ InnerAt(q, l, n, t2, v)
                 /\ Size(u, n, t.n2) \in Nat /\ Size(v, n, t2.n2) \in Nat
                 /\ Size(v, n, t2.n2) + 1 <= Size(u, n, t.n2)
    BY <1>1, <2>1, <2>2, InnerTurnStep
  <2>4. b - 1 \in Nat /\ Size(v, n, t2.n2) <= b - 1
    BY <2>1, <2>2, <2>3
  <2>5. Can[F[t]] = {c \in Nat : \E w : InnerAt(q, l, n, t2, w) /\ Size(w, n, t2.n2) <= c}
    BY <2>1
  <2> HIDE DEF Can, F, t2
  <2> QED
    BY <2>3, <2>4, <2>5
<1>15. Can \in [S -> SUBSET Nat]
  OBVIOUS
<1>16. turn[InnerTurns] \in End
  <2> HIDE DEF S, F, End, Can, a, turn
  <2> QED
    BY <1>4, <1>6, <1>7, <1>12, <1>13, <1>14, <1>15, LoopEnds
<1> QED
  BY <1>10, <1>16

-----------------------------------------------------------------------------
(* The outer loop.                                                         *)

(* The outer loop started on s and is at p, with the list now u: the nodes *)
(* it has passed are where they belong.                                    *)
Settled(s, u, p) ==
  /\ u \in Seq(Node) /\ Injective(u) /\ ToSet(u) = ToSet(s) /\ Len(u) = Len(s)
  /\ p \in ToSet(u) \cup {ListNull}
  /\ \A x \in Passed(u, p) : Done(u, x)

NotDone(u) == {x \in ToSet(u) : ~Done(u, x)}

\* the nodes the loop has not passed
Ahead(u, p) == ToSet(u) \ Passed(u, p)

LEMMA SettledStep ==
  ASSUME SortAssumption,
         NEW s, NEW u, NEW v, NEW p, NEW p2, Settled(s, u, p), NextOn(u, p, p2), p # ListNull,
         Passing(u, v, p, ListNull), Order(u), Order(v)
  PROVE  /\ Settled(s, v, p2)
         /\ NotDone(v) \subseteq NotDone(u) /\ p \notin NotDone(v)
         /\ p \notin NotDone(u) => p \in Ahead(u, p) /\ Ahead(v, p2) \subseteq Ahead(u, p) \ {p}
<1>1. /\ v \in Seq(Node) /\ Injective(v) /\ ToSet(v) = ToSet(u) /\ Len(v) = Len(u)
      /\ \A x, y : x # p /\ y # p => (Precedes(v, x, y) <=> Precedes(u, x, y))
      /\ \A x \in Passed(v, ListNull) : x # p /\ Key(x) < Key(p) => Precedes(v, x, p)
      /\ \A x \in ToSet(v) : x # p /\ Done(u, x) => Done(v, x)
      /\ Done(u, p) => \A x : Precedes(u, p, x) => Precedes(v, p, x)
      /\ p \in ToSet(v)
  BY DEF Passing
<1>2. /\ ToSet(u) = ToSet(s) /\ Len(u) = Len(s) /\ \A x \in Passed(u, p) : Done(u, x)
  BY DEF Settled
<1>3. /\ p2 \in ToSet(u) \cup {ListNull} /\ p2 # p
      /\ p \notin Passed(u, p) /\ Passed(u, p2) = Passed(u, p) \cup {p}
  BY DEF NextOn
<1>4. Done(v, p)
  <2>1. SUFFICES ASSUME NEW x \in ToSet(v), Key(x) < Key(p) PROVE Precedes(v, x, p)
    BY DEF Done
  <2>2. x # p
    <3>1. Key(p) \in Int
      BY <1>1 DEF SortAssumption, ToSet
    <3> QED
      BY <2>1, <3>1
  <2>3. x \in Passed(v, ListNull)
    BY DEF Passed
  <2> QED
    BY <1>1, <2>1, <2>2, <2>3
<1>5. Passed(v, p2) \ {p} = Passed(u, p2) \ {p}
  BY <1>1, <1>3 DEF Passed
<1>6. \A x \in Passed(v, p2) : Done(v, x)
  <2> SUFFICES ASSUME NEW x \in Passed(v, p2), x # p PROVE Done(v, x)
    BY <1>4
  <2>1. x \in Passed(u, p)
    BY <1>3, <1>5
  <2>2. x \in ToSet(v)
    BY DEF Passed
  <2> QED
    BY <1>1, <1>2, <2>1, <2>2
<1>7. NotDone(v) \subseteq NotDone(u) /\ p \notin NotDone(v)
  BY <1>1, <1>4 DEF NotDone
<1>8. ASSUME p \notin NotDone(u)
      PROVE  p \in Ahead(u, p) /\ Ahead(v, p2) \subseteq Ahead(u, p) \ {p}
  <2>1. Done(u, p)
    BY <1>1, <1>8 DEF NotDone
  <2>2. p \in Passed(v, p2)
    <3>1. CASE p2 = ListNull
      BY <1>1, <3>1 DEF Passed
    <3>2. CASE p2 # ListNull
      <4>1. Precedes(u, p, p2)
        BY <1>3, <3>2 DEF Passed
      <4> QED
        BY <1>1, <2>1, <3>2, <4>1 DEF Passed
    <3> QED
      BY <3>1, <3>2
  <2> QED
    BY <1>1, <1>3, <1>5, <2>2 DEF Ahead
<1>9. Settled(s, v, p2)
  BY <1>1, <1>2, <1>3, <1>6 DEF Settled
<1> QED
  BY <1>7, <1>8, <1>9

\* what the outer loop has left to do, in turns
Work(u, p) == Cardinality(NotDone(u)) * (Cardinality(Node) + 1) + Cardinality(Ahead(u, p))

LEMMA WorkIs ==
  ASSUME NEW a \in Nat, NEW b \in Nat, NEW a2 \in Nat, NEW b2 \in Nat, NEW c \in Nat,
         b <= c, b2 <= c, \/ a2 + 1 <= a
                          \/ a2 <= a /\ b2 + 1 <= b
  PROVE  /\ a * (c + 1) + b \in Nat /\ a2 * (c + 1) + b2 \in Nat
         /\ (a2 * (c + 1) + b2) + 1 <= a * (c + 1) + b
<1> DEFINE d == c + 1
<1>1. d \in Nat /\ b2 + 1 <= d
  OBVIOUS
<1>2. a * d \in Nat /\ a2 * d \in Nat
  <2> HIDE DEF d
  <2> QED
    BY <1>1
<1>3. a2 <= a => a2 * d <= a * d
  <2> HIDE DEF d
  <2> QED
    BY <1>1
<1>4. a2 + 1 <= a => a2 * d + d <= a * d
  <2> HIDE DEF d
  <2>1. (a2 + 1) * d = a2 * d + d
    BY <1>1
  <2>2. a2 + 1 <= a => (a2 + 1) * d <= a * d
    BY <1>1
  <2> QED
    BY <2>1, <2>2
<1> HIDE DEF d
<1>5. (a2 * d + b2) + 1 <= a * d + b
  <2> DEFINE x == a * d
             y == a2 * d
  <2>1. /\ x \in Nat /\ y \in Nat
        /\ a2 <= a => y <= x
        /\ a2 + 1 <= a => y + d <= x
    BY <1>2, <1>3, <1>4
  <2> HIDE DEF x, y
  <2>2. (y + b2) + 1 <= x + b
    BY <1>1, <2>1
  <2> QED
    BY <2>2 DEF x, y
<1> QED
  BY <1>2, <1>5 DEF d

LEMMA WorkStep ==
  ASSUME SortAssumption,
         NEW s, NEW u, NEW v, NEW p, NEW p2, Settled(s, u, p), NextOn(u, p, p2), p # ListNull,
         Passing(u, v, p, ListNull), Order(u), Order(v)
  PROVE  /\ Settled(s, v, p2)
         /\ Work(u, p) \in Nat /\ Work(v, p2) \in Nat
         /\ Work(v, p2) + 1 <= Work(u, p)
<1> DEFINE A == NotDone(u)
           A2 == NotDone(v)
           B == Ahead(u, p)
           B2 == Ahead(v, p2)
           c == Cardinality(Node)
<1>1. /\ Settled(s, v, p2)
      /\ A2 \subseteq A /\ p \notin A2
      /\ p \notin A => p \in B /\ B2 \subseteq B \ {p}
  BY SettledStep
<1>2. A \in SUBSET Node /\ A2 \in SUBSET Node /\ B \in SUBSET Node /\ B2 \in SUBSET Node
  <2>1. ToSet(u) \subseteq Node /\ ToSet(v) \subseteq Node
    BY DEF Settled, Passing, ToSet
  <2> QED
    BY <2>1 DEF NotDone, Ahead
<1>3. /\ Work(u, p) = Cardinality(A) * (c + 1) + Cardinality(B)
      /\ Work(v, p2) = Cardinality(A2) * (c + 1) + Cardinality(B2)
  BY DEF Work
<1>4. Node \in SUBSET Node
  OBVIOUS
<1> HIDE DEF A, A2, B, B2
<1>5. /\ c \in Nat /\ Cardinality(A) \in Nat /\ Cardinality(A2) \in Nat
      /\ Cardinality(B) \in Nat /\ Cardinality(B2) \in Nat
      /\ Cardinality(B) <= c /\ Cardinality(B2) <= c
  BY <1>2, <1>4, SubsetSize
<1>6. \/ Cardinality(A2) + 1 <= Cardinality(A)
      \/ Cardinality(A2) <= Cardinality(A) /\ Cardinality(B2) + 1 <= Cardinality(B)
  <2>1. CASE p \in A
    <3>1. A2 \in SUBSET (A \ {p})
      BY <1>1
    <3>2. Cardinality(A2) + 1 <= Cardinality(A)
      BY <1>2, <2>1, <3>1, SubsetSize
    <3> QED
      BY <3>2
  <2>2. CASE p \notin A
    <3>1. A2 \in SUBSET A /\ p \in B /\ B2 \in SUBSET (B \ {p})
      BY <1>1, <2>2
    <3>2. Cardinality(A2) <= Cardinality(A) /\ Cardinality(B2) + 1 <= Cardinality(B)
      BY <1>2, <3>1, SubsetSize
    <3> QED
      BY <3>2
  <2> QED
    BY <2>1, <2>2
<1> HIDE DEF c
<1>7. /\ Work(u, p) \in Nat /\ Work(v, p2) \in Nat /\ Work(v, p2) + 1 <= Work(u, p)
  BY <1>3, <1>5, <1>6, WorkIs
<1> QED
  BY <1>1, <1>7

\* the loop that started on q[l] is in the state t, and the list is u
OuterAt(q, l, t, u) ==
  Repr(t.m, [q EXCEPT ![l] = u]) /\ Settled(q[l], u, t.n)

LEMMA OuterTurnStep ==
  ASSUME SortAssumption, NEW q \in [List -> Seq(Node)], NEW l \in List,
         NEW t, NEW u, OuterAt(q, l, t, u), t.n # ListNull
  PROVE  \E v : /\ OuterAt(q, l, OuterTurn(l, t), v)
                /\ Work(u, t.n) \in Nat /\ Work(v, OuterTurn(l, t).n) \in Nat
                /\ Work(v, OuterTurn(l, t).n) + 1 <= Work(u, t.n)
                /\ OuterTurn(l, t) = [m |-> OuterTurn(l, t).m, n |-> OuterTurn(l, t).n]
<1> DEFINE r == [q EXCEPT ![l] = u]
           m == t.m
           p == t.n
           i == Inner(m, l, p)
           p2 == m.next[p]
           t2 == OuterTurn(l, t)
<1>1. Repr(m, r) /\ Settled(q[l], u, p)
  BY DEF OuterAt
<1>2. r[l] = u /\ \A v : [r EXCEPT ![l] = v] = [q EXCEPT ![l] = v]
  OBVIOUS
<1>3. i.n2 = ListNull => t2 = [m |-> i.m, n |-> p2]
  BY DEF OuterTurn
<1> HIDE DEF r, m, p, p2, i, t2
<1>4. u \in Seq(Node) /\ Injective(u) /\ p \in ToSet(u)
  BY <1>1 DEF Settled, p
<1>5. Repr(m, r) /\ l \in List /\ p \in ToSet(r[l])
  BY <1>1, <1>2, <1>4
<1>6. NextOn(u, p, p2)
  <2>1. NextOn(r[l], p, m.next[p])
    BY ONLY <1>5, NextPassed
  <2> QED
    BY <1>2, <2>1 DEF p2
<1>7. i.n2 = ListNull /\ \E v : InnerAt(r, l, p, i, v)
  BY <1>5, InnerRepr DEF i
<1>8. PICK v : InnerAt(r, l, p, i, v)
  BY <1>7
<1>9. Repr(i.m, [q EXCEPT ![l] = v]) /\ Passing(u, v, p, ListNull)
  BY <1>2, <1>7, <1>8 DEF InnerAt
<1>10. Order(u) /\ Order(v)
  BY <1>4, <1>9, OrderHolds DEF Passing
<1>11. /\ Settled(q[l], v, p2)
       /\ Work(u, p) \in Nat /\ Work(v, p2) \in Nat /\ Work(v, p2) + 1 <= Work(u, p)
  BY <1>1, <1>6, <1>9, <1>10, WorkStep DEF p
<1>12. t2.m = i.m /\ t2.n = p2 /\ t2 = [m |-> t2.m, n |-> t2.n]
  BY <1>3, <1>7
<1>13. OuterAt(q, l, t2, v)
  BY <1>9, <1>11, <1>12 DEF OuterAt
<1> QED
  BY <1>11, <1>12, <1>13 DEF t2, p

LEMMA OuterRepr ==
  ASSUME SortAssumption, NEW m, NEW q, Repr(m, q), NEW l \in List
  PROVE  /\ Outer(m, l).n = ListNull
         /\ \E u : OuterAt(q, l, Outer(m, l), u)
<1> DEFINE s == q[l]
           a == [m |-> m, n |-> m.head[l]]
           S == {t \in [m : Mem, n : Node \cup {ListNull}] : \E u : OuterAt(q, l, t, u)}
           F == [t \in S |-> OuterTurn(l, t)]
           End == {t \in S : t.n = ListNull}
           Can == [t \in S |-> {b \in Nat : \E u : OuterAt(q, l, t, u) /\ Work(u, t.n) <= b}]
           turn[k \in Nat] == IF k = 0 THEN a ELSE OuterTurn(l, turn[k - 1])
<1>1. /\ q \in [List -> Seq(Node)] /\ s \in Seq(Node) /\ Injective(s) /\ m \in Mem
      /\ [q EXCEPT ![l] = s] = q
  BY ReprList DEF Repr
<1>2. /\ m.head[l] \in ToSet(s) \cup {ListNull} /\ Passed(s, m.head[l]) = {}
      /\ ToSet(s) \subseteq Node
  <2>1. ToSet(s) \subseteq Node
    BY <1>1 DEF ToSet
  <2> QED
    BY <2>1, HeadPassed
<1>3. OuterAt(q, l, a, s)
  <2>1. Settled(s, s, m.head[l])
    <3> HIDE DEF s
    <3> QED
      BY <1>1, <1>2 DEF Settled, s
  <2> QED
    BY <1>1, <2>1 DEF OuterAt
<1>4. a \in S
  <2>1. a \in [m : Mem, n : Node \cup {ListNull}]
    BY <1>1, <1>2
  <2> HIDE DEF a
  <2> QED
    BY <1>3, <2>1
<1>5. ASSUME NEW t \in S PROVE OuterTurn(l, t) \in S
  <2>1. CASE t.n = ListNull
    BY <2>1 DEF OuterTurn
  <2>2. CASE t.n # ListNull
    <3>1. PICK u : OuterAt(q, l, t, u)
      OBVIOUS
    <3> DEFINE t2 == OuterTurn(l, t)
    <3>2. PICK v : OuterAt(q, l, t2, v) /\ t2 = [m |-> t2.m, n |-> t2.n]
      BY <1>1, <2>2, <3>1, OuterTurnStep
    <3> HIDE DEF t2
    <3>4. t2.m \in Mem /\ t2.n \in Node \cup {ListNull}
      <4>1. Repr(t2.m, [q EXCEPT ![l] = v]) /\ Settled(s, v, t2.n)
        BY <3>2 DEF OuterAt, t2
      <4>2. ToSet(v) = ToSet(s) /\ t2.n \in ToSet(v) \cup {ListNull}
        BY <4>1 DEF Settled
      <4> QED
        BY <1>2, <4>1, <4>2 DEF Repr
    <3>5. t2 \in [m : Mem, n : Node \cup {ListNull}]
      BY <3>2, <3>4
    <3> QED
      BY <3>2, <3>5 DEF t2
  <2> QED
    BY <2>1, <2>2
<1>6. StepOn(S, F)
  BY <1>5 DEF StepOn
<1>7. LoopStates(a, F, turn) /\ turn \in [Nat -> S]
  <2>1. PICK g \in [Nat -> S] : LoopStates(a, F, g)
    <3> HIDE DEF F, a, S
    <3>1. LoopDefined(S, a, F)
      BY <1>4, <1>6, Loops
    <3> QED
      BY <3>1 DEF LoopDefined
  <2>2. g = [k \in Nat |-> IF k = 0 THEN a ELSE OuterTurn(l, g[k - 1])]
    <3>1. \A k \in Nat : k # 0 => F[g[k - 1]] = OuterTurn(l, g[k - 1])
      BY <2>1
    <3> HIDE DEF F, a, S
    <3> QED
      BY <2>1, <3>1 DEF LoopStates
  <2>3. turn = [k \in Nat |-> IF k = 0 THEN a ELSE OuterTurn(l, turn[k - 1])]
    BY <2>2
  <2> HIDE DEF F, a, S, turn
  <2>4. \A k \in Nat : turn[k] = IF k = 0 THEN a ELSE OuterTurn(l, turn[k - 1])
    BY <2>3
  <2>5. \A k \in Nat : turn[k] = g[k]
    <3> DEFINE P == {k \in Nat : turn[k] = g[k]}
    <3>1. 0 \in P
      BY <2>2, <2>4
    <3>2. ASSUME NEW k \in P PROVE k + 1 \in P
      <4>1. k + 1 \in Nat /\ k + 1 # 0 /\ (k + 1) - 1 = k
        OBVIOUS
      <4>2. turn[k + 1] = OuterTurn(l, turn[k]) /\ g[k + 1] = OuterTurn(l, g[k])
        BY <2>2, <2>4, <4>1
      <4> QED
        BY <4>1, <4>2
    <3>3. P \in SUBSET Nat
      OBVIOUS
    <3> HIDE DEF P
    <3>4. P = Nat
      BY <3>1, <3>2, <3>3, Induction
    <3> QED
      BY <3>4 DEF P
  <2>6. turn = g
    BY <2>2, <2>3, <2>5
  <2> QED
    BY <2>1, <2>6
<1>10. Outer(m, l) = turn[OuterTurns]
  BY DEF Outer
<1>12. OuterTurns \in Can[a]
  <2> DEFINE A == Cardinality(NotDone(s))
             B == Cardinality(Ahead(s, m.head[l]))
             c == Cardinality(Node)
             d == c + 1
  <2>1. NotDone(s) \in SUBSET Node /\ Ahead(s, m.head[l]) \in SUBSET Node /\ Node \in SUBSET Node
    BY <1>2 DEF NotDone, Ahead
  <2>2. c \in Nat /\ A \in Nat /\ B \in Nat /\ A <= c /\ B <= c
    BY <2>1, SubsetSize
  <2>3. Work(s, m.head[l]) = A * d + B /\ OuterTurns = d * d
    BY DEF Work, OuterTurns
  <2> HIDE DEF A, B, c
  <2>4. d \in Nat /\ A + 1 <= d /\ B <= d
    BY <2>2
  <2> HIDE DEF d
  <2>5. (A + 1) * d <= d * d /\ (A + 1) * d = A * d + d /\ A * d \in Nat /\ d * d \in Nat
    BY <2>2, <2>4
  <2>6. OuterTurns \in Nat /\ Work(s, m.head[l]) <= OuterTurns
    BY <2>2, <2>3, <2>4, <2>5
  <2>7. a.n = m.head[l]
    OBVIOUS
  <2> HIDE DEF a
  <2> QED
    BY <1>3, <1>4, <2>6, <2>7
<1>13. \A t \in S : t \in End => F[t] = t
  BY DEF OuterTurn
<1>14. ASSUME NEW t \in S, t \notin End, NEW b \in Can[t]
       PROVE  b - 1 \in Can[F[t]]
  <2>1. F[t] = OuterTurn(l, t) /\ F[t] \in S /\ t.n # ListNull /\ b \in Nat
    BY <1>5, <1>14
  <2>2. PICK u : OuterAt(q, l, t, u) /\ Work(u, t.n) <= b
    OBVIOUS
  <2> DEFINE t2 == OuterTurn(l, t)
  <2>3. PICK v : /\ OuterAt(q, l, t2, v)
                 /\ Work(u, t.n) \in Nat /\ Work(v, t2.n) \in Nat
                 /\ Work(v, t2.n) + 1 <= Work(u, t.n)
    BY <1>1, <2>1, <2>2, OuterTurnStep
  <2>4. b - 1 \in Nat /\ Work(v, t2.n) <= b - 1
    BY <2>1, <2>2, <2>3
  <2>5. Can[F[t]] = {c \in Nat : \E w : OuterAt(q, l, t2, w) /\ Work(w, t2.n) <= c}
    BY <2>1
  <2> HIDE DEF Can, F, t2
  <2> QED
    BY <2>3, <2>4, <2>5
<1>15. Can \in [S -> SUBSET Nat]
  OBVIOUS
<1>16. turn[OuterTurns] \in End
  <2> HIDE DEF S, F, End, Can, a, turn
  <2> QED
    BY <1>4, <1>6, <1>7, <1>12, <1>13, <1>14, <1>15, LoopEnds
<1> QED
  BY <1>10, <1>16

-----------------------------------------------------------------------------
(* mowgli_list_sort.                                                       *)

LEMMA SortRepr ==
  ASSUME NEW m, NEW q, Repr(m, q), NEW l \in List
  PROVE  /\ Outer(m, l).n = ListNull
         /\ \E u : /\ Repr(Outer(m, l).m, [q EXCEPT ![l] = u])
                   /\ u \in Seq(Node) /\ Sorted(u)
                   /\ ToSet(u) = ToSet(q[l]) /\ Len(u) = Len(q[l])
<1> DEFINE t == Outer(m, l)
<1>1. SortAssumption
  BY SortAssumption
<1>2. t.n = ListNull /\ \E u : OuterAt(q, l, t, u)
  BY <1>1, OuterRepr
<1> HIDE DEF t
<1>3. PICK u : Repr(t.m, [q EXCEPT ![l] = u]) /\ Settled(q[l], u, ListNull)
  BY <1>2 DEF OuterAt
<1>4. /\ u \in Seq(Node) /\ Injective(u) /\ ToSet(u) = ToSet(q[l]) /\ Len(u) = Len(q[l])
      /\ \A x \in ToSet(u) : Done(u, x)
  BY <1>3 DEF Settled, Passed
<1>5. Order(u)
  BY <1>4, OrderHolds
<1>6. Sorted(u)
  <2> SUFFICES ASSUME NEW i \in DOMAIN u, NEW j \in DOMAIN u, i < j
               PROVE  Key(u[i]) <= Key(u[j])
    BY DEF Sorted
  <2>1. u[i] \in ToSet(u) /\ u[j] \in ToSet(u)
    BY DEF ToSet
  <2>2. Precedes(u, u[i], u[j])
    BY DEF Precedes
  <2>3. ~(Key(u[j]) < Key(u[i]))
    BY <1>4, <1>5, <2>1, <2>2 DEF Done, Order
  <2>4. Key(u[i]) \in Int /\ Key(u[j]) \in Int
    <3>1. u[i] \in Node /\ u[j] \in Node
      BY <1>4, <2>1 DEF ToSet
    <3> QED
      BY <1>1, <3>1 DEF SortAssumption
  <2> QED
    BY <2>3, <2>4
<1> QED
  BY <1>2, <1>3, <1>4, <1>6 DEF t

LEMMA SortStep ==
  ASSUME ListInv, NEW l \in List, Sort(l)
  PROVE  ListInv'
<1> DEFINE m == mowgli_list_sort(mem, l)
<1>1. Repr(mem, seq)
  BY DEF ListInv
<1>2. PICK u : Repr(m, [seq EXCEPT ![l] = u])
  BY <1>1, SortRepr DEF mowgli_list_sort
<1>3. Path(m.next, m.head[l]) = u
  <2> DEFINE r == [seq EXCEPT ![l] = u]
  <2>1. r[l] = u
    BY <1>1 DEF Repr
  <2>2. Repr(m, r)
    BY <1>2
  <2> HIDE DEF r, m
  <2> QED
    BY <2>1, <2>2, ReprPaths
<1>4. mem' = m /\ seq' = [seq EXCEPT ![l] = u]
  BY <1>3 DEF Sort, Update
<1> QED
  BY <1>2, <1>4 DEF ListInv

LEMMA SortNextInv ==
  ASSUME ~ConcatEmpty, ListInv, [SortNext]_listVars
  PROVE  ListInv'
<1>1. CASE UNCHANGED listVars
  BY <1>1 DEF ListInv, listVars
<1>2. CASE ListNext
  BY <1>2, ListNextInv
<1>3. ASSUME NEW l \in List, Sort(l) PROVE ListInv'
  BY <1>3, SortStep
<1> QED
  BY <1>1, <1>2, <1>3 DEF SortNext

(* mowgli_list_sort returns, and what it leaves is the nodes it found in   *)
(* the order of their keys, on whatever list the other operations of       *)
(* list.c built: each of its two traversals moves the nodes the other      *)
(* follows, and neither loses its way.                                     *)
THEOREM SortsListHolds ==
  ASSUME ~ConcatEmpty
  PROVE  SortSpec => []SortsList
<1>1. ListInit => ListInv
  BY ListInitInv
<1>2. ListInv /\ [SortNext]_listVars => ListInv'
  BY SortNextInv
<1>3. ListInv => SortsList
  <2> SUFFICES ASSUME ListInv, NEW l \in List
               PROVE  LET t == Outer(mem, l)
                          s == Path(t.m.next, t.m.head[l])
                      IN  /\ t.n = ListNull
                          /\ Sorted(s)
                          /\ ToSet(s) = On(l)
                          /\ Len(s) = Len(seq[l])
    BY DEF SortsList
  <2> DEFINE t == Outer(mem, l)
             s == Path(t.m.next, t.m.head[l])
  <2>1. Repr(mem, seq)
    BY DEF ListInv
  <2>2. t.n = ListNull
    BY <2>1, SortRepr
  <2>3. PICK u : /\ Repr(t.m, [seq EXCEPT ![l] = u]) /\ Sorted(u)
                 /\ ToSet(u) = ToSet(seq[l]) /\ Len(u) = Len(seq[l])
    BY <2>1, SortRepr
  <2>4. s = u
    <3> DEFINE r == [seq EXCEPT ![l] = u]
    <3>1. r[l] = u
      BY <2>1 DEF Repr
    <3>2. Repr(t.m, r)
      BY <2>3
    <3> HIDE DEF r, t
    <3> QED
      BY <3>1, <3>2, ReprPaths
  <2> HIDE DEF t, s
  <2> QED
    BY <2>2, <2>3, <2>4 DEF On, t, s
<1> QED
  BY <1>1, <1>2, <1>3, PTL DEF SortSpec

(* Sorting is one more operation after which every list is the sequence    *)
(* its callers have in mind, from both ends.                               *)
THEOREM SortedListsAreSequences ==
  ASSUME ~ConcatEmpty
  PROVE  SortSpec => []RepresentsSeq
<1>1. ListInit => ListInv
  BY ListInitInv
<1>2. ListInv /\ [SortNext]_listVars => ListInv'
  BY SortNextInv
<1>3. ListInv => RepresentsSeq
  BY ListInvSeq
<1> QED
  BY <1>1, <1>2, <1>3, PTL DEF SortSpec
-----------------------------------------------------------------------------
(* Queues.                                                                 *)

-----------------------------------------------------------------------------
QPointer == QAll \cup {QNull}

QMem(D) == [QAll -> [next : QPointer, prev : QPointer, data : D]]

\* the pointers of the nodes of s say their order, both ways
QLinks(m, s) ==
  \A i \in 1 .. Len(s) :
    /\ m[s[i]].next = IF i = Len(s) THEN QNull ELSE s[i + 1]
    /\ m[s[i]].prev = IF i = 1 THEN QNull ELSE s[i - 1]

QRepr(m, s, D) ==
  /\ m \in QMem(D) /\ QData \subseteq D /\ QFresh.data \in D
  /\ s \in Seq(QAll) /\ Injective(s) /\ QLinks(m, s)

QueueInv ==
  /\ QRepr(qmem, queue, QData \cup {QFresh.data})
  /\ QAnchor \in ToSet(queue)

LEMMA QNullApart == QueueAssumption => QNull \notin QAll /\ QAnchor \in QAll /\ IsFiniteSet(QAll)
<1> SUFFICES ASSUME QueueAssumption PROVE QNull \notin QAll /\ QAnchor \in QAll /\ IsFiniteSet(QAll)
  OBVIOUS
<1>1. IsFiniteSet(QNode \cup {QAnchor})
  BY FS_AddElement DEF QueueAssumption
<1> QED
  BY <1>1 DEF QAll, QueueAssumption, QNull

\* what memory looks like with n between p and x
QInserted(m, m2, n, p, x) ==
  \A y \in QAll : /\ m2[y].next = IF y = n THEN x ELSE IF y = p THEN n ELSE m[y].next
                  /\ m2[y].prev = IF y = n THEN p ELSE IF y = x THEN n ELSE m[y].prev

LEMMA QInsertRepr ==
  ASSUME QueueAssumption, NEW D, NEW m, NEW s, QRepr(m, s, D),
         NEW n \in QAll, \A j \in 1 .. Len(s) : s[j] # n,
         NEW i \in 1 .. Len(s) + 1, NEW t \in Seq(QAll), Len(t) = Len(s) + 1,
         \A j \in 1 .. Len(s) + 1 : t[j] = IF j < i THEN s[j] ELSE IF j = i THEN n ELSE s[j - 1],
         NEW m2 \in QMem(D),
         QInserted(m, m2, n, IF i = 1 THEN QNull ELSE s[i - 1],
                             IF i = Len(s) + 1 THEN QNull ELSE s[i])
  PROVE  QRepr(m2, t, D)
<1> DEFINE N == Len(s)
           p == IF i = 1 THEN QNull ELSE s[i - 1]
           x == IF i = N + 1 THEN QNull ELSE s[i]
<1>1. /\ s \in Seq(QAll) /\ N \in Nat /\ DOMAIN s = 1 .. N /\ \A j \in 1 .. N : s[j] \in QAll
      /\ i \in Nat /\ 1 <= i /\ i <= N + 1 /\ DOMAIN t = 1 .. N + 1
  BY DEF QRepr
<1>2. \A j, k \in 1 .. N : s[j] = s[k] => j = k
  BY <1>1 DEF QRepr, Injective
<1>3. QNull \notin QAll
  BY QNullApart
<1>4. \A j \in 1 .. N : /\ m[s[j]].next = IF j = N THEN QNull ELSE s[j + 1]
                        /\ m[s[j]].prev = IF j = 1 THEN QNull ELSE s[j - 1]
  BY DEF QRepr, QLinks
<1>5. \A j \in 1 .. N + 1 : t[j] = IF j < i THEN s[j] ELSE IF j = i THEN n ELSE s[j - 1]
  OBVIOUS
<1>6. \A y \in QAll : /\ m2[y].next = IF y = n THEN x ELSE IF y = p THEN n ELSE m[y].next
                      /\ m2[y].prev = IF y = n THEN p ELSE IF y = x THEN n ELSE m[y].prev
  BY DEF QInserted
<1>7. Injective(t)
  <2>1. \A j, k \in 1 .. N + 1 : t[j] = t[k] => j = k
    <3> SUFFICES ASSUME NEW j \in 1 .. N + 1, NEW k \in 1 .. N + 1, t[j] = t[k] PROVE j = k
      OBVIOUS
    <3>1. (j < i => j \in 1 .. N) /\ (j > i => j - 1 \in 1 .. N)
          /\ (k < i => k \in 1 .. N) /\ (k > i => k - 1 \in 1 .. N)
      BY <1>1
    <3> QED
      BY <1>1, <1>2, <1>5, <3>1, SMTT(30)
  <2> QED
    BY <1>1, <2>1 DEF Injective
<1>8. ASSUME NEW j \in 1 .. N + 1
      PROVE  /\ m2[t[j]].next = IF j = N + 1 THEN QNull ELSE t[j + 1]
             /\ m2[t[j]].prev = IF j = 1 THEN QNull ELSE t[j - 1]
  <2>1. CASE j = i
    <3>1. t[j] = n
      BY <1>5, <2>1
    <3>2. m2[n].next = x /\ m2[n].prev = p
      BY <1>6
    <3>3. j # N + 1 => t[j + 1] = s[i]
      <4> SUFFICES ASSUME j # N + 1 PROVE t[j + 1] = s[i]
        OBVIOUS
      <4>1. j + 1 \in 1 .. N + 1 /\ ~(j + 1 < i) /\ j + 1 # i /\ (j + 1) - 1 = i
        BY <1>1, <2>1
      <4> QED
        BY <1>5, <4>1
    <3>4. j # 1 => t[j - 1] = s[i - 1]
      <4> SUFFICES ASSUME j # 1 PROVE t[j - 1] = s[i - 1]
        OBVIOUS
      <4>1. j - 1 \in 1 .. N + 1 /\ j - 1 < i /\ j - 1 = i - 1
        BY <1>1, <2>1
      <4> QED
        BY <1>5, <4>1
    <3> QED
      BY <2>1, <3>1, <3>2, <3>3, <3>4
  <2>2. CASE j < i
    <3>1. j \in 1 .. N /\ t[j] = s[j] /\ s[j] \in QAll /\ s[j] # n /\ j # N + 1
      BY <1>1, <1>5, <2>2
    <3>2. s[j] = p <=> j = i - 1
      <4>1. i # 1 /\ i - 1 \in 1 .. N
        BY <1>1, <2>2
      <4> QED
        BY <1>2, <3>1, <4>1
    <3>3. s[j] # x
      <4>1. i # N + 1 => i \in 1 .. N
        BY <1>1
      <4> QED
        BY <1>2, <1>3, <2>2, <3>1, <4>1
    <3>4. m2[s[j]].next = (IF j = i - 1 THEN n ELSE m[s[j]].next) /\ m2[s[j]].prev = m[s[j]].prev
      BY <1>6, <3>1, <3>2, <3>3
    <3>5. t[j + 1] = IF j = i - 1 THEN n ELSE s[j + 1]
      <4>1. j + 1 \in 1 .. N + 1 /\ (j = i - 1 => j + 1 = i) /\ (j # i - 1 => j + 1 < i)
        BY <1>1, <2>2
      <4> QED
        BY <1>5, <4>1
    <3>6. j # 1 => t[j - 1] = s[j - 1]
      <4>1. j # 1 => j - 1 \in 1 .. N + 1 /\ j - 1 < i
        BY <1>1, <2>2
      <4> QED
        BY <1>5, <4>1
    <3>7. j = N => j = i - 1
      BY <1>1, <2>2
    <3> QED
      BY <1>4, <3>1, <3>4, <3>5, <3>6, <3>7
  <2>3. CASE j > i
    <3> DEFINE k == j - 1
    <3>1. k \in 1 .. N /\ t[j] = s[k] /\ s[k] \in QAll /\ s[k] # n /\ j # 1
          /\ (k = N <=> j = N + 1) /\ k + 1 = j /\ i # N + 1 /\ i \in 1 .. N
      <4>1. j \in Nat /\ ~(j < i) /\ j # i
        BY <1>1, <2>3
      <4>2. t[j] = s[j - 1]
        BY <1>5, <4>1
      <4> QED
        BY <1>1, <2>3, <4>2
    <3>2. x = s[i] /\ (s[k] = x <=> k = i)
      BY <1>2, <3>1
    <3>3. s[k] # p
      <4>1. i # 1 => i - 1 \in 1 .. N /\ k # i - 1
        BY <1>1, <2>3
      <4> QED
        BY <1>2, <1>3, <3>1, <4>1
    <3>4. m2[s[k]].next = m[s[k]].next /\ m2[s[k]].prev = IF k = i THEN n ELSE m[s[k]].prev
      BY <1>6, <3>1, <3>2, <3>3
    <3>5. j # N + 1 => t[j + 1] = s[k + 1]
      <4>1. j # N + 1 => j + 1 \in 1 .. N + 1 /\ ~(j + 1 < i) /\ j + 1 # i /\ (j + 1) - 1 = k + 1
        <5>1. N \in Nat /\ i \in Nat /\ j \in Nat /\ j <= N + 1 /\ 1 <= j /\ i < j
          BY <1>1, <2>3
        <5> QED
          BY ONLY <5>1 DEF k
      <4> QED
        BY <1>5, <4>1
    <3>6. t[j - 1] = IF k = i THEN n ELSE s[k - 1]
      <4>1. j - 1 \in 1 .. N + 1 /\ ~(j - 1 < i) /\ (j - 1) - 1 = k - 1 /\ j - 1 = k
        BY <1>1, <2>3
      <4> QED
        BY <1>5, <4>1
    <3>7. k = 1 => k = i
      BY <1>1, <2>3
    <3> HIDE DEF k
    <3> QED
      BY <1>4, <3>1, <3>4, <3>5, <3>6, <3>7
  <2> QED
    BY <1>1, <2>1, <2>2, <2>3
<1> QED
  BY <1>1, <1>7, <1>8 DEF QRepr, QLinks

\* what a node's unlinking does to memory
LEMMA QUnlinkFields ==
  ASSUME QueueAssumption, NEW D, QFresh.data \in D, NEW m \in QMem(D), NEW n \in QAll
  PROVE  LET p == m[n].prev
             x == m[n].next
             m2 == QUnlink(m, n)
         IN  /\ m2 \in QMem(D)
             /\ \A y \in QAll :
                  /\ m2[y].next = IF y = n THEN QNull ELSE IF y = p THEN x ELSE m[y].next
                  /\ m2[y].prev = IF y = n THEN QNull ELSE IF y = x THEN p ELSE m[y].prev
<1> DEFINE p == m[n].prev
           x == m[n].next
           R == [next : QPointer, prev : QPointer, data : D]
           m1 == QSetNext(m, p, x)
           m2 == QSetPrev(m1, x, p)
           m3 == [m2 EXCEPT ![n] = QFresh]
<1>1. p \in QPointer /\ x \in QPointer /\ m \in [QAll -> R] /\ QNull \notin QAll /\ QNull \in QPointer
  BY QNullApart DEF QMem, QPointer
<1>2. /\ m1 \in [QAll -> R]
      /\ \A y \in QAll : /\ m1[y].next = IF y = p THEN x ELSE m[y].next
                         /\ m1[y].prev = m[y].prev
  <2> HIDE DEF p, x
  <2>1. CASE p = QNull
    BY <1>1, <2>1 DEF QSetNext
  <2>2. CASE p # QNull
    <3>1. m1 = [m EXCEPT ![p].next = x] /\ p \in QAll
      BY <1>1, <2>2 DEF QSetNext, QPointer
    <3> HIDE DEF m1
    <3> QED
      BY <1>1, <3>1
  <2> QED
    BY <2>1, <2>2
<1>3. /\ m2 \in [QAll -> R]
      /\ \A y \in QAll : /\ m2[y].next = m1[y].next
                         /\ m2[y].prev = IF y = x THEN p ELSE m1[y].prev
  <2> HIDE DEF p, x, m1
  <2>1. CASE x = QNull
    BY <1>1, <1>2, <2>1 DEF QSetPrev
  <2>2. CASE x # QNull
    <3>1. m2 = [m1 EXCEPT ![x].prev = p] /\ x \in QAll
      BY <1>1, <2>2 DEF QSetPrev, QPointer
    <3> HIDE DEF m2
    <3> QED
      BY <1>1, <1>2, <3>1
  <2> QED
    BY <2>1, <2>2
<1> HIDE DEF m2, m1
<1>4. QFresh \in R /\ QFresh.next = QNull /\ QFresh.prev = QNull
  BY <1>1 DEF QFresh
<1>5. /\ m3 \in [QAll -> R]
      /\ \A y \in QAll : m3[y] = IF y = n THEN QFresh ELSE m2[y]
  <2> HIDE DEF R
  <2> QED
    BY <1>3, <1>4
<1>6. QUnlink(m, n) = m3
  BY DEF QUnlink, m1, m2
<1> HIDE DEF m3, p, x
<1>7. \A y \in QAll : /\ m3[y].next = IF y = n THEN QNull ELSE IF y = p THEN x ELSE m[y].next
                      /\ m3[y].prev = IF y = n THEN QNull ELSE IF y = x THEN p ELSE m[y].prev
  BY <1>2, <1>3, <1>4, <1>5
<1> QED
  BY <1>5, <1>6, <1>7 DEF QMem, p, x

LEMMA QUnlinkRepr ==
  ASSUME QueueAssumption, NEW D, NEW m, NEW s, QRepr(m, s, D), NEW i \in 1 .. Len(s),
         NEW t \in Seq(QAll), Len(t) = Len(s) - 1,
         \A j \in 1 .. Len(s) - 1 : t[j] = IF j < i THEN s[j] ELSE s[j + 1]
  PROVE  QRepr(QUnlink(m, s[i]), t, D)
<1> DEFINE N == Len(s)
           n == s[i]
           m2 == QUnlink(m, n)
           p == IF i = 1 THEN QNull ELSE s[i - 1]
           x == IF i = N THEN QNull ELSE s[i + 1]
<1>1. /\ s \in Seq(QAll) /\ N \in Nat /\ DOMAIN s = 1 .. N /\ \A j \in 1 .. N : s[j] \in QAll
      /\ i \in Nat /\ 1 <= i /\ i <= N /\ DOMAIN t = 1 .. N - 1 /\ m \in QMem(D)
      /\ QFresh.data \in D
  BY DEF QRepr
<1>2. \A j, k \in 1 .. N : s[j] = s[k] => j = k
  BY <1>1 DEF QRepr, Injective
<1>3. QNull \notin QAll
  BY QNullApart
<1>4. \A j \in 1 .. N : /\ m[s[j]].next = IF j = N THEN QNull ELSE s[j + 1]
                        /\ m[s[j]].prev = IF j = 1 THEN QNull ELSE s[j - 1]
  BY DEF QRepr, QLinks
<1>5. \A j \in 1 .. N - 1 : t[j] = IF j < i THEN s[j] ELSE s[j + 1]
  OBVIOUS
<1>6. /\ m2 \in QMem(D)
      /\ \A y \in QAll : y # n => /\ m2[y].next = IF y = p THEN x ELSE m[y].next
                                  /\ m2[y].prev = IF y = x THEN p ELSE m[y].prev
  <2>1. n \in QAll /\ m[n].prev = p /\ m[n].next = x
    BY <1>1, <1>4
  <2> HIDE DEF n, p, x
  <2>2. QFresh.data \in D /\ m \in QMem(D) /\ n \in QAll /\ QueueAssumption
    BY <1>1, <2>1
  <2>3. /\ QUnlink(m, n) \in QMem(D)
        /\ \A y \in QAll :
             /\ QUnlink(m, n)[y].next = IF y = n THEN QNull ELSE IF y = m[n].prev THEN m[n].next ELSE m[y].next
             /\ QUnlink(m, n)[y].prev = IF y = n THEN QNull ELSE IF y = m[n].next THEN m[n].prev ELSE m[y].prev
    BY ONLY <2>2, QUnlinkFields
  <2> QED
    BY <2>1, <2>3
<1>7. Injective(t)
  <2>1. \A j, k \in 1 .. N - 1 : t[j] = t[k] => j = k
    <3> SUFFICES ASSUME NEW j \in 1 .. N - 1, NEW k \in 1 .. N - 1, t[j] = t[k] PROVE j = k
      OBVIOUS
    <3>1. j \in 1 .. N /\ j + 1 \in 1 .. N /\ k \in 1 .. N /\ k + 1 \in 1 .. N
      BY <1>1
    <3> QED
      BY <1>1, <1>2, <1>5, <3>1
  <2> QED
    BY <1>1, <2>1 DEF Injective
<1>8. ASSUME NEW j \in 1 .. N - 1
      PROVE  /\ m2[t[j]].next = IF j = N - 1 THEN QNull ELSE t[j + 1]
             /\ m2[t[j]].prev = IF j = 1 THEN QNull ELSE t[j - 1]
  <2> DEFINE k == IF j < i THEN j ELSE j + 1
  <2>1. k \in 1 .. N /\ k # i /\ t[j] = s[k] /\ s[k] \in QAll /\ s[k] # n
    BY <1>1, <1>2, <1>5
  <2>2. s[k] = p <=> k = i - 1
    <3>1. i # 1 => i - 1 \in 1 .. N
      BY <1>1
    <3>2. i = 1 => k # i - 1
      BY <1>1
    <3> HIDE DEF k
    <3> QED
      BY <1>1, <1>2, <1>3, <2>1, <3>1, <3>2
  <2>3. s[k] = x <=> k = i + 1
    <3>1. i # N => i + 1 \in 1 .. N
      BY <1>1
    <3>2. i = N => k # i + 1
      BY <1>1
    <3> HIDE DEF k
    <3> QED
      BY <1>1, <1>2, <1>3, <2>1, <3>1, <3>2
  <2>4. m2[s[k]].next = (IF k = i - 1 THEN x ELSE m[s[k]].next)
        /\ m2[s[k]].prev = (IF k = i + 1 THEN p ELSE m[s[k]].prev)
    <3> HIDE DEF k, x, p, n, m2
    <3> QED
      BY <1>6, <2>1, <2>2, <2>3
  <2>5. j # N - 1 => t[j + 1] = IF k = i - 1 THEN s[i + 1] ELSE s[k + 1]
    <3>1. j # N - 1 => j + 1 \in 1 .. N - 1
      BY <1>1
    <3>2. k = i - 1 => j + 1 = i
      BY <1>1
    <3>3. k # i - 1 => (j < i => j + 1 < i /\ k = j) /\ (~(j < i) => ~(j + 1 < i) /\ (j + 1) + 1 = k + 1)
      BY <1>1
    <3> QED
      BY <1>1, <1>5, <3>1, <3>2, <3>3
  <2>6. j # 1 => t[j - 1] = IF k = i + 1 THEN s[i - 1] ELSE s[k - 1]
    <3>1. j # 1 => j - 1 \in 1 .. N - 1
      BY <1>1
    <3>2. k = i + 1 => j = i /\ j - 1 < i
      BY <1>1
    <3>3. k # i + 1 => (j < i => j - 1 < i /\ k = j) /\ (~(j < i) => ~(j - 1 < i) /\ (j - 1) + 1 = k - 1)
      BY <1>1
    <3> QED
      BY <1>1, <1>5, <3>1, <3>2, <3>3
  <2>7. /\ j = N - 1 => (k = i - 1 /\ i = N) \/ (k # i - 1 /\ k = N)
        /\ j # N - 1 => (k = i - 1 /\ i # N) \/ (k # i - 1 /\ k # N)
        /\ j = 1 => (k = i + 1 /\ i = 1) \/ (k # i + 1 /\ k = 1)
        /\ j # 1 => (k = i + 1 /\ i # 1) \/ (k # i + 1 /\ k # 1)
    BY <1>1
  <2> HIDE DEF k, m2
  <2>8. m2[t[j]].next = IF j = N - 1 THEN QNull ELSE t[j + 1]
    BY <1>4, <2>1, <2>4, <2>5, <2>7
  <2>9. m2[t[j]].prev = IF j = 1 THEN QNull ELSE t[j - 1]
    BY <1>4, <2>1, <2>4, <2>6, <2>7
  <2> QED
    BY <2>8, <2>9
<1> QED
  BY <1>1, <1>6, <1>7, <1>8 DEF QRepr, QLinks
-----------------------------------------------------------------------------
(* Walks.                                                                  *)

QLink == [QAll -> QPointer]

\* the nodes of s follow each other along link, to the end
QLinked(link, s) ==
  \A i \in 1 .. Len(s) : link[s[i]] = IF i = Len(s) THEN QNull ELSE s[i + 1]

\* a turn of a walk
QStep(link, s) == IF link[Last(s)] = QNull THEN s ELSE Append(s, link[Last(s)])

(* A walk visits the nodes that follow each other, to the last.            *)
LEMMA QWalkIs ==
  ASSUME QueueAssumption, NEW link \in QLink, NEW s \in Seq(QAll), Injective(s), Len(s) # 0,
         QLinked(link, s)
  PROVE  QWalk(link, s[1]) = s
<1> DEFINE N == Len(s)
           C == Cardinality(QAll)
           S == {u \in Seq(QAll) : Len(u) # 0}
           a == <<s[1]>>
           F == [u \in S |-> QStep(link, u)]
           walk[k \in Nat] ==
             IF k = 0 THEN <<s[1]>>
             ELSE LET u == walk[k - 1]
                  IN  IF link[Last(u)] = QNull THEN u ELSE Append(u, link[Last(u)])
<1>1. /\ N \in Nat /\ N >= 1 /\ DOMAIN s = 1 .. N /\ \A i \in 1 .. N : s[i] \in QAll
      /\ QNull \notin QAll /\ C \in Nat /\ N <= C
  BY QNullApart, InjectiveLen
<1>2. ASSUME NEW u \in S PROVE QStep(link, u) \in S
  <2>1. u \in Seq(QAll) /\ Len(u) \in Nat /\ Len(u) # 0 /\ Last(u) \in QAll
    BY DEF Last
  <2>2. link[Last(u)] = QNull \/ link[Last(u)] \in QAll
    BY <2>1 DEF QLink, QPointer
  <2> QED
    BY <2>1, <2>2 DEF QStep
<1>3. PICK g \in [Nat -> S] : LoopStates(a, F, g)
  <2>1. StepOn(S, F) /\ a \in S
    BY <1>1, <1>2 DEF StepOn
  <2> HIDE DEF F, a, S
  <2>2. LoopDefined(S, a, F)
    BY <2>1, Loops
  <2> QED
    BY <2>2 DEF LoopDefined
<1>4. g = [k \in Nat |-> IF k = 0 THEN a ELSE QStep(link, g[k - 1])]
  <2>1. \A k \in Nat : k # 0 => F[g[k - 1]] = QStep(link, g[k - 1])
    BY <1>3
  <2> HIDE DEF F, a, S
  <2> QED
    BY <1>3, <2>1 DEF LoopStates
<1>5. g = [k \in Nat |->
             IF k = 0 THEN <<s[1]>>
             ELSE LET u == g[k - 1]
                  IN  IF link[Last(u)] = QNull THEN u ELSE Append(u, link[Last(u)])]
  BY <1>4 DEF QStep
<1>6. walk = [k \in Nat |->
             IF k = 0 THEN <<s[1]>>
             ELSE LET u == walk[k - 1]
                  IN  IF link[Last(u)] = QNull THEN u ELSE Append(u, link[Last(u)])]
  BY <1>5
<1>7. QWalk(link, s[1]) = walk[C]
  BY DEF QWalk, Walk
<1> HIDE DEF walk, F, S
<1>8. walk[0] = <<s[1]>> /\ \A k \in Nat : walk[k + 1] = QStep(link, walk[k])
  <2>1. \A k \in Nat : k + 1 \in Nat /\ k + 1 # 0 /\ (k + 1) - 1 = k
    OBVIOUS
  <2> QED
    BY <1>6, <2>1 DEF QStep
<1> DEFINE T(k, c) == (c = k + 1 \/ c = N) /\ walk[k] = SubSeq(s, 1, c)
           P == {k \in Nat : \E c \in 1 .. N : T(k, c)}
<1>9. 0 \in P
  <2>1. SubSeq(s, 1, 1) = <<s[1]>> /\ 1 \in 1 .. N /\ 1 = 0 + 1
    <3>1. SubSeq(s, 1, 1) \in Seq(QAll) /\ Len(SubSeq(s, 1, 1)) = 1 /\ SubSeq(s, 1, 1)[1] = s[1]
      <4>1. s \in Seq(QAll) /\ 1 \in Nat /\ 1 <= Len(s) /\ 1 \in 1 .. 1
        BY <1>1
      <4> QED
        BY ONLY <4>1, PrefixProperties
    <3>2. N \in Nat /\ N >= 1
      BY <1>1
    <3>3. SubSeq(s, 1, 1) = <<SubSeq(s, 1, 1)[1]>>
      BY ONLY <3>1, SingleSeq
    <3>4. SubSeq(s, 1, 1) = <<s[1]>>
      BY ONLY <3>1, <3>3, Zenon
    <3> HIDE DEF N
    <3>5. 1 \in 1 .. N /\ 1 = 0 + 1
      BY ONLY <3>2
    <3> QED
      BY ONLY <3>4, <3>5
  <2>2. T(0, 1)
    BY ONLY <1>8, <2>1
  <2> HIDE DEF T
  <2> QED
    BY <2>1, <2>2
<1>10. ASSUME NEW k \in P PROVE k + 1 \in P
  <2>1. PICK c \in 1 .. N : T(k, c)
    OBVIOUS
  <2>2. k \in Nat
    OBVIOUS
  <2> HIDE DEF P
  <2> DEFINE u == SubSeq(s, 1, c)
  <2>3. c \in Nat /\ 1 <= c /\ c <= N
    BY <1>1
  <2>4. /\ u \in Seq(QAll) /\ Len(u) = c /\ \A i \in 1 .. c : u[i] = s[i]
        /\ c < N => Append(u, s[c + 1]) = SubSeq(s, 1, c + 1)
    BY ONLY <2>3, s \in Seq(QAll), PrefixProperties
  <2> HIDE DEF u
  <2>5. Last(u) = s[c]
    BY <2>3, <2>4 DEF Last
  <2>6. link[s[c]] = IF c = N THEN QNull ELSE s[c + 1]
    BY DEF QLinked
  <2>7. walk[k + 1] = IF link[s[c]] = QNull THEN u ELSE Append(u, link[s[c]])
    BY <1>8, <2>1, <2>2, <2>5 DEF QStep, u
  <2>8. \E d \in 1 .. N : T(k + 1, d)
    <3>1. CASE c = N
      <4>1. T(k + 1, c)
        BY <2>6, <2>7, <3>1 DEF u
      <4> HIDE DEF T
      <4> QED
        BY <4>1
    <3>2. CASE c # N
      <4>1. c + 1 \in 1 .. N /\ c < N
        <5>1. N \in Nat
          BY <1>1
        <5> HIDE DEF N
        <5> QED
          BY ONLY <2>3, <3>2, <5>1
      <4>2. s[c + 1] # QNull
        BY <1>1, <4>1
      <4>3. walk[k + 1] = SubSeq(s, 1, c + 1)
        BY <2>4, <2>6, <2>7, <3>2, <4>1, <4>2
      <4>4. T(k + 1, c + 1)
        BY <2>1, <2>2, <3>2, <4>3
      <4> HIDE DEF T
      <4> QED
        BY <4>1, <4>4
    <3> QED
      BY <3>1, <3>2
  <2> HIDE DEF T
  <2> QED
    BY <2>2, <2>8 DEF P
<1>11. P = Nat
  <2>1. P \in SUBSET Nat
    OBVIOUS
  <2> HIDE DEF P
  <2> QED
    BY <1>9, <1>10, <2>1, Induction
<1>12. PICK c \in 1 .. N : T(C, c)
  <2>1. C \in P
    BY <1>1, <1>11
  <2> HIDE DEF T, C
  <2> QED
    BY <2>1
<1> HIDE DEF P, C
<1>13. c = N
  <2>1. c \in 1 .. N /\ (c = C + 1 \/ c = N) /\ N \in Nat /\ C \in Nat /\ N <= C
    BY <1>1, <1>12
  <2> HIDE DEF N
  <2> QED
    BY ONLY <2>1
<1>14. SubSeq(s, 1, N) = s
  BY <1>1
<1> QED
  BY <1>7, <1>12, <1>13, <1>14

\* what the walks from the ith node of a queue visit
LEMMA QWalks ==
  ASSUME QueueAssumption, NEW D, NEW m, NEW s, QRepr(m, s, D), NEW i \in 1 .. Len(s)
  PROVE  /\ QFrom(m, s[i]) = SubSeq(s, i, Len(s))
         /\ Len(QBackFrom(m, s[i])) = i
         /\ \A j \in 1 .. i : QBackFrom(m, s[i])[j] = s[(i - j) + 1]
         /\ Reverse(QBackFrom(m, s[i])) = SubSeq(s, 1, i)
<1> DEFINE N == Len(s)
           f == [x \in QAll |-> m[x].next]
           b == [x \in QAll |-> m[x].prev]
           u == SubSeq(s, i, N)
           w == [j \in 1 .. i |-> s[(i - j) + 1]]
<1>1. /\ s \in Seq(QAll) /\ N \in Nat /\ DOMAIN s = 1 .. N /\ \A j \in 1 .. N : s[j] \in QAll
      /\ i \in Nat /\ 1 <= i /\ i <= N
      /\ \A j, k \in 1 .. N : s[j] = s[k] => j = k
  BY DEF QRepr, Injective
<1>2. f \in QLink /\ b \in QLink
  <2>1. \A x \in QAll : m[x].next \in QPointer /\ m[x].prev \in QPointer
    BY DEF QRepr, QMem
  <2> QED
    BY <2>1 DEF QLink
<1>3. \A j \in 1 .. N : /\ f[s[j]] = IF j = N THEN QNull ELSE s[j + 1]
                        /\ b[s[j]] = IF j = 1 THEN QNull ELSE s[j - 1]
  BY <1>1 DEF QRepr, QLinks
<1> HIDE DEF f, b
<1>4. /\ u \in Seq(QAll) /\ Len(u) = (N - i) + 1
      /\ \A j \in 1 .. (N - i) + 1 : u[j] = s[(i + j) - 1]
  BY <1>1
<1> HIDE DEF u
<1>5. QWalk(f, s[i]) = u
  <2>1. \A j \in 1 .. (N - i) + 1 : (i + j) - 1 \in 1 .. N /\ ((i + j) - 1) + 1 = (i + (j + 1)) - 1
    BY <1>1
  <2>2. Injective(u)
    <3> SUFFICES ASSUME NEW j \in 1 .. (N - i) + 1, NEW k \in 1 .. (N - i) + 1, u[j] = u[k]
                 PROVE  j = k
      BY <1>4 DEF Injective
    <3>1. (i + j) - 1 = (i + k) - 1
      <4>1. s[(i + j) - 1] = s[(i + k) - 1]
        BY <1>4
      <4> QED
        BY <1>1, <2>1, <4>1
    <3> QED
      BY <1>1, <3>1
  <2>3. QLinked(f, u)
    <3> SUFFICES ASSUME NEW j \in 1 .. (N - i) + 1
                 PROVE  f[u[j]] = IF j = (N - i) + 1 THEN QNull ELSE u[j + 1]
      BY <1>4 DEF QLinked
    <3>1. (i + j) - 1 = N <=> j = (N - i) + 1
      BY <1>1
    <3>2. j # (N - i) + 1 => j + 1 \in 1 .. (N - i) + 1
      BY <1>1
    <3>3. u[j] = s[(i + j) - 1]
      BY <1>4
    <3>4. f[s[(i + j) - 1]] = IF (i + j) - 1 = N THEN QNull ELSE s[((i + j) - 1) + 1]
      BY <1>3, <2>1
    <3>5. j # (N - i) + 1 => u[j + 1] = s[(i + (j + 1)) - 1]
      BY <1>4, <3>2
    <3>6. ((i + j) - 1) + 1 = (i + (j + 1)) - 1
      BY <2>1
    <3>7. CASE j = (N - i) + 1
      <4>1. f[s[(i + j) - 1]] = QNull
        BY <3>1, <3>4, <3>7
      <4> QED
        BY <3>3, <3>7, <4>1
    <3>8. CASE j # (N - i) + 1
      <4>1. f[s[(i + j) - 1]] = s[(i + (j + 1)) - 1]
        BY <3>1, <3>4, <3>6, <3>8
      <4>2. u[j + 1] = s[(i + (j + 1)) - 1]
        BY <3>5, <3>8
      <4> QED
        BY <3>3, <3>8, <4>1, <4>2
    <3> QED
      BY <3>7, <3>8
  <2>4. u[1] = s[i] /\ Len(u) # 0
    <3>1. 1 \in 1 .. (N - i) + 1 /\ (i + 1) - 1 = i /\ (N - i) + 1 # 0
      BY <1>1
    <3> HIDE DEF N
    <3> QED
      BY <1>4, <3>1
  <2>5. QWalk(f, u[1]) = u
    BY <1>2, <1>4, <2>2, <2>3, <2>4, QWalkIs
  <2> QED
    BY <2>4, <2>5
<1>6. /\ w \in Seq(QAll) /\ Len(w) = i /\ \A j \in 1 .. i : w[j] = s[(i - j) + 1]
  <2>1. \A j \in 1 .. i : s[(i - j) + 1] \in QAll
    BY <1>1
  <2> QED
    BY <1>1, <2>1
<1> HIDE DEF w
<1>7. QWalk(b, s[i]) = w
  <2>1. \A j \in 1 .. i : (i - j) + 1 \in 1 .. N /\ ((i - j) + 1) - 1 = (i - (j + 1)) + 1
    BY <1>1
  <2>2. Injective(w)
    <3> SUFFICES ASSUME NEW j \in 1 .. i, NEW k \in 1 .. i, w[j] = w[k] PROVE j = k
      BY <1>1, <1>6 DEF Injective
    <3>1. (i - j) + 1 = (i - k) + 1
      BY <1>1, <1>6, <2>1, SMTT(30)
    <3> QED
      BY <1>1, <3>1
  <2>3. QLinked(b, w)
    <3> SUFFICES ASSUME NEW j \in 1 .. i PROVE b[w[j]] = IF j = i THEN QNull ELSE w[j + 1]
      BY <1>6 DEF QLinked
    <3>1. (i - j) + 1 = 1 <=> j = i
      BY <1>1
    <3>2. j # i => j + 1 \in 1 .. i
      BY <1>1
    <3>3. w[j] = s[(i - j) + 1]
      BY <1>6
    <3>4. b[s[(i - j) + 1]] = IF (i - j) + 1 = 1 THEN QNull ELSE s[((i - j) + 1) - 1]
      BY <1>3, <2>1
    <3>5. j # i => w[j + 1] = s[(i - (j + 1)) + 1]
      BY <1>6, <3>2
    <3>6. ((i - j) + 1) - 1 = (i - (j + 1)) + 1
      BY <2>1
    <3> QED
      BY ONLY <3>1, <3>3, <3>4, <3>5, <3>6
  <2>4. w[1] = s[i] /\ Len(w) # 0
    BY <1>1, <1>6
  <2>5. QWalk(b, w[1]) = w
    BY <1>2, <1>6, <2>2, <2>3, <2>4, QWalkIs
  <2> QED
    BY <2>4, <2>5
<1>8. Reverse(w) = SubSeq(s, 1, i)
  <2> DEFINE r == Reverse(w)
             v == SubSeq(s, 1, i)
  <2>1. v \in Seq(QAll) /\ Len(v) = i /\ \A j \in 1 .. i : v[j] = s[j]
    BY <1>1
  <2>2. \A j \in 1 .. i : (i - j) + 1 \in 1 .. i /\ (i - ((i - j) + 1)) + 1 = j
    BY <1>1
  <2>3. r = [j \in 1 .. i |-> w[(i - j) + 1]]
    BY <1>6 DEF Reverse
  <2>4. \A j \in 1 .. i : w[(i - j) + 1] = s[j]
    BY <1>6, <2>2
  <2>5. r = [j \in 1 .. i |-> s[j]]
    BY <2>3, <2>4
  <2>6. v = [j \in 1 .. i |-> v[j]]
    <3> HIDE DEF v
    <3> QED
      BY <2>1
  <2> HIDE DEF r, v
  <2>7. r = v
    BY <2>1, <2>5, <2>6
  <2> QED
    BY <2>7 DEF r, v
<1>9. QFrom(m, s[i]) = u /\ QBackFrom(m, s[i]) = w
  BY <1>5, <1>7 DEF QFrom, QBackFrom, f, b
<1> QED
  BY <1>6, <1>8, <1>9 DEF u
-----------------------------------------------------------------------------
(* Destroying the nodes from one on.                                       *)

\* what is left of s, from its ith node on, when c nodes are freed
QRest(s, i, c) == [j \in 1 .. Len(s) - c |-> IF j < i THEN s[j] ELSE s[j + c]]

\* the state of the loop after c turns
QDestroying(t, s, i, c, D) ==
  /\ QRepr(t.m, QRest(s, i, c), D)
  /\ t.n = IF i + c <= Len(s) THEN s[i + c] ELSE QNull

LEMMA QRestProperties ==
  ASSUME NEW s \in Seq(QAll), NEW i \in 1 .. Len(s), NEW c \in Nat, i + c <= Len(s) + 1
  PROVE  /\ QRest(s, i, c) \in Seq(QAll) /\ Len(QRest(s, i, c)) = Len(s) - c
         /\ \A j \in 1 .. Len(s) - c : QRest(s, i, c)[j] = IF j < i THEN s[j] ELSE s[j + c]
<1> DEFINE r == QRest(s, i, c)
           k == Len(s) - c
<1>1. Len(s) \in Nat /\ k \in Nat /\ \A j \in 1 .. Len(s) : s[j] \in QAll
  OBVIOUS
<1>2. r = [j \in 1 .. k |-> IF j < i THEN s[j] ELSE s[j + c]]
  BY DEF QRest
<1>3. \A j \in 1 .. k : (IF j < i THEN s[j] ELSE s[j + c]) \in QAll
  BY <1>1
<1> HIDE DEF r, k
<1>4. r \in Seq(QAll) /\ Len(r) = k
  BY <1>1, <1>2, <1>3
<1> QED
  BY <1>2, <1>4 DEF r, k

LEMMA QDestroyTurnStep ==
  ASSUME QueueAssumption, NEW D, NEW t, NEW s \in Seq(QAll), NEW i \in 1 .. Len(s),
         NEW c \in Nat, i + c <= Len(s), QDestroying(t, s, i, c, D)
  PROVE  QDestroying(QDestroyTurn(t), s, i, c + 1, D)
<1> DEFINE N == Len(s)
           r == QRest(s, i, c)
           u == QRest(s, i, c + 1)
           v == QDestroyTurn(t)
<1>1. N \in Nat /\ i \in Nat /\ 1 <= i /\ i <= N /\ i + c \in 1 .. N /\ s[i + c] \in QAll
  OBVIOUS
<1>2. t.n = s[i + c] /\ t.n # QNull
  BY <1>1, QNullApart DEF QDestroying
<1>3. v = [m |-> QUnlink(t.m, t.n), n |-> t.m[t.n].next]
  BY <1>2 DEF QDestroyTurn
<1>4. /\ r \in Seq(QAll) /\ Len(r) = N - c
      /\ \A j \in 1 .. N - c : r[j] = IF j < i THEN s[j] ELSE s[j + c]
  <2>1. s \in Seq(QAll) /\ i \in 1 .. Len(s) /\ c \in Nat /\ i + c <= Len(s) + 1
    BY <1>1
  <2> QED
    BY ONLY <2>1, QRestProperties
<1>5. /\ u \in Seq(QAll) /\ Len(u) = N - (c + 1)
      /\ \A j \in 1 .. N - (c + 1) : u[j] = IF j < i THEN s[j] ELSE s[j + (c + 1)]
  <2>1. s \in Seq(QAll) /\ i \in 1 .. Len(s) /\ c + 1 \in Nat /\ i + (c + 1) <= Len(s) + 1
    BY <1>1
  <2> QED
    BY ONLY <2>1, QRestProperties
<1>6. QRepr(t.m, r, D)
  BY DEF QDestroying
<1> HIDE DEF r, u, N, v
<1>7. i \in 1 .. Len(r) /\ r[i] = s[i + c]
  BY <1>1, <1>4
<1>8. Len(u) = Len(r) - 1 /\ \A j \in 1 .. Len(r) - 1 : u[j] = IF j < i THEN r[j] ELSE r[j + 1]
  <2>1. Len(u) = Len(r) - 1 /\ Len(r) - 1 = N - (c + 1)
    BY <1>1, <1>4, <1>5
  <2> SUFFICES ASSUME NEW j \in 1 .. N - (c + 1)
               PROVE  u[j] = IF j < i THEN r[j] ELSE r[j + 1]
    BY <2>1
  <2>2. j \in 1 .. N - c /\ j + 1 \in 1 .. N - c /\ (j + 1) + c = j + (c + 1)
        /\ (~(j < i) => ~(j + 1 < i))
    BY <1>1
  <2> QED
    BY <1>4, <1>5, <2>2
<1>9. QRepr(QUnlink(t.m, r[i]), u, D)
  BY <1>5, <1>6, <1>7, <1>8, QUnlinkRepr
<1>10. t.m[r[i]].next = IF i + (c + 1) <= N THEN s[i + (c + 1)] ELSE QNull
  <2>1. t.m[r[i]].next = IF i = Len(r) THEN QNull ELSE r[i + 1]
    BY <1>6, <1>7 DEF QRepr, QLinks
  <2>2. i = Len(r) <=> ~(i + (c + 1) <= N)
    BY <1>1, <1>4, <1>7
  <2>3. i # Len(r) => r[i + 1] = s[i + (c + 1)]
    <3>1. i # Len(r) => i + 1 \in 1 .. N - c /\ ~(i + 1 < i) /\ (i + 1) + c = i + (c + 1)
      BY <1>1, <1>4, <1>7
    <3> QED
      BY <1>4, <3>1
  <2> QED
    BY <2>1, <2>2, <2>3
<1>11. v.m = QUnlink(t.m, r[i]) /\ v.n = t.m[r[i]].next
  BY <1>2, <1>3, <1>7
<1> QED
  BY <1>9, <1>10, <1>11 DEF QDestroying, u, v, N

LEMMA QDestroyRepr ==
  ASSUME QueueAssumption, NEW D, NEW m, NEW s, QRepr(m, s, D), NEW i \in 1 .. Len(s)
  PROVE  QRepr(QDestroyFrom(m, s[i]), SubSeq(s, 1, i - 1), D)
<1> DEFINE N == Len(s)
           C == Cardinality(QAll)
           S == [m : QMem(D), n : QPointer]
           a == [m |-> m, n |-> s[i]]
           F == [t \in S |-> QDestroyTurn(t)]
           turn[k \in Nat] == IF k = 0 THEN a ELSE QDestroyTurn(turn[k - 1])
           rest == (N - i) + 1
<1>1. /\ s \in Seq(QAll) /\ N \in Nat /\ i \in Nat /\ 1 <= i /\ i <= N /\ s[i] \in QAll
      /\ m \in QMem(D) /\ QFresh.data \in D /\ Injective(s)
  BY DEF QRepr
<1>2. C \in Nat /\ N <= C /\ QNull \notin QAll
  BY <1>1, QNullApart, InjectiveLen
<1>3. ASSUME NEW t \in S PROVE QDestroyTurn(t) \in S
  <2>1. t.m \in QMem(D) /\ t.n \in QPointer
    OBVIOUS
  <2>2. CASE t.n = QNull
    BY <2>2 DEF QDestroyTurn
  <2>3. CASE t.n # QNull
    <3>1. t.n \in QAll
      BY <2>1, <2>3 DEF QPointer
    <3>2. QUnlink(t.m, t.n) \in QMem(D)
      <4>1. QueueAssumption /\ QFresh.data \in D /\ t.m \in QMem(D) /\ t.n \in QAll
        BY <1>1, <2>1, <3>1
      <4> QED
        BY ONLY <4>1, QUnlinkFields
    <3>3. t.m[t.n].next \in QPointer
      BY <2>1, <3>1 DEF QMem
    <3> QED
      BY <2>3, <3>2, <3>3 DEF QDestroyTurn
  <2> QED
    BY <2>2, <2>3
<1>4. PICK g \in [Nat -> S] : LoopStates(a, F, g)
  <2>1. a \in S
    BY <1>1 DEF QPointer
  <2>2. StepOn(S, F) /\ a \in S
    BY <1>3, <2>1 DEF StepOn
  <2> HIDE DEF F, a, S
  <2>3. LoopDefined(S, a, F)
    BY <2>2, Loops
  <2> QED
    BY <2>3 DEF LoopDefined
<1>5. g = [k \in Nat |-> IF k = 0 THEN a ELSE QDestroyTurn(g[k - 1])]
  <2>1. \A k \in Nat : k # 0 => F[g[k - 1]] = QDestroyTurn(g[k - 1])
    BY <1>4
  <2> HIDE DEF F, a, S
  <2> QED
    BY <1>4, <2>1 DEF LoopStates
<1>6. turn = [k \in Nat |-> IF k = 0 THEN a ELSE QDestroyTurn(turn[k - 1])]
  BY <1>5
<1>7. QDestroyFrom(m, s[i]) = turn[C].m
  BY DEF QDestroyFrom
<1> HIDE DEF turn, F, S
<1>8. turn[0] = a /\ \A k \in Nat : turn[k + 1] = QDestroyTurn(turn[k])
  <2>1. \A k \in Nat : k + 1 \in Nat /\ k + 1 # 0 /\ (k + 1) - 1 = k
    OBVIOUS
  <2> QED
    BY <1>6, <2>1
<1> DEFINE T(k, c) == (c = k \/ c = rest) /\ QDestroying(turn[k], s, i, c, D)
           P == {k \in Nat : \E c \in 0 .. rest : T(k, c)}
<1>9. rest \in Nat /\ rest >= 1 /\ rest <= C
  BY <1>1, <1>2
<1>10. 0 \in P
  <2>1. QRest(s, i, 0) = s
    <3> DEFINE r == QRest(s, i, 0)
    <3>1. /\ r \in Seq(QAll) /\ Len(r) = Len(s) - 0
          /\ \A j \in 1 .. Len(s) - 0 : r[j] = IF j < i THEN s[j] ELSE s[j + 0]
      <4>1. s \in Seq(QAll) /\ i \in 1 .. Len(s) /\ 0 \in Nat /\ i + 0 <= Len(s) + 1
        BY <1>1
      <4> QED
        BY ONLY <4>1, QRestProperties
    <3> HIDE DEF r
    <3>2. Len(r) = Len(s) /\ \A j \in 1 .. Len(s) : r[j] = s[j]
      BY <1>1, <3>1
    <3>3. r = s
      BY <1>1, <3>1, <3>2, SeqEqual
    <3> QED
      BY <3>3 DEF r
  <2>2. a.m = m /\ a.n = s[i] /\ i + 0 = i
    BY <1>1
  <2> HIDE DEF a
  <2>3. T(0, 0)
    BY <1>1, <1>8, <2>1, <2>2 DEF QDestroying
  <2>4. 0 \in 0 .. rest
    BY <1>9
  <2> HIDE DEF T, rest
  <2> QED
    BY <2>3, <2>4
<1>11. ASSUME NEW k \in P PROVE k + 1 \in P
  <2>1. PICK c \in 0 .. rest : T(k, c)
    OBVIOUS
  <2>2. k \in Nat
    OBVIOUS
  <2> HIDE DEF P, a
  <2>3. c \in Nat /\ c <= rest
    BY <1>9
  <2>4. CASE c = rest
    <3>1. i + c = N + 1 /\ ~(i + c <= N)
      BY <1>1, <2>4
    <3>2. turn[k].n = QNull
      BY <2>1, <3>1 DEF QDestroying
    <3>3. turn[k + 1] = turn[k]
      BY <1>8, <2>2, <3>2 DEF QDestroyTurn
    <3>4. T(k + 1, c)
      BY <2>1, <2>4, <3>3
    <3> HIDE DEF T
    <3> QED
      BY <2>2, <3>4 DEF P
  <2>5. CASE c # rest
    <3>1. i + c <= N /\ c + 1 \in 0 .. rest /\ c = k
      BY <1>1, <2>1, <2>3, <2>5
    <3>2. QDestroying(QDestroyTurn(turn[k]), s, i, c + 1, D)
      BY <1>1, <2>1, <2>3, <3>1, QDestroyTurnStep
    <3>3. T(k + 1, c + 1)
      BY <1>8, <2>2, <3>1, <3>2
    <3> HIDE DEF T
    <3> QED
      BY <2>2, <3>1, <3>3 DEF P
  <2> QED
    BY <2>4, <2>5
<1>12. P = Nat
  <2>1. P \in SUBSET Nat
    OBVIOUS
  <2> HIDE DEF P
  <2> QED
    BY <1>10, <1>11, <2>1, Induction
<1>13. PICK c \in 0 .. rest : T(C, c)
  <2>1. C \in P
    BY <1>2, <1>12
  <2> HIDE DEF T, C
  <2> QED
    BY <2>1
<1> HIDE DEF P, a
<1>14. c = rest
  <2>1. c \in 0 .. rest /\ (c = C \/ c = rest) /\ rest \in Nat /\ C \in Nat /\ rest <= C
    BY <1>2, <1>9, <1>13
  <2> HIDE DEF rest, C
  <2> QED
    BY ONLY <2>1
<1>15. QRepr(turn[C].m, QRest(s, i, rest), D)
  BY <1>13, <1>14 DEF QDestroying
<1>16. QRest(s, i, rest) = SubSeq(s, 1, i - 1)
  <2> DEFINE r == QRest(s, i, rest)
             u == SubSeq(s, 1, i - 1)
  <2>1. /\ r \in Seq(QAll) /\ Len(r) = Len(s) - rest
        /\ \A j \in 1 .. Len(s) - rest : r[j] = IF j < i THEN s[j] ELSE s[j + rest]
    <3>1. s \in Seq(QAll) /\ i \in 1 .. Len(s) /\ rest \in Nat /\ i + rest <= Len(s) + 1
      BY <1>1, <1>9
    <3> HIDE DEF rest
    <3> QED
      BY ONLY <3>1, QRestProperties
  <2>2. u \in Seq(QAll) /\ Len(u) = i - 1 /\ \A j \in 1 .. i - 1 : u[j] = s[j]
    <3>1. s \in Seq(QAll) /\ i - 1 \in Nat /\ i - 1 <= Len(s)
      BY <1>1
    <3> QED
      BY ONLY <3>1, PrefixProperties
  <2> HIDE DEF r, u
  <2>3. Len(s) - rest = i - 1
    BY <1>1
  <2>4. \A j \in 1 .. i - 1 : j < i
    BY <1>1
  <2>5. \A j \in 1 .. i - 1 : r[j] = u[j]
    BY <2>1, <2>2, <2>3, <2>4
  <2>6. Len(r) = Len(u)
    BY <2>1, <2>2, <2>3
  <2>7. r = u
    BY <2>1, <2>2, <2>5, <2>6, SeqEqual
  <2> QED
    BY <2>7 DEF r, u
<1> QED
  BY <1>7, <1>15, <1>16
-----------------------------------------------------------------------------
(* The calls.                                                              *)

\* a node of the queue, and where it is
LEMMA QPlaceOf ==
  ASSUME NEW D, NEW m, NEW s, QRepr(m, s, D), NEW h \in ToSet(s)
  PROVE  \E i \in 1 .. Len(s) : h = s[i] /\ IndexOf(s, h) = i /\ h \in QAll
<1>1. s \in Seq(QAll) /\ Injective(s)
  BY DEF QRepr
<1>2. PICK i \in 1 .. Len(s) : h = s[i]
  BY <1>1 DEF ToSet
<1>3. IndexOf(s, s[i]) = i
  BY <1>1, IndexOfInjective
<1> QED
  BY <1>1, <1>2, <1>3

LEMMA QShiftStep ==
  ASSUME QueueAssumption, QueueInv, NEW h \in ToSet(queue), NEW n \in QNode, NEW d \in QData,
         mowgli_queue_shift(h, n, d)
  PROVE  QueueInv'
<1> DEFINE D == QData \cup {QFresh.data}
           s == queue
           p == qmem[h].prev
           R == [next : QPointer, prev : QPointer, data : D]
           m1 == [qmem EXCEPT ![n] = [next |-> h, prev |-> p, data |-> d], ![h].prev = n]
           m2 == QSetNext(m1, p, n)
<1>1. QRepr(qmem, s, D) /\ QAnchor \in ToSet(s)
  BY DEF QueueInv
<1>2. PICK i \in 1 .. Len(s) : h = s[i] /\ IndexOf(s, h) = i /\ h \in QAll
  BY <1>1, QPlaceOf
<1>3. /\ s \in Seq(QAll) /\ Len(s) \in Nat /\ DOMAIN s = 1 .. Len(s)
      /\ \A j \in 1 .. Len(s) : s[j] \in QAll
      /\ qmem \in [QAll -> R] /\ n \in QAll /\ QNull \notin QAll /\ d \in D
  BY <1>1, QNullApart DEF QRepr, QMem, QAll
<1>4. \A j \in 1 .. Len(s) : s[j] # n
  BY <1>3 DEF mowgli_queue_shift, QFree, ToSet
<1>5. p = IF i = 1 THEN QNull ELSE s[i - 1]
  BY <1>1, <1>2 DEF QRepr, QLinks
<1>6. qmem' = m2 /\ queue' = InsertAt(s, i, n)
  BY <1>2 DEF mowgli_queue_shift
<1>7. h # n /\ p \in QPointer /\ p # n /\ p # h
  <2>1. i # 1 => i - 1 \in 1 .. Len(s) /\ i - 1 # i
    BY <1>3
  <2>2. Injective(s)
    BY <1>1 DEF QRepr
  <2>3. i # 1 => s[i - 1] # s[i]
    BY <1>3, <2>1, <2>2 DEF Injective
  <2> HIDE DEF p
  <2> QED
    BY <1>2, <1>3, <1>4, <1>5, <2>1, <2>3 DEF QPointer
<1> HIDE DEF p, D, s
<1>8. /\ m1 \in [QAll -> R]
      /\ \A y \in QAll : /\ m1[y].next = IF y = n THEN h ELSE qmem[y].next
                         /\ m1[y].prev = IF y = n THEN p ELSE IF y = h THEN n ELSE qmem[y].prev
  <2> DEFINE m0 == [qmem EXCEPT ![n] = [next |-> h, prev |-> p, data |-> d]]
  <2>1. [next |-> h, prev |-> p, data |-> d] \in R
    BY <1>2, <1>3, <1>7 DEF QPointer
  <2>2. /\ m0 \in [QAll -> R]
        /\ \A y \in QAll : m0[y] = IF y = n THEN [next |-> h, prev |-> p, data |-> d] ELSE qmem[y]
    <3> HIDE DEF R
    <3> QED
      BY <1>3, <2>1
  <2>3. m1 = [m0 EXCEPT ![h].prev = n]
    OBVIOUS
  <2> HIDE DEF m0, m1
  <2>4. n \in QPointer
    BY <1>3 DEF QPointer
  <2> QED
    BY <1>2, <1>7, <2>2, <2>3, <2>4
<1> HIDE DEF m1
<1>9. /\ m2 \in [QAll -> R]
      /\ \A y \in QAll : /\ m2[y].next = IF y = p THEN n ELSE m1[y].next
                         /\ m2[y].prev = m1[y].prev
  <2>1. CASE p = QNull
    BY <1>3, <1>8, <2>1 DEF QSetNext
  <2>2. CASE p # QNull
    <3>1. m2 = [m1 EXCEPT ![p].next = n] /\ p \in QAll /\ n \in QPointer
      BY <1>3, <1>7, <2>2 DEF QSetNext, QPointer
    <3> HIDE DEF m2
    <3> QED
      BY <1>8, <3>1
  <2> QED
    BY <2>1, <2>2
<1> HIDE DEF m2, R
<1>10. QInserted(qmem, m2, n, p, h)
  BY <1>7, <1>8, <1>9 DEF QInserted
<1> DEFINE t == InsertAt(s, i, n)
<1>11. i \in 1 .. Len(s) + 1 /\ i # Len(s) + 1
  BY <1>3
<1>12. /\ t \in Seq(QAll) /\ Len(t) = Len(s) + 1
       /\ \A j \in 1 .. Len(s) + 1 : t[j] = IF j < i THEN s[j] ELSE IF j = i THEN n ELSE s[j - 1]
  <2>1. s \in Seq(QAll) /\ n \in QAll /\ i \in 1 .. Len(s) + 1
    BY <1>3, <1>11
  <2> QED
    BY ONLY <2>1, InsertAtProperties
<1> HIDE DEF t
<1>13. QRepr(m2, t, D)
  <2>1. m2 \in QMem(D)
    BY <1>9 DEF QMem, R
  <2>2. QInserted(qmem, m2, n, IF i = 1 THEN QNull ELSE s[i - 1], IF i = Len(s) + 1 THEN QNull ELSE s[i])
    BY <1>2, <1>5, <1>10, <1>11
  <2> QED
    BY <1>1, <1>3, <1>4, <1>11, <1>12, <2>1, <2>2, QInsertRepr
<1>14. QAnchor \in ToSet(t)
  <2>1. PICK k \in 1 .. Len(s) : s[k] = QAnchor
    BY <1>1, <1>3 DEF ToSet
  <2>2. DOMAIN t = 1 .. Len(s) + 1
    BY <1>3, <1>12
  <2>3. CASE k < i
    <3>1. k \in 1 .. Len(s) + 1 /\ t[k] = s[k]
      BY <1>3, <1>12, <2>3
    <3> QED
      BY <2>1, <2>2, <3>1 DEF ToSet
  <2>4. CASE ~(k < i)
    <3>1. k + 1 \in 1 .. Len(s) + 1 /\ ~(k + 1 < i) /\ k + 1 # i /\ (k + 1) - 1 = k
      BY <1>3, <2>4
    <3>2. t[k + 1] = s[k]
      BY <1>12, <3>1
    <3> QED
      BY <2>1, <2>2, <3>1, <3>2 DEF ToSet
  <2> QED
    BY <2>3, <2>4
<1> QED
  BY <1>6, <1>13, <1>14 DEF QueueInv, D, t

LEMMA QPushStep ==
  ASSUME QueueAssumption, QueueInv, NEW h \in ToSet(queue), NEW n \in QNode, NEW d \in QData,
         mowgli_queue_push(h, n, d)
  PROVE  QueueInv'
<1> DEFINE D == QData \cup {QFresh.data}
           s == queue
           N == Len(s)
           R == [next : QPointer, prev : QPointer, data : D]
           m2 == [qmem EXCEPT ![n] = [next |-> QNull, prev |-> h, data |-> d], ![h].next = n]
           t == Append(s, n)
<1>1. QRepr(qmem, s, D) /\ QAnchor \in ToSet(s)
  BY DEF QueueInv
<1>2. PICK k \in 1 .. N : h = s[k]
  BY <1>1, QPlaceOf
<1>3. /\ s \in Seq(QAll) /\ N \in Nat /\ N >= 1 /\ DOMAIN s = 1 .. N
      /\ \A j \in 1 .. N : s[j] \in QAll
      /\ qmem \in [QAll -> R] /\ n \in QAll /\ QNull \notin QAll /\ d \in D /\ h \in QAll
  BY <1>1, <1>2, QNullApart DEF QRepr, QMem, QAll
<1>4. \A j \in 1 .. N : s[j] # n
  BY <1>3 DEF mowgli_queue_push, QFree, ToSet
<1>5. h = s[N] /\ h # n
  BY <1>2, <1>4 DEF mowgli_queue_push, Last
<1>6. qmem' = m2 /\ queue' = t
  BY DEF mowgli_queue_push
<1> HIDE DEF D, s
<1>7. /\ m2 \in [QAll -> R]
      /\ \A y \in QAll : /\ m2[y].next = IF y = n THEN QNull ELSE IF y = h THEN n ELSE qmem[y].next
                         /\ m2[y].prev = IF y = n THEN h ELSE qmem[y].prev
  <2> DEFINE v == [next |-> QNull, prev |-> h, data |-> d]
             m0 == [qmem EXCEPT ![n] = v]
  <2>1. v \in R
    BY <1>3 DEF QPointer
  <2>2. m0 \in [QAll -> R] /\ \A y \in QAll : m0[y] = IF y = n THEN v ELSE qmem[y]
    <3> HIDE DEF R, v
    <3> QED
      BY <1>3, <2>1
  <2>3. m2 = [m0 EXCEPT ![h].next = n]
    OBVIOUS
  <2> HIDE DEF m0, m2
  <2>4. n \in QPointer
    BY <1>3 DEF QPointer
  <2> QED
    BY <1>3, <1>5, <2>2, <2>3, <2>4, SMTT(30)
<1> HIDE DEF m2
<1>8. /\ t \in Seq(QAll) /\ Len(t) = N + 1
      /\ \A j \in 1 .. N : t[j] = s[j]
      /\ t[N + 1] = n
  BY <1>3
<1> HIDE DEF t
<1>9. QRepr(m2, t, D)
  <2> DEFINE i == N + 1
  <2>1. m2 \in QMem(D)
    BY <1>7 DEF QMem
  <2>2. QInserted(qmem, m2, n, IF i = 1 THEN QNull ELSE s[i - 1], IF i = N + 1 THEN QNull ELSE s[i])
    <3>1. i # 1 /\ s[i - 1] = h
      BY <1>3, <1>5
    <3>2. QInserted(qmem, m2, n, h, QNull)
      BY <1>3, <1>7 DEF QInserted
    <3> QED
      BY <3>1, <3>2
  <2>3. i \in 1 .. N + 1
    BY <1>3
  <2>4. \A j \in 1 .. N + 1 : t[j] = IF j < i THEN s[j] ELSE IF j = i THEN n ELSE s[j - 1]
    <3> SUFFICES ASSUME NEW j \in 1 .. N + 1
                 PROVE  t[j] = IF j < i THEN s[j] ELSE IF j = i THEN n ELSE s[j - 1]
      OBVIOUS
    <3>1. (j < i => j \in 1 .. N) /\ (~(j < i) => j = i)
      BY <1>3
    <3> QED
      BY <1>8, <3>1
  <2> HIDE DEF i
  <2> QED
    BY <1>1, <1>3, <1>4, <1>8, <2>1, <2>2, <2>3, <2>4, QInsertRepr, SMTT(30)
<1>10. QAnchor \in ToSet(t)
  <2>1. PICK j \in 1 .. N : s[j] = QAnchor
    BY <1>1, <1>3 DEF ToSet
  <2>2. DOMAIN t = 1 .. N + 1 /\ j \in 1 .. N + 1
    BY <1>3, <1>8
  <2> QED
    BY <1>8, <2>1, <2>2 DEF ToSet
<1> QED
  BY <1>6, <1>9, <1>10 DEF QueueInv, D

LEMMA QDropStep ==
  ASSUME QueueAssumption, QueueInv, NEW n \in ToSet(queue), n # QAnchor, QDrop(n)
  PROVE  QueueInv'
<1> DEFINE D == QData \cup {QFresh.data}
           s == queue
           t == Unlink(s, n)
<1>1. QRepr(qmem, s, D) /\ QAnchor \in ToSet(s)
  BY DEF QueueInv
<1>2. qmem' = QUnlink(qmem, n) /\ queue' = t
  BY DEF QDrop
<1> HIDE DEF D
<1>3. s \in Seq(QAll) /\ \A i, j \in DOMAIN s : s[i] = s[j] => i = j
  BY <1>1 DEF QRepr, Injective
<1>4. n \in ToSet(s)
  OBVIOUS
<1> HIDE DEF s
<1>5. PICK i \in 1 .. Len(s) :
        /\ s[i] = n /\ t \in Seq(QAll) /\ Len(t) = Len(s) - 1
        /\ \A j \in 1 .. Len(s) - 1 : t[j] = IF j < i THEN s[j] ELSE s[j + 1]
  BY <1>3, <1>4, UnlinkProperties
<1>6. ToSet(t) = ToSet(s) \ {n}
  BY <1>3, <1>4, UnlinkSet
<1> HIDE DEF t
<1>7. QRepr(QUnlink(qmem, s[i]), t, D)
  BY <1>1, <1>5, QUnlinkRepr
<1> QED
  BY <1>1, <1>2, <1>5, <1>6, <1>7 DEF QueueInv, D

LEMMA QFindOnQueue ==
  ASSUME QueueAssumption, QueueInv, NEW h \in ToSet(queue), NEW d,
         mowgli_queue_find(h, d) # QNull
  PROVE  mowgli_queue_find(h, d) \in ToSet(queue)
<1> DEFINE D == QData \cup {QFresh.data}
           s == queue
           u == QFrom(qmem, h)
           hits == {j \in DOMAIN u : qmem[u[j]].data = d}
<1>1. QRepr(qmem, s, D)
  BY DEF QueueInv
<1> HIDE DEF D
<1>2. PICK i \in 1 .. Len(s) : h = s[i]
  BY <1>1, QPlaceOf
<1>3. u = SubSeq(s, i, Len(s))
  BY <1>1, <1>2, QWalks
<1>4. s \in Seq(QAll) /\ Len(s) \in Nat /\ DOMAIN s = 1 .. Len(s)
  BY <1>1 DEF QRepr
<1>5. DOMAIN u = 1 .. (Len(s) - i) + 1 /\ \A j \in 1 .. (Len(s) - i) + 1 : u[j] = s[(i + j) - 1]
  BY <1>3, <1>4
<1>6. mowgli_queue_find(h, d) = u[Min(hits)] /\ hits # {}
  BY DEF mowgli_queue_find
<1> HIDE DEF u
<1>7. hits \subseteq Nat
  BY <1>5
<1>8. Min(hits) \in DOMAIN u
  <2>1. Min(hits) \in hits
    <3> HIDE DEF hits
    <3> QED
      BY <1>6, <1>7, NatMin
  <2> QED
    BY <2>1
<1> DEFINE k == Min(hits)
<1>9. k \in DOMAIN u /\ mowgli_queue_find(h, d) = u[k]
  BY <1>6, <1>8
<1> HIDE DEF k, hits
<1>10. (i + k) - 1 \in 1 .. Len(s) /\ u[k] = s[(i + k) - 1]
  BY <1>4, <1>5, <1>9, SMTT(30)
<1> QED
  BY <1>4, <1>9, <1>10 DEF ToSet

LEMMA QDestroyStep ==
  ASSUME QueueAssumption, QueueInv, NEW h \in ToSet(queue), mowgli_queue_destroy(h)
  PROVE  QueueInv'
<1> DEFINE D == QData \cup {QFresh.data}
           s == queue
           N == Len(s)
<1>1. QRepr(qmem, s, D) /\ QAnchor \in ToSet(s)
  BY DEF QueueInv
<1> HIDE DEF D
<1>2. PICK i \in 1 .. N : h = s[i] /\ IndexOf(s, h) = i
  BY <1>1, QPlaceOf
<1> DEFINE t == SubSeq(s, 1, i - 1)
<1>3. qmem' = QDestroyFrom(qmem, s[i]) /\ queue' = t /\ QAnchor \notin ToSet(QFrom(qmem, s[i]))
  BY <1>2 DEF mowgli_queue_destroy
<1>4. s \in Seq(QAll) /\ N \in Nat /\ DOMAIN s = 1 .. N
  BY <1>1 DEF QRepr
<1>5. QRepr(QDestroyFrom(qmem, s[i]), t, D)
  BY <1>1, QDestroyRepr
<1>6. QAnchor \in ToSet(t)
  <2> DEFINE u == SubSeq(s, i, N)
  <2>1. PICK k \in 1 .. N : s[k] = QAnchor
    BY <1>1, <1>4 DEF ToSet
  <2>2. QFrom(qmem, s[i]) = u
    BY <1>1, QWalks
  <2>3. DOMAIN u = 1 .. (N - i) + 1 /\ \A j \in 1 .. (N - i) + 1 : u[j] = s[(i + j) - 1]
    BY <1>4
  <2> HIDE DEF u
  <2>4. k < i
    <3> SUFFICES ASSUME ~(k < i) PROVE FALSE
      OBVIOUS
    <3>1. (k - i) + 1 \in 1 .. (N - i) + 1 /\ (i + ((k - i) + 1)) - 1 = k
      BY <1>4
    <3>2. u[(k - i) + 1] = QAnchor
      BY <2>1, <2>3, <3>1
    <3> QED
      BY <1>3, <2>2, <2>3, <3>1, <3>2 DEF ToSet
  <2>5. DOMAIN t = 1 .. i - 1 /\ \A j \in 1 .. i - 1 : t[j] = s[j]
    BY <1>4
  <2>6. k \in 1 .. i - 1
    BY <1>4, <2>4
  <2> HIDE DEF t
  <2> QED
    BY <2>1, <2>5, <2>6 DEF ToSet
<1> QED
  BY <1>3, <1>5, <1>6 DEF QueueInv, D

LEMMA QueueInvExact ==
  ASSUME QueueAssumption, QueueInv
  PROVE  QueueExact
<1> DEFINE D == QData \cup {QFresh.data}
           s == queue
           N == Len(s)
<1>1. QRepr(qmem, s, D)
  BY DEF QueueInv
<1>2. s \in Seq(QAll) /\ N \in Nat /\ DOMAIN s = 1 .. N /\ \A j \in 1 .. N : s[j] \in QAll
  BY <1>1 DEF QRepr
<1> HIDE DEF D
<1> SUFFICES ASSUME NEW i \in 1 .. N
             PROVE  /\ QFrom(qmem, s[i]) = SubSeq(s, i, N)
                    /\ Reverse(QBackFrom(qmem, s[i])) = SubSeq(s, 1, i)
                    /\ mowgli_queue_head(s[i]) = Head(s)
                    /\ mowgli_queue_tail(s[i]) = Last(s)
                    /\ mowgli_queue_length(s[i]) = N - i + 1
                    /\ mowgli_queue_skip(s[i], 1) = QNth(s, i)
                    /\ i > 1 => mowgli_queue_rewind(s[i], 1) = s[i - 1]
  BY <1>2 DEF QueueExact
<1> DEFINE u == QFrom(qmem, s[i])
           w == QBackFrom(qmem, s[i])
<1>3. u = SubSeq(s, i, N) /\ Reverse(w) = SubSeq(s, 1, i)
      /\ Len(w) = i /\ \A j \in 1 .. i : w[j] = s[(i - j) + 1]
  BY <1>1, QWalks
<1>4. Len(u) = (N - i) + 1 /\ \A j \in 1 .. (N - i) + 1 : u[j] = s[(i + j) - 1]
  BY <1>2, <1>3
<1>5. mowgli_queue_head(s[i]) = Last(w) /\ mowgli_queue_tail(s[i]) = Last(u)
      /\ mowgli_queue_length(s[i]) = Len(u) /\ mowgli_queue_skip(s[i], 1) = QNth(u, 1)
      /\ mowgli_queue_rewind(s[i], 1) = QNth(w, 1)
  BY DEF mowgli_queue_head, mowgli_queue_tail, mowgli_queue_length, mowgli_queue_skip,
         mowgli_queue_rewind
<1> HIDE DEF u, w
<1>6. Last(w) = Head(s)
  <2>1. i \in 1 .. i /\ (i - i) + 1 = 1 /\ Head(s) = s[1]
    BY <1>2
  <2> QED
    BY <1>3, <2>1 DEF Last
<1>7. Last(u) = Last(s)
  <2>1. (N - i) + 1 \in 1 .. (N - i) + 1 /\ (i + ((N - i) + 1)) - 1 = N
    BY <1>2
  <2> QED
    BY <1>4, <2>1 DEF Last
<1>8. QNth(u, 1) = QNth(s, i)
  <2>1. (1 < Len(u) <=> i < N) /\ (i < N => 2 \in 1 .. (N - i) + 1 /\ (i + 2) - 1 = i + 1) /\ 1 + 1 = 2
    BY <1>2, <1>4
  <2>2. i < N => u[2] = s[i + 1]
    BY <1>4, <2>1
  <2>3. QNth(u, 1) = IF 1 < Len(u) THEN u[2] ELSE QNull
    BY <2>1 DEF QNth
  <2>4. QNth(s, i) = IF i < N THEN s[i + 1] ELSE QNull
    BY DEF QNth
  <2> QED
    BY ONLY <2>1, <2>2, <2>3, <2>4
<1>9. i > 1 => QNth(w, 1) = s[i - 1]
  <2>1. i > 1 => 1 < Len(w) /\ 1 + 1 \in 1 .. i /\ (i - (1 + 1)) + 1 = i - 1
    BY <1>2, <1>3
  <2> QED
    BY <1>3, <2>1 DEF QNth
<1> QED
  BY <1>3, <1>4, <1>5, <1>6, <1>7, <1>8, <1>9 DEF u, w

LEMMA QueueInitInv ==
  ASSUME QueueAssumption, QueueInit
  PROVE  QueueInv
<1> DEFINE D == QData \cup {QFresh.data}
           s == <<QAnchor>>
<1>1. QAnchor \in QAll /\ QNull \in QPointer
  BY QNullApart DEF QPointer
<1>2. /\ qmem = [n \in QAll |-> QFresh] /\ queue = s
      /\ QFresh = [next |-> QNull, prev |-> QNull, data |-> QFresh.data]
  BY DEF QueueInit, QFresh
<1>3. qmem \in QMem(D)
  BY <1>1, <1>2 DEF QMem
<1>4. s \in Seq(QAll) /\ Len(s) = 1 /\ DOMAIN s = 1 .. 1 /\ s[1] = QAnchor
  BY <1>1
<1> HIDE DEF s
<1>5. Injective(s)
  BY <1>4 DEF Injective
<1>6. qmem[QAnchor].next = QNull /\ qmem[QAnchor].prev = QNull
  BY <1>1, <1>2
<1>7. QLinks(qmem, s)
  BY <1>4, <1>6 DEF QLinks
<1>8. QAnchor \in ToSet(s)
  BY <1>4 DEF ToSet
<1> QED
  BY <1>2, <1>3, <1>4, <1>5, <1>7, <1>8 DEF QueueInv, QRepr

LEMMA QueueNextInv ==
  ASSUME QueueAssumption
  PROVE  QueueInv /\ [QueueNext]_queueVars => QueueInv'
<1> SUFFICES ASSUME QueueInv, [QueueNext]_queueVars PROVE QueueInv'
  OBVIOUS
<1>1. CASE UNCHANGED queueVars
  <2>1. qmem' = qmem /\ queue' = queue
    BY <1>1 DEF queueVars
  <2> QED
    BY <2>1 DEF QueueInv
<1>2. CASE QueueNext
  <2>1. PICK h \in ToSet(queue) :
          \/ \E n \in QNode, d \in QData : mowgli_queue_shift(h, n, d) \/ mowgli_queue_push(h, n, d)
          \/ mowgli_queue_remove(h)
          \/ mowgli_queue_pop_head(h)
          \/ mowgli_queue_pop_tail(h)
          \/ \E d \in QData : mowgli_queue_remove_data(h, d)
          \/ mowgli_queue_destroy(h)
    BY <1>2 DEF QueueNext
  <2>2. ASSUME NEW n \in QNode, NEW d \in QData,
               mowgli_queue_shift(h, n, d) \/ mowgli_queue_push(h, n, d)
        PROVE  QueueInv'
    BY <2>2, QShiftStep, QPushStep
  <2>3. CASE mowgli_queue_remove(h)
    BY <2>3, QDropStep DEF mowgli_queue_remove
  <2>4. CASE mowgli_queue_pop_head(h)
    BY <2>4, QDropStep DEF mowgli_queue_pop_head
  <2>5. CASE mowgli_queue_pop_tail(h)
    BY <2>5, QDropStep DEF mowgli_queue_pop_tail
  <2>6. ASSUME NEW d \in QData, mowgli_queue_remove_data(h, d) PROVE QueueInv'
    BY <2>6, QFindOnQueue, QDropStep DEF mowgli_queue_remove_data
  <2>7. CASE mowgli_queue_destroy(h)
    BY <2>7, QDestroyStep
  <2> QED
    BY <2>1, <2>2, <2>3, <2>4, <2>5, <2>6, <2>7
<1> QED
  BY <1>1, <1>2

(* From whichever node the caller holds, walking a queue forwards and      *)
(* backwards gives its nodes in order: no insertion, removal or partial    *)
(* destruction breaks the chain.                                           *)
THEOREM QueueHolds == QueueSpec => []QueueExact
<1>0. QueueAssumption
  BY QueueAssumption
<1>1. QueueInit => QueueInv
  BY <1>0, QueueInitInv
<1>2. QueueInv /\ [QueueNext]_queueVars => QueueInv'
  BY <1>0, QueueNextInv
<1>3. QueueInv => QueueExact
  BY <1>0, QueueInvExact
<1> QED
  BY <1>1, <1>2, <1>3, PTL DEF QueueSpec

-----------------------------------------------------------------------------
(* Indexes.                                                                *)

\* What the array of an index and its count always are; V is what its slots
\* hold.
IxWF(x, V) ==
  /\ x = [data |-> x.data, count |-> x.count]
  /\ x.data \in Seq(V) /\ x.count \in Nat /\ IxNull \in V
  /\ x.count <= Len(x.data)
  /\ Len(x.data) = 0 \/ Len(x.data) >= IxBase

IxHolds(x, q) == Len(q) = x.count /\ \A i \in 1 .. x.count : q[i] = x.data[i]

(* Doubling ends, with a size that suffices.                               *)
LEMMA DoubleProperties ==
  ASSUME NEW have \in Nat \ {0}, NEW want \in Nat
  PROVE  /\ IxDouble(have, want) \in Nat
         /\ IxDouble(have, want) >= want
         /\ IxDouble(have, want) >= have
<1> DEFINE F == [x \in Nat |-> 2 * x]
           sizes[k \in Nat] == IF k = 0 THEN have ELSE 2 * sizes[k - 1]
           Enough == {k \in 0 .. want : sizes[k] >= want}
<1>1. PICK g \in [Nat -> Nat] : LoopStates(have, F, g)
  <2>1. StepOn(Nat, F) /\ have \in Nat
    BY DEF StepOn
  <2> HIDE DEF F
  <2>2. LoopDefined(Nat, have, F)
    BY <2>1, Loops
  <2> QED
    BY <2>2 DEF LoopDefined
<1>2. g = [k \in Nat |-> IF k = 0 THEN have ELSE 2 * g[k - 1]]
  <2>1. \A k \in Nat : k # 0 => F[g[k - 1]] = 2 * g[k - 1]
    BY <1>1
  <2> HIDE DEF F
  <2> QED
    BY <1>1, <2>1 DEF LoopStates
<1>3. sizes = [k \in Nat |-> IF k = 0 THEN have ELSE 2 * sizes[k - 1]]
  BY <1>2
<1>4. IxDouble(have, want) = sizes[Min(Enough)]
  BY DEF IxDouble
<1> HIDE DEF sizes
<1>5. \A k \in Nat : sizes[k] = IF k = 0 THEN have ELSE 2 * sizes[k - 1]
  BY <1>3
<1>6. \A k \in Nat : sizes[k] \in Nat /\ sizes[k] > k /\ sizes[k] >= have
  <2> DEFINE Bad == {k \in Nat : ~ (sizes[k] \in Nat /\ sizes[k] > k /\ sizes[k] >= have)}
  <2>1. SUFFICES ASSUME Bad # {} PROVE FALSE
    OBVIOUS
  <2>2. PICK k \in Bad : \A i \in Bad : k <= i
    <3>1. Bad \subseteq Nat
      OBVIOUS
    <3> HIDE DEF Bad
    <3> QED
      BY <2>1, <3>1, NatMin
  <2>3. k \in Nat /\ k # 0
    BY <1>5
  <2>4. k - 1 \in Nat /\ k - 1 \notin Bad
    <3> HIDE DEF Bad
    <3> QED
      BY <2>2, <2>3
  <2> QED
    BY <1>5, <2>2, <2>3, <2>4
<1>7. want \in Enough /\ Enough \subseteq Nat
  BY <1>6
<1> HIDE DEF Enough
<1>8. Min(Enough) \in Enough
  BY <1>7, NatMin
<1> QED
  BY <1>4, <1>6, <1>8 DEF Enough

LEMMA AllocateProperties ==
  ASSUME NEW V, NEW x, IxWF(x, V), NEW size \in Nat, IndexAssumption
  PROVE  LET y == mowgli_index_allocate(x, size)
         IN  /\ IxWF(y, V) /\ y.count = x.count
             /\ size <= Len(y.data)
             /\ Len(y.data) <= IxBase => \A i \in 1 .. x.count : y.data[i] = x.data[i]
<1> DEFINE y == mowgli_index_allocate(x, size)
           n == Len(x.data)
           old == IF n = 0 THEN IxBase ELSE n
           m == IxDouble(old, size)
           d == [i \in 1 .. m |-> IF i <= n /\ i <= old \div IxPointer THEN x.data[i] ELSE IxNull]
<1>1. CASE size <= n
  <2>1. y = x
    BY <1>1 DEF mowgli_index_allocate, IxSize
  <2> QED
    BY <1>1, <2>1 DEF IxWF
<1>2. CASE size > n
  <2>1. y = [x EXCEPT !.data = d]
    BY <1>2 DEF mowgli_index_allocate, IxSize, IxWF
  <2>2. n \in Nat /\ IxBase \in Nat \ {0} /\ x.count \in Nat /\ x.count <= n /\ (n = 0 \/ n >= IxBase)
        /\ x.data \in Seq(V)
    BY DEF IxWF, IndexAssumption
  <2>3. old \in Nat \ {0} /\ old >= IxBase
    BY <2>2
  <2>4. m \in Nat /\ m >= size /\ m >= old
    BY <2>3, DoubleProperties
  <2>5. d \in Seq(V) /\ Len(d) = m
    <3>1. \A i \in 1 .. m : d[i] \in V
      BY <2>2 DEF IxWF
    <3>2. d \in [1 .. m -> V]
      BY <3>1
    <3> HIDE DEF d
    <3> QED
      BY <2>4, <3>2
  <2>6. y.data = d /\ y.count = x.count /\ y = [data |-> d, count |-> x.count]
    <3> HIDE DEF d
    <3> QED
      BY <2>1 DEF IxWF
  <2>7. m <= IxBase => n = 0
    BY <1>2, <2>2, <2>4
  <2> HIDE DEF d, m
  <2> QED
    BY <1>2, <2>2, <2>3, <2>4, <2>5, <2>6, <2>7 DEF IxWF
<1> QED
  BY <1>1, <1>2 DEF IxWF

LEMMA PutProperties ==
  ASSUME NEW V, NEW d \in Seq(V), NEW s \in Seq(V), NEW at \in Nat, at + Len(s) <= Len(d)
  PROVE  /\ IxPut(d, at, s) \in Seq(V) /\ Len(IxPut(d, at, s)) = Len(d)
         /\ \A i \in 1 .. Len(d) :
              IxPut(d, at, s)[i] = IF i > at /\ i <= at + Len(s) THEN s[i - at] ELSE d[i]
<1> DEFINE e == IxPut(d, at, s)
           n == Len(s)
           m == Len(d)
<1>1. e = [i \in 1 .. m |-> IF i \in (at + 1) .. (at + n) THEN s[i - at] ELSE d[i]]
  BY DEF IxPut
<1>2. /\ n \in Nat /\ at + n <= m /\ \A i \in 1 .. n : s[i] \in V
      /\ m \in Nat /\ d \in [1 .. m -> V]
  OBVIOUS
<1> HIDE DEF e, n, m
<1>3. \A i \in 1 .. m : e[i] = IF i > at /\ i <= at + n THEN s[i - at] ELSE d[i]
  BY <1>1, <1>2
<1>4. \A i \in 1 .. m : i > at /\ i <= at + n => i - at \in 1 .. n
  BY <1>2
<1>5. \A i \in 1 .. m : e[i] \in V
  BY <1>2, <1>3, <1>4
<1>6. e \in Seq(V) /\ Len(e) = m
  BY <1>1, <1>2, <1>5
<1> QED
  BY <1>3, <1>6 DEF e, n, m

\* an index whose array gets other contents
LEMMA IxWFData ==
  ASSUME NEW V, NEW x, IxWF(x, V), NEW d \in Seq(V), Len(d) = Len(x.data)
  PROVE  LET v == [x EXCEPT !.data = d]
         IN  IxWF(v, V) /\ v.data = d /\ v.count = x.count
<1> DEFINE v == [x EXCEPT !.data = d]
<1>3. v = [data |-> d, count |-> x.count]
  BY DEF IxWF
<1>4. v.data = d /\ v.count = x.count /\ v = [data |-> v.data, count |-> v.count]
  BY <1>3
<1> HIDE DEF v
<1> QED
  BY <1>4 DEF IxWF, v

(* What making room in an index does to its slots.                         *)
LEMMA RoomProperties ==
  ASSUME NEW V, NEW x, IxWF(x, V), NEW at \in 0 .. x.count, NEW n \in Nat, IndexAssumption
  PROVE  LET z == make_room(x, at, n)
         IN  /\ IxWF(z, V) /\ z.count = x.count + n
             /\ Len(z.data) <= IxBase =>
                  \A i \in 1 .. x.count + n : /\ i <= at => z.data[i] = x.data[i]
                                              /\ i > at + n => z.data[i] = x.data[i - n]
<1> DEFINE y == mowgli_index_allocate(x, x.count + n)
           z == make_room(x, at, n)
           m == Len(y.data)
           d == IF at < x.count THEN IxMove(y.data, at, at + n, x.count - at) ELSE y.data
<1>1. n \in Nat /\ x.count \in Nat /\ at \in Nat /\ at <= x.count /\ x.count <= Len(x.data)
  BY DEF IxWF
<1>2. /\ IxWF(y, V) /\ y.count = x.count /\ x.count + n <= m
      /\ m <= IxBase => \A i \in 1 .. x.count : y.data[i] = x.data[i]
  <2>1. x.count + n \in Nat
    BY <1>1
  <2> QED
    BY <2>1, AllocateProperties
<1> HIDE DEF y
<1>3. m \in Nat /\ y.data \in [1 .. m -> V] /\ DOMAIN y.data = 1 .. m
  BY <1>2 DEF IxWF
<1>4. d \in [1 .. m -> V] /\
      \A i \in 1 .. m : d[i] = IF at < x.count /\ i > at + n /\ i <= x.count + n
                               THEN y.data[i - n] ELSE y.data[i]
  <2>1. CASE at < x.count
    <3>1. d = IxMove(y.data, at, at + n, x.count - at)
      BY <2>1
    <3>2. d = [i \in 1 .. m |-> IF i \in (at + n + 1) .. (at + n + (x.count - at))
                               THEN y.data[i - (at + n) + at] ELSE y.data[i]]
      BY <1>3, <3>1 DEF IxMove
    <3>3. \A i \in 1 .. m : d[i] = IF i > at + n /\ i <= x.count + n
                                   THEN y.data[i - n] ELSE y.data[i]
      <4> TAKE i \in 1 .. m
      <4>1. /\ i \in (at + n + 1) .. (at + n + (x.count - at)) <=> i > at + n /\ i <= x.count + n
            /\ i - (at + n) + at = i - n
        BY <1>1, <1>3
      <4> HIDE DEF d
      <4> QED
        BY <3>2, <4>1
    <3>4. \A i \in 1 .. m : i > at + n /\ i <= x.count + n => i - n \in 1 .. m
      BY <1>1, <1>2, <1>3
    <3>5. \A i \in 1 .. m : d[i] \in V
      BY <1>3, <3>3, <3>4
    <3> QED
      BY <2>1, <3>2, <3>3, <3>5
  <2>2. CASE ~(at < x.count)
    BY <1>3, <2>2
  <2> QED
    BY <2>1, <2>2
<1>5. y = [data |-> y.data, count |-> x.count]
  BY <1>2 DEF IxWF
<1>6. z = [data |-> d, count |-> x.count + n]
  <2>1. z = [y EXCEPT !.data = d, !.count = y.count + n]
    BY DEF make_room, y
  <2> HIDE DEF d, z
  <2>2. z = [data |-> d, count |-> y.count + n]
    BY <1>5, <2>1
  <2> QED
    BY <1>2, <2>2
<1> HIDE DEF d, z
<1>7. z.data = d /\ z.count = x.count + n /\ z = [data |-> z.data, count |-> z.count]
  BY <1>6
<1>8. d \in Seq(V) /\ Len(d) = m
  <2>1. m \in Nat /\ d \in [1 .. m -> V]
    BY <1>3, <1>4
  <2> HIDE DEF m
  <2> QED
    BY ONLY <2>1, FunctionIsSeq
<1>9. IxWF(z, V)
  BY <1>1, <1>2, <1>3, <1>7, <1>8 DEF IxWF
<1>10. ASSUME m <= IxBase, NEW i \in 1 .. x.count + n
       PROVE  /\ i <= at => d[i] = x.data[i]
              /\ i > at + n => d[i] = x.data[i - n]
  <2>1. i \in 1 .. m
    BY <1>1, <1>2, <1>3
  <2>2. ASSUME i <= at PROVE d[i] = x.data[i]
    <3>1. i \in 1 .. x.count /\ ~(i > at + n)
      BY <1>1, <2>2
    <3> QED
      BY <1>2, <1>4, <1>10, <2>1, <3>1
  <2>3. ASSUME i > at + n PROVE d[i] = x.data[i - n]
    <3>1. at < x.count /\ i - n \in 1 .. x.count /\ i <= x.count + n
      BY <1>1, <2>3
    <3>2. d[i] = y.data[i - n]
      BY <1>4, <2>1, <2>3, <3>1
    <3> QED
      BY <1>2, <1>10, <3>1, <3>2
  <2> QED
    BY <2>2, <2>3
<1> QED
  BY <1>7, <1>8, <1>9, <1>10 DEF z

(* What inserting into an index does to its slots.                         *)
LEMMA CopyInsertProperties ==
  ASSUME NEW V, NEW x, IxWF(x, V), NEW at \in 0 .. x.count, NEW s \in Seq(V), IndexAssumption
  PROVE  LET v == CopyInsert(x, at, s)
         IN  /\ IxWF(v, V) /\ v.count = x.count + Len(s)
             /\ Len(v.data) = Len(make_room(x, at, Len(s)).data)
             /\ Len(v.data) <= IxBase =>
                  \A i \in 1 .. v.count :
                    v.data[i] = IF i <= at THEN x.data[i]
                                ELSE IF i <= at + Len(s) THEN s[i - at]
                                ELSE x.data[i - Len(s)]
<1> DEFINE n == Len(s)
           z == make_room(x, at, n)
           e == IxPut(z.data, at, s)
           v == CopyInsert(x, at, s)
<1>1. n \in Nat /\ x.count \in Nat /\ at \in Nat /\ at <= x.count
  BY DEF IxWF
<1>2. /\ IxWF(z, V) /\ z.count = x.count + n
      /\ Len(z.data) <= IxBase =>
           \A i \in 1 .. x.count + n : /\ i <= at => z.data[i] = x.data[i]
                                       /\ i > at + n => z.data[i] = x.data[i - n]
  BY <1>1, RoomProperties
<1>3. v = [z EXCEPT !.data = e]
  BY DEF CopyInsert
<1> HIDE DEF z, n
<1>4. z.data \in Seq(V) /\ Len(z.data) \in Nat /\ x.count + n <= Len(z.data) /\ at + n <= Len(z.data)
  BY <1>1, <1>2 DEF IxWF
<1>5. /\ e \in Seq(V) /\ Len(e) = Len(z.data)
      /\ \A i \in 1 .. Len(z.data) :
           e[i] = IF i > at /\ i <= at + n THEN s[i - at] ELSE z.data[i]
  BY <1>1, <1>4, PutProperties DEF n
<1> HIDE DEF e
<1>6. IxWF(v, V) /\ v.data = e /\ v.count = x.count + n
  BY <1>2, <1>3, <1>5, IxWFData
<1> HIDE DEF v
<1>7. ASSUME Len(z.data) <= IxBase, NEW i \in 1 .. x.count + n
      PROVE  e[i] = IF i <= at THEN x.data[i]
                    ELSE IF i <= at + n THEN s[i - at]
                    ELSE x.data[i - n]
  <2>1. i \in 1 .. Len(z.data) /\ i \in Nat
    BY <1>1, <1>4
  <2>2. /\ i <= at => e[i] = z.data[i]
        /\ ~(i <= at) /\ i <= at + n => e[i] = s[i - at]
        /\ ~(i <= at) /\ ~(i <= at + n) => e[i] = z.data[i] /\ i > at + n
    BY <1>1, <1>5, <2>1
  <2> QED
    BY <1>2, <1>7, <2>2
<1> QED
  BY <1>5, <1>6, <1>7 DEF n, z, v

LEMMA SplicedProperties ==
  ASSUME NEW S, NEW q \in Seq(S), NEW at \in 0 .. Len(q), NEW s \in Seq(S)
  PROVE  /\ IxSpliced(q, at, s) \in Seq(S)
         /\ Len(IxSpliced(q, at, s)) = Len(q) + Len(s)
         /\ \A i \in 1 .. Len(q) + Len(s) :
              IxSpliced(q, at, s)[i] = IF i <= at THEN q[i]
                                       ELSE IF i <= at + Len(s) THEN s[i - at]
                                       ELSE q[i - Len(s)]
<1> DEFINE a == SubSeq(q, 1, at)
           b == SubSeq(q, at + 1, Len(q))
           n == Len(s)
<1>1. Len(q) \in Nat /\ n \in Nat /\ at \in Nat /\ at <= Len(q)
  OBVIOUS
<1>2. a \in Seq(S) /\ Len(a) = at /\ \A i \in 1 .. at : a[i] = q[i]
  BY <1>1
<1>3. b \in Seq(S) /\ Len(b) = Len(q) - at /\ \A i \in 1 .. Len(q) - at : b[i] = q[at + i]
  BY <1>1
<1> HIDE DEF a, b, n
<1>4. a \o s \in Seq(S) /\ Len(a \o s) = at + n /\
      \A i \in 1 .. at + n : (a \o s)[i] = IF i <= at THEN a[i] ELSE s[i - at]
  BY <1>2, ConcatProperties DEF n
<1> DEFINE c == a \o s
<1>5. c \in Seq(S)
  BY <1>4
<1> HIDE DEF c
<1>6. c \o b \in Seq(S) /\ Len(c \o b) = Len(c) + Len(b) /\
      \A i \in 1 .. Len(c) + Len(b) : (c \o b)[i] = IF i <= Len(c) THEN c[i] ELSE b[i - Len(c)]
  BY <1>3, <1>5, ConcatProperties
<1>7. IxSpliced(q, at, s) = c \o b
  BY DEF IxSpliced, a, b, c
<1>8. Len(c) = at + n /\ Len(c) + Len(b) = Len(q) + n
  BY <1>1, <1>3, <1>4 DEF c
<1>9. ASSUME NEW i \in 1 .. Len(q) + n
      PROVE  (c \o b)[i] = IF i <= at THEN q[i] ELSE IF i <= at + n THEN s[i - at] ELSE q[i - n]
  <2>1. CASE i <= at + n
    BY <1>1, <1>2, <1>4, <1>6, <1>8, <2>1 DEF c
  <2>2. CASE i > at + n
    <3>1. i - (at + n) \in 1 .. Len(q) - at /\ ~(i <= at) /\ ~(i <= at + n) /\ at + (i - (at + n)) = i - n
      BY <1>1, <2>2
    <3>2. (c \o b)[i] = b[i - (at + n)]
      BY <1>6, <1>8, <3>1
    <3> QED
      BY <1>3, <3>1, <3>2
  <2>3. i <= at + n \/ i > at + n
    BY <1>1
  <2> QED
    BY ONLY <2>1, <2>2, <2>3
<1> QED
  BY <1>6, <1>7, <1>8, <1>9 DEF n

\* n elements after the first `from' ones are within the first k
Within(from, n, k) == from + n <= k

(* What the slots of an index from one on hold.                            *)
LEMMA PartProperties ==
  ASSUME NEW V, NEW x, IxWF(x, V), NEW from \in Nat, NEW n \in Nat, Within(from, n, x.count)
  PROVE  /\ IxPart(x, from, n) \in Seq(V) /\ Len(IxPart(x, from, n)) = n
         /\ \A i \in 1 .. n : IxPart(x, from, n)[i] = x.data[from + i]
<1>1. x.data \in Seq(V) /\ Len(x.data) \in Nat /\ from + n <= Len(x.data)
  BY DEF IxWF, Within
<1>2. \A i \in (from + 1) .. (from + n) : x.data[i] \in V
  BY <1>1
<1> DEFINE s == x.data
           a == from + 1
           b == from + n
<1>3. a \in Int /\ b \in Int /\ b - a + 1 = n /\ (a <= b <=> n # 0) /\ n \in Nat
  OBVIOUS
<1>4. s \in Seq(V) /\ \A i \in a .. b : s[i] \in V
  BY <1>1, <1>2
<1>5. \A i \in 1 .. n : a + i - 1 = from + i
  OBVIOUS
<1>6. IxPart(x, from, n) = SubSeq(s, a, b)
  BY DEF IxPart
<1> HIDE DEF s, a, b
<1>7. /\ SubSeq(s, a, b) \in Seq(V)
      /\ Len(SubSeq(s, a, b)) = IF a <= b THEN b - a + 1 ELSE 0
      /\ \A i \in 1 .. b - a + 1 : SubSeq(s, a, b)[i] = s[a + i - 1]
  BY ONLY <1>3, <1>4, SubSeqProperties
<1>8. \A i \in 1 .. n : SubSeq(s, a, b)[i] = s[from + i]
  BY <1>3, <1>5, <1>7
<1> QED
  BY <1>3, <1>6, <1>7, <1>8 DEF s

LEMMA HoldsIsPart ==
  ASSUME NEW V, NEW x, IxWF(x, V), NEW q \in Seq(V)
  PROVE  IxHolds(x, q) <=> IxPart(x, 0, x.count) = q
<1> DEFINE p == IxPart(x, 0, x.count)
<1>1. PICK z \in Nat : z = 0
  OBVIOUS
<1>2. p \in Seq(V) /\ Len(p) = x.count /\ \A i \in 1 .. x.count : p[i] = x.data[0 + i]
  <2>1. x.count \in Nat /\ Within(z, x.count, x.count)
    BY <1>1 DEF IxWF, Within
  <2>2. LET w == IxPart(x, z, x.count)
        IN  w \in Seq(V) /\ Len(w) = x.count /\ \A i \in 1 .. x.count : w[i] = x.data[z + i]
    BY <2>1, PartProperties
  <2> QED
    BY <1>1, <2>2
<1>3. \A i \in 1 .. x.count : p[i] = x.data[i]
  BY <1>1, <1>2
<1> HIDE DEF p
<1>4. IxHolds(x, q) => p = q
  <2> SUFFICES ASSUME IxHolds(x, q) PROVE p = q
    OBVIOUS
  <2>1. Len(q) = Len(p) /\ \A i \in 1 .. Len(p) : p[i] = q[i]
    BY <1>2, <1>3 DEF IxHolds
  <2> QED
    BY <1>2, <2>1
<1>5. p = q => IxHolds(x, q)
  BY <1>2, <1>3 DEF IxHolds
<1> QED
  BY <1>4, <1>5 DEF p

IndexTypes(V) ==
  /\ index \in [Ix -> [data : Seq(V), count : Nat]]
  /\ ixseq \in [Ix -> Seq(V)]
  /\ ixgrown \in BOOLEAN
  /\ IxValue \subseteq V
  /\ \A x \in Ix : /\ IxWF(index[x], V)
                   /\ Len(ixseq[x]) = index[x].count
                   /\ ~ixgrown => IxHolds(index[x], ixseq[x])

IndexInv == IndexTypes(IxValue \cup {IxNull})

LEMMA IndexInvExact == IndexInv => IndexExact
<1> SUFFICES ASSUME IndexInv, NEW x \in Ix
             PROVE  /\ index[x].count = Len(ixseq[x]) /\ index[x].count <= IxSize(index[x])
                    /\ ~ixgrown => IxPart(index[x], 0, index[x].count) = ixseq[x]
  BY DEF IndexExact
<1> DEFINE V == IxValue \cup {IxNull}
<1>1. IndexTypes(V)
  BY DEF IndexInv
<1> HIDE DEF V
<1>2. /\ IxWF(index[x], V) /\ ixseq[x] \in Seq(V) /\ Len(ixseq[x]) = index[x].count
      /\ ~ixgrown => IxHolds(index[x], ixseq[x])
  BY <1>1 DEF IndexTypes
<1>3. ~ixgrown => IxPart(index[x], 0, index[x].count) = ixseq[x]
  BY <1>2, HoldsIsPart
<1> QED
  BY <1>2, <1>3 DEF IxWF, IxSize

(* Every function that changes an index leaves a good one behind, and as   *)
(* long as no array had to be copied the values its callers expect.        *)
LEMMA IxUpdateStep ==
  ASSUME NEW V, IndexTypes(V), NEW x \in Ix, NEW v, NEW q, IxUpdate(x, v, q),
         IxWF(v, V),
         ~ixgrown /\ Len(v.data) <= IxBase => q \in Seq(V) /\ IxHolds(v, q),
         IndexAssumption
  PROVE  IndexTypes(V)'
<1> DEFINE r == IF ixgrown' THEN IxPart(v, 0, v.count) ELSE q
<1>1. /\ index' = [index EXCEPT ![x] = v]
      /\ ixgrown' = (ixgrown \/ Len(v.data) > IxBase)
      /\ ixseq' = [ixseq EXCEPT ![x] = r]
  BY DEF IxUpdate, IxSize
<1>2. ixgrown \in BOOLEAN /\ Len(v.data) \in Nat /\ IxBase \in Nat /\ v.count \in Nat
  BY DEF IndexTypes, IxWF, IndexAssumption
<1>3. ixgrown' \in BOOLEAN /\ (~ixgrown' => ~ixgrown /\ Len(v.data) <= IxBase)
  <2> DEFINE over == Len(v.data) > IxBase
  <2>1. over \in BOOLEAN /\ (~over => Len(v.data) <= IxBase)
    BY <1>2
  <2>2. ixgrown' = (ixgrown \/ over)
    BY <1>1
  <2> HIDE DEF over
  <2> QED
    BY <1>2, <2>1, <2>2, Zenon
<1>4. r \in Seq(V) /\ Len(r) = v.count /\ (~ixgrown' => IxHolds(v, r))
  <2>1. CASE ixgrown'
    <3>1. PICK z \in Nat : z = 0
      OBVIOUS
    <3>2. v.count \in Nat /\ Within(z, v.count, v.count)
      BY <1>2, <3>1 DEF Within
    <3>3. LET w == IxPart(v, z, v.count) IN w \in Seq(V) /\ Len(w) = v.count
      BY <1>2, <3>2, PartProperties
    <3> QED
      BY <1>2, <2>1, <3>1, <3>3
  <2>2. CASE ~ixgrown'
    BY <1>3, <2>2 DEF IxHolds
  <2> QED
    BY <2>1, <2>2
<1> HIDE DEF r
<1>5. v \in [data : Seq(V), count : Nat]
  BY DEF IxWF
<1>7. index \in [Ix -> [data : Seq(V), count : Nat]] /\ ixseq \in [Ix -> Seq(V)]
  BY DEF IndexTypes
<1>8. index' \in [Ix -> [data : Seq(V), count : Nat]] /\ ixseq' \in [Ix -> Seq(V)]
  BY <1>1, <1>4, <1>5, <1>7
<1>9. ASSUME NEW y \in Ix
      PROVE  /\ IxWF(index'[y], V)
             /\ Len(ixseq'[y]) = index'[y].count
             /\ ~ixgrown' => IxHolds(index'[y], ixseq'[y])
  <2>1. CASE y = x
    BY <1>1, <1>4, <1>7, <2>1
  <2>2. CASE y # x
    <3>1. index'[y] = index[y] /\ ixseq'[y] = ixseq[y]
      BY <1>1, <1>7, <2>2
    <3>2. /\ IxWF(index[y], V)
          /\ Len(ixseq[y]) = index[y].count
          /\ ~ixgrown => IxHolds(index[y], ixseq[y])
      BY DEF IndexTypes
    <3> QED
      BY <1>3, <3>1, <3>2
  <2> QED
    BY <2>1, <2>2
<1>10. IxValue \subseteq V
  BY DEF IndexTypes
<1> QED
  BY <1>3, <1>8, <1>9, <1>10 DEF IndexTypes

LEMMA MoveProperties ==
  ASSUME NEW V, NEW d \in Seq(V), NEW from \in Nat, NEW to \in Nat, NEW n \in Nat,
         from + n <= Len(d), to + n <= Len(d)
  PROVE  /\ IxMove(d, from, to, n) \in Seq(V) /\ Len(IxMove(d, from, to, n)) = Len(d)
         /\ \A i \in 1 .. Len(d) :
              IxMove(d, from, to, n)[i] = IF i > to /\ i <= to + n THEN d[i - to + from] ELSE d[i]
<1> DEFINE e == IxMove(d, from, to, n)
           m == Len(d)
<1>0. m \in Nat /\ d \in [1 .. m -> V] /\ from + n <= m /\ to + n <= m
  OBVIOUS
<1> HIDE DEF m
<1>1. e = [i \in 1 .. m |-> IF i \in (to + 1) .. (to + n) THEN d[i - to + from] ELSE d[i]]
  BY <1>0 DEF IxMove
<1> HIDE DEF e
<1>2. \A i \in 1 .. m : e[i] = IF i > to /\ i <= to + n THEN d[i - to + from] ELSE d[i]
  BY <1>0, <1>1
<1>3. \A i \in 1 .. m : i > to /\ i <= to + n => i - to + from \in 1 .. m
  BY <1>0
<1>4. \A i \in 1 .. m : e[i] \in V
  BY <1>0, <1>2, <1>3
<1>5. e \in Seq(V) /\ Len(e) = m
  BY <1>0, <1>1, <1>4
<1> QED
  BY <1>2, <1>5 DEF e, m

LEMMA SpliceStep ==
  ASSUME NEW V, IndexTypes(V), NEW x \in Ix, NEW at \in 0 .. index[x].count, NEW s \in Seq(V), NEW t,
         ~ixgrown /\ Len(CopyInsert(index[x], at, s).data) <= IxBase => t = s,
         IxUpdate(x, CopyInsert(index[x], at, s), IxSpliced(ixseq[x], at, t)),
         IndexAssumption
  PROVE  IndexTypes(V)'
<1> DEFINE b == index[x]
           v == CopyInsert(b, at, s)
           q == ixseq[x]
<1>1. /\ IxWF(b, V) /\ q \in Seq(V) /\ Len(q) = b.count /\ at \in 0 .. b.count
      /\ ~ixgrown => IxHolds(b, q)
      /\ ~ixgrown /\ Len(v.data) <= IxBase => t = s
  BY DEF IndexTypes
<1> HIDE DEF b, q
<1>2. /\ IxWF(v, V) /\ v.count = b.count + Len(s)
      /\ Len(v.data) <= IxBase =>
           \A i \in 1 .. v.count :
             v.data[i] = IF i <= at THEN b.data[i]
                         ELSE IF i <= at + Len(s) THEN s[i - at]
                         ELSE b.data[i - Len(s)]
  BY <1>1, CopyInsertProperties
<1> HIDE DEF v
<1>3. ASSUME ~ixgrown, Len(v.data) <= IxBase
      PROVE  IxSpliced(q, at, t) \in Seq(V) /\ IxHolds(v, IxSpliced(q, at, t))
  <2> DEFINE n == Len(s)
             p == IxSpliced(q, at, s)
  <2>1. n \in Nat /\ b.count \in Nat /\ at \in Nat /\ at <= b.count
    BY <1>1 DEF IxWF
  <2>2. /\ p \in Seq(V) /\ Len(p) = b.count + n
        /\ \A i \in 1 .. b.count + n :
             p[i] = IF i <= at THEN q[i] ELSE IF i <= at + n THEN s[i - at] ELSE q[i - n]
    <3>1. q \in Seq(V) /\ at \in 0 .. Len(q)
      BY <1>1
    <3> HIDE DEF p
    <3>2. /\ p \in Seq(V) /\ Len(p) = Len(q) + n
          /\ \A i \in 1 .. Len(q) + n :
               p[i] = IF i <= at THEN q[i] ELSE IF i <= at + n THEN s[i - at] ELSE q[i - n]
      BY <3>1, SplicedProperties DEF p
    <3> QED
      BY <1>1, <3>2
  <2>3. \A i \in 1 .. b.count : q[i] = b.data[i]
    BY <1>1, <1>3 DEF IxHolds
  <2> HIDE DEF n, p
  <2>4. ASSUME NEW i \in 1 .. b.count + n PROVE p[i] = v.data[i]
    <3>1. /\ i <= at => i \in 1 .. b.count
          /\ ~(i <= at + n) => i - n \in 1 .. b.count
      BY <2>1
    <3> QED
      BY <1>2, <1>3, <2>2, <2>3, <3>1 DEF n
  <2>5. IxHolds(v, p)
    BY <1>2, <2>2, <2>4 DEF IxHolds, n
  <2> QED
    BY <1>1, <1>3, <2>2, <2>5 DEF p
<1> QED
  BY <1>2, <1>3, IxUpdateStep DEF v, q, b

LEMMA IndexInsertStep ==
  ASSUME NEW V, IndexTypes(V), NEW x \in Ix, NEW at \in 0 .. index[x].count, NEW e \in IxValue,
         mowgli_index_insert(x, at, e), IndexAssumption
  PROVE  IndexTypes(V)'
<1>1. <<e>> \in Seq(V)
  BY DEF IndexTypes
<1> DEFINE s == <<e>>
<1>2. s \in Seq(V) /\ IxUpdate(x, CopyInsert(index[x], at, s), IxSpliced(ixseq[x], at, s))
  BY <1>1 DEF mowgli_index_insert
<1> HIDE DEF s
<1> QED
  BY <1>2, SpliceStep

LEMMA SetStep ==
  ASSUME NEW V, IndexTypes(V), NEW x \in Ix, NEW at \in 0 .. index[x].count, NEW e \in IxValue,
         mowgli_index_set(x, at, e), IndexAssumption
  PROVE  IndexTypes(V)'
<1> DEFINE b == index[x]
           d == [b.data EXCEPT ![at + 1] = e]
           v == [b EXCEPT !.data = d]
           q == ixseq[x]
           r == [q EXCEPT ![at + 1] = e]
<1>1. /\ IxWF(b, V) /\ q \in Seq(V) /\ Len(q) = b.count /\ at \in 0 .. b.count
      /\ ~ixgrown => IxHolds(b, q)
      /\ e \in V
  BY DEF IndexTypes
<1>2. at < b.count /\ IxUpdate(x, v, r)
  BY DEF mowgli_index_set
<1> HIDE DEF b, q
<1>3. at + 1 \in 1 .. b.count /\ b.count \in Nat /\ b.count <= Len(b.data) /\ Len(b.data) \in Nat
      /\ b.data \in [1 .. Len(b.data) -> V]
  BY <1>1, <1>2 DEF IxWF
<1>4. d \in [1 .. Len(b.data) -> V] /\ \A i \in 1 .. Len(b.data) : d[i] = IF i = at + 1 THEN e ELSE b.data[i]
  BY <1>1, <1>3
<1> HIDE DEF d
<1>5. IxWF(v, V) /\ v.data = d /\ v.count = b.count
  <2>1. d \in Seq(V) /\ Len(d) = Len(b.data)
    BY <1>3, <1>4, SMTT(30)
  <2> QED
    BY <1>1, <2>1, IxWFData
<1> HIDE DEF v
<1>6. r \in Seq(V) /\ Len(r) = Len(q) /\ \A i \in 1 .. Len(q) : r[i] = IF i = at + 1 THEN e ELSE q[i]
  <2>1. q \in [1 .. Len(q) -> V] /\ Len(q) \in Nat
    BY <1>1
  <2>2. r \in [1 .. Len(q) -> V] /\ \A i \in 1 .. Len(q) : r[i] = IF i = at + 1 THEN e ELSE q[i]
    BY <1>1, <2>1
  <2> HIDE DEF r
  <2> QED
    BY <2>1, <2>2
<1> HIDE DEF r
<1>7. ~ixgrown => IxHolds(v, r)
  BY <1>1, <1>3, <1>4, <1>5, <1>6 DEF IxHolds
<1> QED
  BY <1>2, <1>5, <1>6, <1>7, IxUpdateStep DEF b, v

(* Moving slots of an array and values of the sequence it holds.           *)
LEMMA MoveHolds ==
  ASSUME NEW V, NEW b, IxWF(b, V), NEW q \in Seq(V), Len(q) = b.count,
         NEW from \in Nat, NEW to \in Nat, NEW n \in Nat, from + n <= b.count, to + n <= b.count
  PROVE  LET v == [b EXCEPT !.data = IxMove(b.data, from, to, n)]
             r == IxMove(q, from, to, n)
         IN  /\ IxWF(v, V) /\ v.count = b.count
             /\ r \in Seq(V) /\ Len(r) = b.count
             /\ IxHolds(b, q) => IxHolds(v, r)
<1> DEFINE a == b.data
           m == Len(a)
           k == b.count
           d == IxMove(a, from, to, n)
           v == [b EXCEPT !.data = d]
           r == IxMove(q, from, to, n)
<1>1. /\ a \in Seq(V) /\ m \in Nat /\ k \in Nat /\ k <= m /\ q \in Seq(V) /\ Len(q) = k
      /\ from + n <= m /\ to + n <= m /\ from + n <= k /\ to + n <= k
  BY DEF IxWF
<1> HIDE DEF a, k
<1>2. d \in Seq(V) /\ Len(d) = m /\
      \A i \in 1 .. m : d[i] = IF i > to /\ i <= to + n THEN a[i - to + from] ELSE a[i]
  BY <1>1, MoveProperties
<1>3. r \in Seq(V) /\ Len(r) = k /\
      \A i \in 1 .. k : r[i] = IF i > to /\ i <= to + n THEN q[i - to + from] ELSE q[i]
  BY <1>1, MoveProperties
<1> HIDE DEF d, m
<1>4. IxWF(v, V) /\ v.data = d /\ v.count = k
  BY <1>2, IxWFData DEF k, m, a
<1> HIDE DEF v, r
<1>6. IxHolds(b, q) => IxHolds(v, r)
  <2> SUFFICES ASSUME IxHolds(b, q), NEW i \in 1 .. k PROVE r[i] = d[i]
    BY <1>3, <1>4 DEF IxHolds
  <2>1. \A j \in 1 .. k : q[j] = a[j]
    BY DEF IxHolds, k, a
  <2>2. i \in 1 .. m /\ (i > to /\ i <= to + n => i - to + from \in 1 .. k)
    BY <1>1
  <2> QED
    BY <1>2, <1>3, <2>1, <2>2
<1> QED
  BY <1>3, <1>4, <1>6 DEF k, a, d, v, r

LEMMA MoveStep ==
  ASSUME NEW V, IndexTypes(V), NEW x \in Ix, NEW from \in 0 .. index[x].count,
         NEW to \in 0 .. index[x].count, NEW n \in 1 .. IxMaxCount,
         mowgli_index_move(x, from, to, n), IndexAssumption
  PROVE  IndexTypes(V)'
<1> DEFINE b == index[x]
           q == ixseq[x]
           v == [b EXCEPT !.data = IxMove(b.data, from, to, n)]
           r == IxMove(q, from, to, n)
<1>1. /\ IxWF(b, V) /\ q \in Seq(V) /\ Len(q) = b.count
      /\ from \in 0 .. b.count /\ to \in 0 .. b.count
      /\ ~ixgrown => IxHolds(b, q)
      /\ n \in Nat
  BY DEF IndexTypes, IndexAssumption
<1>2. from + n <= b.count /\ to + n <= b.count /\ IxUpdate(x, v, r)
  BY DEF mowgli_index_move
<1> HIDE DEF b, q
<1>3. from \in Nat /\ to \in Nat
  BY <1>1 DEF IxWF
<1>4. /\ IxWF(v, V) /\ r \in Seq(V)
      /\ IxHolds(b, q) => IxHolds(v, r)
  BY <1>1, <1>2, <1>3, MoveHolds
<1> QED
  BY <1>1, <1>2, <1>4, IxUpdateStep

(* The same part of two indexes that hold the same.                        *)
LEMMA PartHolds ==
  ASSUME NEW V, NEW b, IxWF(b, V), NEW q \in Seq(V), Len(q) = b.count,
         NEW from \in Nat, NEW n \in Nat, Within(from, n, b.count)
  PROVE  LET s == IxPart(b, from, n)
             t == SubSeq(q, from + 1, from + n)
         IN  /\ s \in Seq(V) /\ Len(s) = n
             /\ t \in Seq(V) /\ Len(t) = n
             /\ IxHolds(b, q) => t = s
<1> DEFINE s == IxPart(b, from, n)
           c == [data |-> q, count |-> b.count]
           t == IxPart(c, from, n)
<1>1. s \in Seq(V) /\ Len(s) = n /\ \A i \in 1 .. n : s[i] = b.data[from + i]
  BY PartProperties
<1>2. /\ t = SubSeq(q, from + 1, from + n)
      /\ t \in Seq(V) /\ Len(t) = n /\ \A i \in 1 .. n : t[i] = q[from + i]
  <2> DEFINE u == from + 1
             w == from + n
  <2>1. u \in Int /\ w \in Int /\ w - u + 1 = n /\ (u <= w <=> n # 0) /\ n \in Nat
    OBVIOUS
  <2>2. \A i \in u .. w : q[i] \in V
    BY DEF IxWF, Within
  <2>3. \A i \in 1 .. n : u + i - 1 = from + i
    OBVIOUS
  <2>4. t = SubSeq(q, u, w)
    BY DEF IxPart
  <2> HIDE DEF u, w, t
  <2>5. /\ SubSeq(q, u, w) \in Seq(V)
        /\ Len(SubSeq(q, u, w)) = IF u <= w THEN w - u + 1 ELSE 0
        /\ \A i \in 1 .. w - u + 1 : SubSeq(q, u, w)[i] = q[u + i - 1]
    BY ONLY <2>1, <2>2, SubSeqProperties
  <2>6. \A i \in 1 .. n : SubSeq(q, u, w)[i] = q[from + i]
    BY <2>1, <2>3, <2>5
  <2> QED
    BY <2>1, <2>4, <2>5, <2>6 DEF u, w
<1> HIDE DEF s, t
<1>3. IxHolds(b, q) => t = s
  <2> SUFFICES ASSUME IxHolds(b, q) PROVE t = s
    OBVIOUS
  <2>1. \A i \in 1 .. n : from + i \in 1 .. b.count
    BY DEF IxWF, Within
  <2>2. \A i \in 1 .. n : t[i] = s[i]
    BY <1>1, <1>2, <2>1 DEF IxHolds
  <2>3. s \in Seq(V) /\ t \in Seq(V) /\ Len(s) = n /\ Len(t) = n
    BY <1>1, <1>2
  <2> QED
    BY ONLY <2>2, <2>3
<1> QED
  BY <1>1, <1>2, <1>3 DEF s

(* A part of an index that is copied into itself, when room was made.      *)
LEMMA SelfPart ==
  ASSUME NEW V, NEW b, IxWF(b, V), NEW q \in Seq(V), Len(q) = b.count,
         NEW from \in Nat, NEW to \in 0 .. b.count, NEW n \in Nat \ {0},
         from + n <= b.count, from + n <= to \/ to + n <= from, IndexAssumption
  PROVE  LET z == make_room(b, to, n)
             s == IxPart(z, from, n)
             at == IF from > to THEN from - n ELSE from
         IN  /\ s \in Seq(V) /\ Len(s) = n
             /\ IxHolds(b, q) /\ Len(z.data) <= IxBase => SubSeq(q, at + 1, at + n) = s
<1> DEFINE z == make_room(b, to, n)
           s == IxPart(z, from, n)
           at == IF from > to THEN from - n ELSE from
           u == IxPart(b, at, n)
           t == SubSeq(q, at + 1, at + n)
<1>1. /\ IxWF(z, V) /\ z.count = b.count + n
      /\ Len(z.data) <= IxBase =>
           \A i \in 1 .. b.count + n : /\ i <= to => z.data[i] = b.data[i]
                                       /\ i > to + n => z.data[i] = b.data[i - n]
  BY RoomProperties
<1> HIDE DEF z
<1>2. b.count \in Nat /\ to \in Nat /\ n \in Nat
  BY DEF IxWF
<1>3. at \in Nat /\ Within(at, n, b.count) /\ Within(from, n, z.count)
  BY <1>1, <1>2 DEF Within
<1>4. \A i \in 1 .. n :
        \/ from + i <= to /\ from + i \in 1 .. b.count + n /\ at + i = from + i
        \/ from + i > to + n /\ from + i \in 1 .. b.count + n /\ at + i = (from + i) - n
  BY <1>2
<1> HIDE DEF at
<1>5. s \in Seq(V) /\ Len(s) = n /\ \A i \in 1 .. n : s[i] = z.data[from + i]
  <2>1. IxWF(z, V) /\ from \in Nat /\ n \in Nat /\ Within(from, n, z.count)
    BY <1>1, <1>2, <1>3
  <2> QED
    BY ONLY <2>1, PartProperties
<1>6. u \in Seq(V) /\ Len(u) = n /\ \A i \in 1 .. n : u[i] = b.data[at + i]
  BY <1>2, <1>3, PartProperties
<1>7. IxHolds(b, q) => t = u
  BY <1>2, <1>3, PartHolds
<1> HIDE DEF s, u, t
<1>8. ASSUME Len(z.data) <= IxBase PROVE u = s
  <2>1. \A i \in 1 .. n : u[i] = s[i]
    BY <1>1, <1>4, <1>5, <1>6, <1>8
  <2> QED
    BY ONLY <1>5, <1>6, <2>1
<1> QED
  BY <1>5, <1>7, <1>8 DEF s, t, at, z

LEMMA CopyInsertStep ==
  ASSUME NEW V, IndexTypes(V), NEW x \in Ix, NEW y \in Ix, NEW from \in 0 .. index[x].count,
         NEW to \in 0 .. index[y].count, NEW n \in 1 .. IxMaxCount,
         mowgli_index_copy_insert(x, from, y, to, n), IndexAssumption
  PROVE  IndexTypes(V)'
<1> DEFINE b == index[x]
           q == ixseq[x]
           z == make_room(index[y], to, n)
           at == IF x = y /\ from > to THEN from - n ELSE from
           s == IxPart(IF x = y THEN z ELSE b, from, n)
           t == SubSeq(q, at + 1, at + n)
<1>1. /\ IxWF(b, V) /\ q \in Seq(V) /\ (~ixgrown => IxHolds(b, q))
      /\ Len(q) = b.count /\ n \in Nat \ {0} /\ from \in 0 .. b.count
      /\ IxWF(index[y], V)
  BY DEF IndexTypes, IndexAssumption
<1>2. /\ from + n <= b.count
      /\ x = y => from + n <= to \/ to + n <= from
      /\ IxUpdate(y, CopyInsert(index[y], to, s), IxSpliced(ixseq[y], to, t))
  BY DEF mowgli_index_copy_insert, IxApart
<1>3. from \in Nat
  BY <1>1 DEF IxWF
<1>4. s \in Seq(V) /\ Len(s) = n /\ (~ixgrown /\ Len(z.data) <= IxBase => t = s)
  <2>1. CASE x # y
    <3>1. /\ IxWF(b, V) /\ q \in Seq(V) /\ Len(q) = b.count
          /\ n \in Nat /\ from \in Nat /\ Within(from, n, b.count)
      BY <1>1, <1>2, <1>3 DEF Within
    <3> HIDE DEF b, q
    <3>2. LET p == IxPart(b, from, n)
          IN  p \in Seq(V) /\ Len(p) = n /\ (IxHolds(b, q) => SubSeq(q, from + 1, from + n) = p)
      BY ONLY <3>1, PartHolds
    <3> QED
      BY <1>1, <2>1, <3>2
  <2>2. CASE x = y
    <3>1. /\ IxWF(b, V) /\ q \in Seq(V) /\ Len(q) = b.count /\ from \in Nat
          /\ to \in 0 .. b.count /\ n \in Nat \ {0} /\ from + n <= b.count
          /\ from + n <= to \/ to + n <= from
          /\ IndexAssumption
      BY <1>1, <1>2, <1>3, <2>2
    <3> HIDE DEF b, q
    <3>2. LET w == make_room(b, to, n)
              p == IxPart(w, from, n)
              a == IF from > to THEN from - n ELSE from
          IN  /\ p \in Seq(V) /\ Len(p) = n
              /\ IxHolds(b, q) /\ Len(w.data) <= IxBase => SubSeq(q, a + 1, a + n) = p
      BY ONLY <3>1, SelfPart
    <3>3. z = make_room(b, to, n)
      BY <2>2 DEF b
    <3> QED
      BY <1>1, <2>2, <3>2, <3>3
  <2> QED
    BY <2>1, <2>2
<1> HIDE DEF s, t
<1>5. Len(CopyInsert(index[y], to, s).data) = Len(z.data)
  BY <1>1, <1>4, CopyInsertProperties
<1> QED
  BY <1>2, <1>4, <1>5, SpliceStep

(* Values put into the slots of an array and into the sequence it holds.   *)
LEMMA PutHolds ==
  ASSUME NEW V, NEW b, IxWF(b, V), NEW q \in Seq(V), Len(q) = b.count,
         NEW at \in Nat, NEW s \in Seq(V), at + Len(s) <= b.count
  PROVE  LET v == [b EXCEPT !.data = IxPut(b.data, at, s)]
             r == IxPut(q, at, s)
         IN  /\ IxWF(v, V) /\ v.count = b.count
             /\ r \in Seq(V) /\ Len(r) = b.count
             /\ IxHolds(b, q) => IxHolds(v, r)
<1> DEFINE a == b.data
           m == Len(a)
           k == b.count
           d == IxPut(a, at, s)
           v == [b EXCEPT !.data = d]
           r == IxPut(q, at, s)
<1>1. /\ a \in Seq(V) /\ m \in Nat /\ k \in Nat /\ k <= m /\ q \in Seq(V) /\ Len(q) = k
      /\ Len(s) \in Nat /\ at + Len(s) <= m /\ at + Len(s) <= k
  BY DEF IxWF
<1> HIDE DEF a, k
<1>2. d \in Seq(V) /\ Len(d) = m /\
      \A i \in 1 .. m : d[i] = IF i > at /\ i <= at + Len(s) THEN s[i - at] ELSE a[i]
  BY <1>1, PutProperties
<1>3. r \in Seq(V) /\ Len(r) = k /\
      \A i \in 1 .. k : r[i] = IF i > at /\ i <= at + Len(s) THEN s[i - at] ELSE q[i]
  BY <1>1, PutProperties
<1> HIDE DEF d, m
<1>4. IxWF(v, V) /\ v.data = d /\ v.count = k
  BY <1>2, IxWFData DEF k, m, a
<1> HIDE DEF v, r
<1>6. IxHolds(b, q) => IxHolds(v, r)
  <2> SUFFICES ASSUME IxHolds(b, q), NEW i \in 1 .. k PROVE r[i] = d[i]
    BY <1>3, <1>4 DEF IxHolds
  <2>1. \A j \in 1 .. k : q[j] = a[j]
    BY DEF IxHolds, k, a
  <2>2. i \in 1 .. m
    BY <1>1
  <2> QED
    BY <1>2, <1>3, <2>1, <2>2
<1> QED
  BY <1>3, <1>4, <1>6 DEF k, a, d, v, r

LEMMA PutStep ==
  ASSUME NEW V, IndexTypes(V), NEW x \in Ix, NEW at \in Nat, NEW s \in Seq(V), NEW t,
         at + Len(s) <= index[x].count,
         ~ixgrown => t = s,
         IxUpdate(x, [index[x] EXCEPT !.data = IxPut(index[x].data, at, s)], IxPut(ixseq[x], at, t)),
         IndexAssumption
  PROVE  IndexTypes(V)'
<1> DEFINE b == index[x]
           q == ixseq[x]
           v == [b EXCEPT !.data = IxPut(b.data, at, s)]
<1>1. /\ IxWF(b, V) /\ q \in Seq(V) /\ Len(q) = b.count
      /\ ~ixgrown => IxHolds(b, q)
      /\ at + Len(s) <= b.count
      /\ IxUpdate(x, v, IxPut(q, at, t))
  BY DEF IndexTypes
<1> HIDE DEF b, q
<1>2. /\ IxWF(v, V) /\ IxPut(q, at, s) \in Seq(V)
      /\ IxHolds(b, q) => IxHolds(v, IxPut(q, at, s))
  BY <1>1, PutHolds
<1> QED
  BY <1>1, <1>2, IxUpdateStep

LEMMA CopySetStep ==
  ASSUME NEW V, IndexTypes(V), NEW x \in Ix, NEW y \in Ix, NEW from \in 0 .. index[x].count,
         NEW to \in 0 .. index[y].count, NEW n \in 1 .. IxMaxCount,
         mowgli_index_copy_set(x, from, y, to, n), IndexAssumption
  PROVE  IndexTypes(V)'
<1> DEFINE b == index[x]
           q == ixseq[x]
           s == IxPart(b, from, n)
           t == SubSeq(q, from + 1, from + n)
<1>1. /\ IxWF(b, V) /\ q \in Seq(V) /\ (~ixgrown => IxHolds(b, q))
      /\ Len(q) = b.count /\ n \in Nat /\ from \in 0 .. b.count
      /\ index[y].count \in Nat
  BY DEF IndexTypes, IndexAssumption, IxWF
<1>2. /\ from + n <= b.count /\ to + n <= index[y].count
      /\ IxUpdate(y, [index[y] EXCEPT !.data = IxPut(index[y].data, to, s)], IxPut(ixseq[y], to, t))
  BY DEF mowgli_index_copy_set
<1> HIDE DEF b, q
<1>3. from \in Nat /\ to \in Nat
  BY <1>1 DEF IxWF
<1>4. s \in Seq(V) /\ Len(s) = n /\ (~ixgrown => t = s)
  <2>1. /\ IxWF(b, V) /\ q \in Seq(V) /\ Len(q) = b.count
        /\ n \in Nat /\ from \in Nat /\ Within(from, n, b.count)
    BY <1>1, <1>2, <1>3 DEF Within
  <2>2. s \in Seq(V) /\ Len(s) = n /\ (IxHolds(b, q) => t = s)
    BY ONLY <2>1, PartHolds
  <2> QED
    BY <1>1, <2>2
<1> HIDE DEF s, t
<1> QED
  BY <1>2, <1>3, <1>4, PutStep

IxCut(q, at, n) == SubSeq(q, 1, at) \o SubSeq(q, at + n + 1, Len(q))

\* a sequence without n of its elements, from the one after `at' on
LEMMA CutProperties ==
  ASSUME NEW S, NEW q \in Seq(S), NEW at \in Nat, NEW n \in Nat, Within(at, n, Len(q))
  PROVE  /\ IxCut(q, at, n) \in Seq(S) /\ Len(IxCut(q, at, n)) = Len(q) - n
         /\ \A i \in 1 .. Len(q) - n : IxCut(q, at, n)[i] = IF i <= at THEN q[i] ELSE q[i + n]
<1> DEFINE a == SubSeq(q, 1, at)
           b == SubSeq(q, at + n + 1, Len(q))
<1>1. Len(q) \in Nat /\ at <= Len(q) /\ at + n <= Len(q)
  BY DEF Within
<1>2. a \in Seq(S) /\ Len(a) = at /\ \A i \in 1 .. at : a[i] = q[i]
  BY <1>1
<1>3. b \in Seq(S) /\ Len(b) = Len(q) - at - n /\ \A i \in 1 .. Len(q) - at - n : b[i] = q[at + n + i]
  BY <1>1
<1> HIDE DEF a, b
<1>4. a \o b \in Seq(S) /\ Len(a \o b) = Len(a) + Len(b) /\
      \A i \in 1 .. Len(a) + Len(b) : (a \o b)[i] = IF i <= Len(a) THEN a[i] ELSE b[i - Len(a)]
  BY <1>2, <1>3, ConcatProperties
<1>5. ASSUME NEW i \in 1 .. Len(q) - n
      PROVE  (a \o b)[i] = IF i <= at THEN q[i] ELSE q[i + n]
  <2>0. i \in 1 .. Len(a) + Len(b) /\ i \in Nat /\ (i <= at \/ i > at)
    BY <1>1, <1>2, <1>3
  <2>1. CASE i <= at
    <3>1. i \in 1 .. at
      BY <2>0, <2>1
    <3> QED
      BY <1>2, <1>4, <2>0, <2>1, <3>1
  <2>2. CASE i > at
    <3>1. i - at \in 1 .. Len(q) - at - n /\ at + n + (i - at) = i + n /\ ~(i <= at)
      BY <1>1, <2>2
    <3>2. (a \o b)[i] = b[i - at]
      BY <1>2, <1>4, <2>0, <3>1
    <3> QED
      BY <1>3, <3>1, <3>2
  <2> QED
    BY ONLY <2>0, <2>1, <2>2
<1>6. Len(a \o b) = Len(q) - n
  BY <1>1, <1>2, <1>3, <1>4
<1> QED
  BY <1>4, <1>5, <1>6 DEF a, b, IxCut

LEMMA IxRecord ==
  ASSUME NEW V, NEW x, IxWF(x, V), NEW d, NEW c, NEW v, v = [x EXCEPT !.data = d, !.count = c]
  PROVE  v = [data |-> d, count |-> c]
<1>1. x = [data |-> x.data, count |-> x.count]
  BY DEF IxWF
<1> QED
  BY <1>1

LEMMA DeleteHolds ==
  ASSUME NEW V, NEW b, IxWF(b, V), NEW q \in Seq(V), Len(q) = b.count,
         NEW at \in Nat, NEW n \in Nat, at + n <= b.count
  PROVE  LET v == [b EXCEPT !.data = IxMove(b.data, at + n, at, b.count - n - at),
                            !.count = b.count - n]
             r == IxCut(q, at, n)
         IN  /\ IxWF(v, V) /\ r \in Seq(V)
             /\ IxHolds(b, q) => IxHolds(v, r)
<1> DEFINE a == b.data
           m == Len(a)
           k == b.count
           rest == k - n - at
           d == IxMove(a, at + n, at, rest)
           c == k - n
           v == [b EXCEPT !.data = d, !.count = c]
           r == IxCut(q, at, n)
<1>0. a \in Seq(V) /\ m \in Nat /\ k \in Nat /\ k <= m /\ at + n <= k
  BY DEF IxWF
<1> HIDE DEF a, m, k
<1>1. /\ rest \in Nat
      /\ at + n \in Nat /\ at + n + rest <= m /\ at + rest <= m /\ at + n + rest = k
      /\ c \in Nat /\ c <= m /\ c = at + rest
  BY <1>0
<1> HIDE DEF rest
<1>2. d \in Seq(V) /\ Len(d) = m /\
      \A i \in 1 .. m : d[i] = IF i > at /\ i <= at + rest THEN a[i - at + (at + n)] ELSE a[i]
  <2>1. at + n + rest <= Len(a) /\ at + rest <= Len(a)
    BY <1>1 DEF m
  <2> QED
    BY <1>0, <1>1, <2>1, MoveProperties DEF m
<1>3. r \in Seq(V) /\ Len(r) = c /\ \A i \in 1 .. c : r[i] = IF i <= at THEN q[i] ELSE q[i + n]
  <2>1. q \in Seq(V) /\ at \in Nat /\ n \in Nat /\ Within(at, n, Len(q)) /\ Len(q) = k
    BY <1>0 DEF k, Within
  <2>2. r \in Seq(V) /\ Len(r) = Len(q) - n
        /\ \A i \in 1 .. Len(q) - n : r[i] = IF i <= at THEN q[i] ELSE q[i + n]
    BY ONLY <2>1, CutProperties
  <2> QED
    BY <2>1, <2>2
<1> HIDE DEF d, r, c
<1>4. PICK w : w = v
  OBVIOUS
<1>5. w = [data |-> d, count |-> c]
  <2>1. b = [data |-> b.data, count |-> b.count]
    BY DEF IxWF
  <2>2. w = [b EXCEPT !.data = d, !.count = c]
    BY <1>4
  <2> QED
    BY ONLY <2>1, <2>2
<1>6. w.data = d /\ w.count = c /\ w = [data |-> w.data, count |-> w.count]
  BY <1>5
<1>7. IxWF(w, V)
  BY <1>0, <1>1, <1>2, <1>6 DEF IxWF, m, a
<1>8. IxHolds(b, q) => IxHolds(w, r)
  <2> SUFFICES ASSUME IxHolds(b, q), NEW i \in 1 .. c PROVE r[i] = d[i]
    BY <1>3, <1>6 DEF IxHolds
  <2>1. \A j \in 1 .. k : q[j] = a[j]
    BY DEF IxHolds, k, a
  <2>2. /\ i \in 1 .. m /\ i <= at + rest /\ i - at + (at + n) = i + n
        /\ i \in 1 .. k /\ i + n \in 1 .. k /\ (i > at \/ i <= at)
    BY <1>0, <1>1
  <2>3. d[i] = IF i <= at THEN a[i] ELSE a[i + n]
    BY ONLY <1>2, <2>2
  <2> QED
    BY <1>3, <2>1, <2>2, <2>3
<1> QED
  BY <1>3, <1>4, <1>7, <1>8 DEF r, d, rest, c, k, m, a

LEMMA IndexDeleteStep ==
  ASSUME NEW V, IndexTypes(V), NEW x \in Ix, NEW at \in 0 .. index[x].count, NEW n \in 1 .. IxMaxCount,
         mowgli_index_delete(x, at, n), IndexAssumption
  PROVE  IndexTypes(V)'
<1> DEFINE b == index[x]
           q == ixseq[x]
           v == [b EXCEPT !.data = IxMove(b.data, at + n, at, b.count - n - at),
                          !.count = b.count - n]
           r == IxCut(q, at, n)
<1>1. /\ IxWF(b, V) /\ q \in Seq(V) /\ Len(q) = b.count /\ at \in 0 .. b.count
      /\ ~ixgrown => IxHolds(b, q)
      /\ n \in Nat
  BY DEF IndexTypes, IndexAssumption
<1>2. at + n <= b.count /\ IxUpdate(x, v, r)
  BY DEF mowgli_index_delete, IxCut
<1> HIDE DEF b, q
<1>3. at \in Nat
  BY <1>1 DEF IxWF
<1>4. IxWF(v, V) /\ r \in Seq(V) /\ (IxHolds(b, q) => IxHolds(v, r))
  BY <1>1, <1>2, <1>3, DeleteHolds
<1> QED
  BY <1>1, <1>2, <1>4, IxUpdateStep

LEMMA OrderedHolds ==
  ASSUME NEW V, NEW b, IxWF(b, V), NEW q \in Seq(V), Len(q) = b.count, NEW z \in Nat,
         z + b.count <= b.count,
         NEW s \in Seq(V), NEW t \in Seq(V), Len(s) = b.count, Len(t) = b.count,
         IxHolds(b, q) => t = s
  PROVE  LET v == [b EXCEPT !.data = IxPut(b.data, z, s)]
         IN  /\ IxWF(v, V) /\ v.count = b.count
             /\ IxHolds(b, q) => IxHolds(v, t)
<1> DEFINE v == [b EXCEPT !.data = IxPut(b.data, z, s)]
           r == IxPut(q, z, s)
           k == b.count
<1>1. z + Len(s) <= b.count /\ z + Len(s) <= Len(q) /\ k \in Nat
  BY DEF IxWF
<1>2. IxWF(v, V) /\ r \in Seq(V) /\ (IxHolds(b, q) => IxHolds(v, r))
  BY <1>1, PutHolds
<1>7. v.count = b.count
  BY DEF IxWF
<1>3. \A i \in 1 .. Len(q) : r[i] = IF i > z /\ i <= z + Len(s) THEN s[i - z] ELSE q[i]
  BY <1>1, PutProperties
<1> HIDE DEF v, r, k
<1>4. \A i \in 1 .. k : i > z /\ i <= z + Len(s) /\ i - z = i /\ i \in 1 .. Len(q)
  BY <1>1 DEF k
<1>5. \A i \in 1 .. k : r[i] = s[i]
  BY <1>3, <1>4
<1>6. IxHolds(v, r) /\ t = s => IxHolds(v, t)
  BY <1>2, <1>7, <1>5 DEF IxHolds, k
<1> QED
  BY <1>2, <1>7, <1>6 DEF v

LEMMA IndexSortStep ==
  ASSUME NEW V, IndexTypes(V), NEW x \in Ix, mowgli_index_sort(x), IndexAssumption
  PROVE  IndexTypes(V)'
<1> DEFINE b == index[x]
           k == b.count
           q == ixseq[x]
<1>1. /\ IxWF(b, V) /\ q \in Seq(V) /\ Len(q) = k
      /\ ~ixgrown => IxHolds(b, q)
  BY DEF IndexTypes
<1>2. PICK p \in [1 .. k -> 1 .. k] :
        IxUpdate(x, [b EXCEPT !.data = IxPut(b.data, 0, [i \in 1 .. k |-> b.data[p[i]]])],
                 [i \in 1 .. k |-> q[p[i]]])
  BY DEF mowgli_index_sort
<1> DEFINE s == [i \in 1 .. k |-> b.data[p[i]]]
           t == [i \in 1 .. k |-> q[p[i]]]
           z == 0
           v == [b EXCEPT !.data = IxPut(b.data, z, s)]
<1>3. k \in Nat /\ k <= Len(b.data) /\ b.data \in Seq(V)
  BY <1>1 DEF IxWF
<1>4. IxUpdate(x, v, t)
  BY <1>2
<1> HIDE DEF b, q, k
<1>5. s \in Seq(V) /\ Len(s) = k /\ t \in Seq(V) /\ Len(t) = k
  <2>1. \A i \in 1 .. k : b.data[p[i]] \in V /\ q[p[i]] \in V
    BY <1>1, <1>3
  <2> QED
    BY <1>3, <2>1
<1>6. IxHolds(b, q) => t = s
  <2> SUFFICES ASSUME IxHolds(b, q) PROVE t = s
    OBVIOUS
  <2>1. \A i \in 1 .. k : q[p[i]] = b.data[p[i]]
    BY DEF IxHolds, k
  <2> QED
    BY <2>1
<1>7. z = 0
  OBVIOUS
<1>8. /\ IxWF(b, V) /\ q \in Seq(V) /\ Len(q) = b.count
      /\ s \in Seq(V) /\ Len(s) = b.count /\ t \in Seq(V) /\ Len(t) = b.count
      /\ IxHolds(b, q) => t = s
      /\ ~ixgrown => IxHolds(b, q)
      /\ IxUpdate(x, v, t)
  BY <1>1, <1>4, <1>5, <1>6 DEF k
<1>9. PICK s1, t1, z1 : s1 = s /\ t1 = t /\ z1 = z
  OBVIOUS
<1> DEFINE w == [b EXCEPT !.data = IxPut(b.data, z1, s1)]
<1>10. /\ IxWF(b, V) /\ q \in Seq(V) /\ Len(q) = b.count /\ z1 \in Nat /\ z1 + b.count <= b.count
       /\ s1 \in Seq(V) /\ Len(s1) = b.count /\ t1 \in Seq(V) /\ Len(t1) = b.count
       /\ IxHolds(b, q) => t1 = s1
       /\ ~ixgrown => IxHolds(b, q)
       /\ IxUpdate(x, w, t1)
  BY <1>3, <1>7, <1>8, <1>9 DEF k
<1> HIDE DEF s, t, z
<1>11. IxWF(w, V) /\ w.count = b.count /\ (IxHolds(b, q) => IxHolds(w, t1))
  BY ONLY <1>10, OrderedHolds
<1> HIDE DEF w
<1> QED
  BY <1>10, <1>11, IxUpdateStep

LEMMA IndexDestroyStep ==
  ASSUME NEW V, IndexTypes(V), NEW x \in Ix, mowgli_index_destroy(x), IndexAssumption
  PROVE  IndexTypes(V)'
<1> DEFINE v == mowgli_index_create
           r == << >>
<1>1. IxUpdate(x, v, r)
  BY DEF mowgli_index_destroy
<1>2. v = [data |-> << >>, count |-> 0]
  BY DEF mowgli_index_create
<1>3. IxNull \in V
  BY DEF IndexTypes, IxWF
<1>4. r \in Seq(V) /\ Len(r) = 0
  OBVIOUS
<1>5. v.data = r /\ v.count = 0 /\ v = [data |-> v.data, count |-> v.count]
  BY <1>2
<1> HIDE DEF v, r
<1>6. IxWF(v, V)
  BY <1>3, <1>4, <1>5 DEF IxWF
<1>7. IxHolds(v, r)
  BY <1>4, <1>5 DEF IxHolds
<1> QED
  BY <1>1, <1>4, <1>6, <1>7, IxUpdateStep

LEMMA IndexInitInv ==
  ASSUME IndexInit
  PROVE  IndexInv
<1> DEFINE V == IxValue \cup {IxNull}
           r == << >>
           v == mowgli_index_create
<1>1. r \in Seq(V) /\ Len(r) = 0
  OBVIOUS
<1>2. v.data = r /\ v.count = 0 /\ v = [data |-> r, count |-> 0]
  BY DEF mowgli_index_create
<1>3. index = [x \in Ix |-> v] /\ ixseq = [x \in Ix |-> r] /\ ixgrown = FALSE
  BY DEF IndexInit
<1>4. IxNull \in V /\ IxValue \subseteq V
  OBVIOUS
<1> HIDE DEF r, v, V
<1>5. IxWF(v, V) /\ IxHolds(v, r)
  BY <1>1, <1>2, <1>4 DEF IxWF, IxHolds
<1>6. v \in [data : Seq(V), count : Nat]
  BY <1>1, <1>2
<1>7. IndexTypes(V)
  BY <1>1, <1>2, <1>3, <1>4, <1>5, <1>6 DEF IndexTypes
<1> QED
  BY <1>7 DEF IndexInv, V

LEMMA IndexNextInv ==
  ASSUME IndexInv, [IndexNext]_indexVars, IndexAssumption
  PROVE  IndexInv'
<1> DEFINE V == IxValue \cup {IxNull}
<1>1. IndexTypes(V)
  BY DEF IndexInv
<1>2. SUFFICES IndexTypes(V)'
  BY DEF IndexInv
<1> HIDE DEF V
<1>3. CASE UNCHANGED indexVars
  BY <1>1, <1>3 DEF IndexTypes, indexVars
<1>4. CASE IndexNext
  <2>1. PICK x \in Ix :
          \/ \E at \in 0..index[x].count, v \in IxValue :
               mowgli_index_insert(x, at, v) \/ mowgli_index_set(x, at, v)
          \/ \E from, to \in 0..index[x].count, n \in 1..IxMaxCount :
               mowgli_index_move(x, from, to, n)
          \/ \E at \in 0..index[x].count, n \in 1..IxMaxCount : mowgli_index_delete(x, at, n)
          \/ \E y \in Ix : \E from \in 0..index[x].count, to \in 0..index[y].count :
               \E n \in 1..IxMaxCount : \/ mowgli_index_copy_insert(x, from, y, to, n)
                                        \/ mowgli_index_copy_set(x, from, y, to, n)
          \/ mowgli_index_sort(x)
          \/ mowgli_index_destroy(x)
    BY <1>4, Zenon DEF IndexNext
  <2>2. ASSUME NEW at \in 0..index[x].count, NEW v \in IxValue,
               mowgli_index_insert(x, at, v) \/ mowgli_index_set(x, at, v)
        PROVE  IndexTypes(V)'
    <3>1. CASE mowgli_index_insert(x, at, v)
      BY <1>1, <3>1, IndexInsertStep
    <3>2. CASE mowgli_index_set(x, at, v)
      BY <1>1, <3>2, SetStep
    <3> QED
      BY <2>2, <3>1, <3>2
  <2>3. ASSUME NEW from \in 0..index[x].count, NEW to \in 0..index[x].count,
               NEW n \in 1..IxMaxCount, mowgli_index_move(x, from, to, n)
        PROVE  IndexTypes(V)'
    BY <1>1, <2>3, MoveStep
  <2>4. ASSUME NEW at \in 0..index[x].count, NEW n \in 1..IxMaxCount, mowgli_index_delete(x, at, n)
        PROVE  IndexTypes(V)'
    BY <1>1, <2>4, IndexDeleteStep
  <2>5. ASSUME NEW y \in Ix, NEW from \in 0..index[x].count, NEW to \in 0..index[y].count,
               NEW n \in 1..IxMaxCount,
               \/ mowgli_index_copy_insert(x, from, y, to, n)
               \/ mowgli_index_copy_set(x, from, y, to, n)
        PROVE  IndexTypes(V)'
    <3>1. CASE mowgli_index_copy_insert(x, from, y, to, n)
      BY <1>1, <3>1, CopyInsertStep
    <3>2. CASE mowgli_index_copy_set(x, from, y, to, n)
      BY <1>1, <3>2, CopySetStep
    <3> QED
      BY <2>5, <3>1, <3>2
  <2>6. CASE mowgli_index_sort(x)
    BY <1>1, <2>6, IndexSortStep
  <2>7. CASE mowgli_index_destroy(x)
    BY <1>1, <2>7, IndexDestroyStep
  <2> QED
    BY ONLY <2>1, <2>2, <2>3, <2>4, <2>5, <2>6, <2>7, Zenon
<1> QED
  BY <1>3, <1>4

(* An index holds the values its callers put there, through insertions,    *)
(* deletions, moves, copies, merges and sorting, until it outgrows its     *)
(* first array; its array is always as long as it says.                    *)
THEOREM IndexHolds == IndexSpec => []IndexExact
<1>0. IndexAssumption
  BY IndexAssumption
<1>1. IndexInit => IndexInv
  BY <1>0, IndexInitInv
<1>2. IndexInv /\ [IndexNext]_indexVars => IndexInv'
  BY <1>0, IndexNextInv
<1>3. IndexInv => IndexExact
  BY <1>0, IndexInvExact
<1> QED
  BY <1>1, <1>2, <1>3, PTL DEF IndexSpec
=============================================================================
