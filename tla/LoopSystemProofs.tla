-------------------------- MODULE LoopSystemProofs --------------------------
(* What lies between the event loop and the system: its backends wait for  *)
(* what the pollables ask for, and their walks hold no pollable that was   *)
(* freed; and helper processes, for every set of helpers and any number of *)
(* descriptors.                                                            *)
EXTENDS Backends, Helpers, ListProofs

-----------------------------------------------------------------------------
(* pollable_list.                                                          *)

BkPtr == BkPollable \cup {BkNull}

\* the record l is a list of pollables
ListType(l) ==
  /\ l = [head |-> l.head, tail |-> l.tail, next |-> l.next, prev |-> l.prev]
  /\ l.head \in BkPtr /\ l.tail \in BkPtr
  /\ l.next \in [BkPollable -> BkPtr] /\ l.prev \in [BkPollable -> BkPtr]

\* its nodes, in order, are s
ListIs(l, s) ==
  /\ s \in Seq(BkPollable)
  /\ \A i, j \in 1 .. Len(s) : s[i] = s[j] => i = j
  /\ l.head = IF Len(s) = 0 THEN BkNull ELSE s[1]
  /\ l.tail = IF Len(s) = 0 THEN BkNull ELSE s[Len(s)]
  /\ \A i \in 1 .. Len(s) : /\ l.next[s[i]] = IF i = Len(s) THEN BkNull ELSE s[i + 1]
                            /\ l.prev[s[i]] = IF i = 1 THEN BkNull ELSE s[i - 1]

Nodes(s) == {s[i] : i \in 1 .. Len(s)}

LEMMA NodeAddIs ==
  ASSUME NEW l, ListType(l), NEW s, ListIs(l, s), NEW p \in BkPollable,
         \A i \in 1 .. Len(s) : s[i] # p
  PROVE  LET m == NodeAdd(l, p)
         IN  /\ ListType(m) /\ ListIs(m, Append(s, p))
             /\ Nodes(Append(s, p)) = Nodes(s) \cup {p}
             /\ \A y \in BkPollable :
                  m.next[y] = IF y = p THEN BkNull ELSE IF y = l.tail THEN p ELSE l.next[y]
<1> DEFINE N == Len(s)
           t == Append(s, p)
           m == NodeAdd(l, p)
           nx == IF N = 0 THEN [l.next EXCEPT ![p] = BkNull]
                          ELSE [l.next EXCEPT ![p] = BkNull, ![l.tail] = p]
           pv == [l.prev EXCEPT ![p] = l.tail]
           hd == IF N = 0 THEN p ELSE l.head
<1>1. /\ s \in Seq(BkPollable) /\ N \in Nat
      /\ \A i \in 1 .. N : s[i] \in BkPollable /\ s[i] # p
      /\ \A i, j \in 1 .. N : s[i] = s[j] => i = j
  BY DEF ListIs
<1>2. BkNull \notin BkPollable
  BY BackendsAssumption
<1>3. /\ N = 0 => l.head = BkNull /\ l.tail = BkNull
      /\ N # 0 => l.head # BkNull /\ l.head = s[1] /\ l.tail = s[N] /\ l.tail \in BkPollable /\ l.tail # p
  BY <1>1, <1>2 DEF ListIs
<1>4. /\ \A i \in 1 .. N : l.next[s[i]] = IF i = N THEN BkNull ELSE s[i + 1]
      /\ \A i \in 1 .. N : l.prev[s[i]] = IF i = 1 THEN BkNull ELSE s[i - 1]
  BY DEF ListIs
<1>5. /\ l.next \in [BkPollable -> BkPtr] /\ l.prev \in [BkPollable -> BkPtr]
      /\ l.head \in BkPtr /\ l.tail \in BkPtr
      /\ l = [head |-> l.head, tail |-> l.tail, next |-> l.next, prev |-> l.prev]
  BY DEF ListType
<1>6. m = [head |-> hd, tail |-> p, next |-> nx, prev |-> pv]
  <2> DEFINE a == [l EXCEPT !.next[p] = BkNull, !.prev[p] = l.tail, !.tail = p]
  <2>5. l = [head |-> l.head, tail |-> l.tail, next |-> l.next, prev |-> l.prev]
    BY <1>5
  <2>6. a = [head |-> l.head, tail |-> p, next |-> [l.next EXCEPT ![p] = BkNull],
             prev |-> [l.prev EXCEPT ![p] = l.tail]]
    <3> DEFINE x == [l.next EXCEPT ![p] = BkNull]
               y == [l.prev EXCEPT ![p] = l.tail]
    <3>1. a = [l EXCEPT !.next = x, !.prev = y, !.tail = p]
      OBVIOUS
    <3> HIDE DEF a, x, y
    <3>2. a = [head |-> l.head, tail |-> p, next |-> x, prev |-> y]
      BY ONLY <2>5, <3>1
    <3> QED
      BY <3>2 DEF x, y
  <2>1. a = [head |-> l.head, tail |-> p, next |-> [l.next EXCEPT ![p] = BkNull], prev |-> pv]
    BY <2>6
  <2>2. m = IF l.head = BkNull THEN [a EXCEPT !.head = p, !.prev[p] = BkNull]
                               ELSE [a EXCEPT !.next[l.tail] = p]
    BY DEF NodeAdd
  <2> HIDE DEF a
  <2>3. CASE N = 0
    <3>1. m = [a EXCEPT !.head = p, !.prev[p] = BkNull]
      BY <1>3, <2>2, <2>3
    <3>2. [pv EXCEPT ![p] = BkNull] = pv
      BY <1>3, <1>5, <2>3
    <3> HIDE DEF m
    <3>3. m = [head |-> p, tail |-> p, next |-> [l.next EXCEPT ![p] = BkNull], prev |-> [pv EXCEPT ![p] = BkNull]]
      BY <2>1, <3>1
    <3> QED
      BY <2>3, <3>2, <3>3
  <2>4. CASE N # 0
    <3>1. m = [a EXCEPT !.next[l.tail] = p]
      BY <1>3, <2>2, <2>4
    <3> HIDE DEF m, pv
    <3> QED
      BY <2>1, <2>4, <3>1
  <2> QED
    BY <2>3, <2>4
<1>7. /\ \A y \in BkPollable : nx[y] = IF y = p THEN BkNull ELSE IF y = l.tail THEN p ELSE l.next[y]
      /\ \A y \in BkPollable : pv[y] = IF y = p THEN l.tail ELSE l.prev[y]
  BY <1>2, <1>3, <1>5
<1>8. nx \in [BkPollable -> BkPtr] /\ pv \in [BkPollable -> BkPtr] /\ hd \in BkPtr /\ p \in BkPtr
  BY <1>3, <1>5 DEF BkPtr
<1> HIDE DEF m, nx, pv, hd
<1>9. m.head = hd /\ m.tail = p /\ m.next = nx /\ m.prev = pv
  BY ONLY <1>6
<1>10. ListType(m)
  BY <1>6, <1>8, <1>9 DEF ListType
<1>11. /\ t \in Seq(BkPollable) /\ Len(t) = N + 1
       /\ \A i \in 1 .. N : t[i] = s[i]
       /\ t[N + 1] = p
  BY <1>1
<1> HIDE DEF t
<1>12. ListIs(m, t)
  <2>1. \A i, j \in 1 .. N + 1 : t[i] = t[j] => i = j
    BY <1>1, <1>11
  <2>2. m.head = t[1] /\ m.tail = t[N + 1]
    BY <1>1, <1>3, <1>9, <1>11 DEF hd
  <2>3. ASSUME NEW i \in 1 .. N + 1
        PROVE  /\ nx[t[i]] = IF i = N + 1 THEN BkNull ELSE t[i + 1]
               /\ pv[t[i]] = IF i = 1 THEN BkNull ELSE t[i - 1]
    <3>1. CASE i = N + 1
      <4>1. t[i] = p /\ (i # 1 => N # 0 /\ i - 1 = N /\ N \in 1 .. N /\ t[i - 1] = s[N]) /\ (i = 1 => N = 0)
        BY <1>1, <1>11, <3>1
      <4> QED
        BY <1>3, <1>7, <3>1, <4>1
    <3>2. CASE i # N + 1
      <4>1. /\ i \in 1 .. N /\ N # 0 /\ t[i] = s[i] /\ s[i] \in BkPollable /\ s[i] # p /\ N \in 1 .. N
            /\ t[i + 1] = IF i = N THEN p ELSE s[i + 1]
            /\ i # 1 => t[i - 1] = s[i - 1]
        BY <1>1, <1>11, <3>2
      <4>2. s[i] = l.tail <=> i = N
        BY <1>1, <1>3, <4>1
      <4> QED
        BY <1>4, <1>7, <3>2, <4>1, <4>2
    <3> QED
      BY <3>1, <3>2
  <2>4. Len(t) # 0
    BY <1>1, <1>11
  <2> QED
    BY <1>9, <1>11, <2>1, <2>2, <2>3, <2>4 DEF ListIs
<1>13. Nodes(t) = Nodes(s) \cup {p}
  BY <1>1, <1>11 DEF Nodes
<1> QED
  BY <1>7, <1>9, <1>10, <1>12, <1>13 DEF m, t

LEMMA NodeDeleteIs ==
  ASSUME NEW l, ListType(l), NEW s, ListIs(l, s), NEW i \in 1 .. Len(s)
  PROVE  LET m == NodeDelete(l, s[i])
         IN  /\ ListType(m)
             /\ \E t : ListIs(m, t) /\ Nodes(t) = Nodes(s) \ {s[i]}
             /\ \A y \in BkPollable :
                  m.next[y] = IF y = l.prev[s[i]] THEN l.next[s[i]] ELSE l.next[y]
             /\ l.next[s[i]] \in Nodes(s) \cup {BkNull}
<1> DEFINE N == Len(s)
           n == s[i]
           m == NodeDelete(l, n)
           p == l.prev[n]
           x == l.next[n]
           h == IF p = BkNull THEN x ELSE l.head
           tl == IF x = BkNull THEN p ELSE l.tail
           nx == IF p = BkNull THEN l.next ELSE [l.next EXCEPT ![p] = x]
           pv == IF x = BkNull THEN l.prev ELSE [l.prev EXCEPT ![x] = p]
           t == [j \in 1 .. N - 1 |-> IF j < i THEN s[j] ELSE s[j + 1]]
<1>1. /\ s \in Seq(BkPollable) /\ N \in Nat /\ i \in Nat /\ 1 <= i /\ i <= N
      /\ \A j \in 1 .. N : s[j] \in BkPollable
      /\ \A j, k \in 1 .. N : s[j] = s[k] => j = k
  BY DEF ListIs
<1>2. /\ t \in Seq(BkPollable) /\ Len(t) = N - 1
      /\ \A j \in 1 .. N - 1 : t[j] = IF j < i THEN s[j] ELSE s[j + 1]
  <2>1. t \in [1 .. N - 1 -> BkPollable] /\ N - 1 \in Nat
    BY <1>1
  <2>2. \A j \in 1 .. N - 1 : t[j] = IF j < i THEN s[j] ELSE s[j + 1]
    OBVIOUS
  <2> HIDE DEF t
  <2> QED
    BY <2>1, <2>2, FunctionIsSeq
<1> HIDE DEF t
<1>3. BkNull \notin BkPollable
  BY BackendsAssumption
<1>4. /\ l.next \in [BkPollable -> BkPtr] /\ l.prev \in [BkPollable -> BkPtr]
      /\ l.head \in BkPtr /\ l.tail \in BkPtr
      /\ l = [head |-> l.head, tail |-> l.tail, next |-> l.next, prev |-> l.prev]
  BY DEF ListType
<1>5. /\ \A j \in 1 .. N : l.next[s[j]] = IF j = N THEN BkNull ELSE s[j + 1]
      /\ \A j \in 1 .. N : l.prev[s[j]] = IF j = 1 THEN BkNull ELSE s[j - 1]
  BY DEF ListIs
<1>6. l.head = s[1] /\ l.tail = s[N]
  BY <1>1 DEF ListIs
<1>7. /\ p = IF i = 1 THEN BkNull ELSE s[i - 1]
      /\ x = IF i = N THEN BkNull ELSE s[i + 1]
  BY <1>1, <1>5
<1>8. p \in BkPtr /\ x \in BkPtr /\ (p # BkNull => p \in BkPollable) /\ (x # BkNull => x \in BkPollable)
  BY <1>1, <1>4 DEF BkPtr
<1>9. m = [head |-> h, tail |-> tl, next |-> nx, prev |-> pv]
  <2> DEFINE a == IF p = BkNull THEN [l EXCEPT !.head = x] ELSE [l EXCEPT !.next[p] = x]
  <2>1. m = IF x = BkNull THEN [a EXCEPT !.tail = p] ELSE [a EXCEPT !.prev[x] = p]
    BY Zenon DEF NodeDelete
  <2> HIDE DEF m, n, p, x
  <2>2. a = [head |-> h, tail |-> l.tail, next |-> nx, prev |-> l.prev]
    BY <1>4
  <2> HIDE DEF a, h, nx
  <2> QED
    BY <2>1, <2>2
<1>10. /\ \A y \in BkPollable : nx[y] = IF y = p THEN x ELSE l.next[y]
       /\ \A y \in BkPollable : pv[y] = IF y = x THEN p ELSE l.prev[y]
  <2> HIDE DEF n, p, x
  <2> QED
    BY <1>3, <1>4, <1>8
<1>11. /\ nx \in [BkPollable -> BkPtr] /\ pv \in [BkPollable -> BkPtr] /\ h \in BkPtr /\ tl \in BkPtr
  <2> HIDE DEF n, p, x
  <2> QED
    BY <1>4, <1>8
<1> HIDE DEF m, n, p, x, nx, pv
<1>12. m.head = h /\ m.tail = tl /\ m.next = nx /\ m.prev = pv
  <2> HIDE DEF h, tl
  <2> QED
    BY ONLY <1>9
<1>13. ListType(m)
  <2> HIDE DEF h, tl
  <2> QED
    BY <1>9, <1>11, <1>12 DEF ListType
<1>14. ASSUME NEW j \in 1 .. N
       PROVE  /\ s[j] = p <=> (i # 1 /\ j = i - 1)
              /\ s[j] = x <=> (i # N /\ j = i + 1)
  <2>1. s[j] # BkNull
    BY <1>1, <1>3
  <2>2. i # 1 => i - 1 \in 1 .. N
    BY <1>1
  <2>3. i # N => i + 1 \in 1 .. N
    BY <1>1
  <2> QED
    BY <1>1, <1>7, <2>1, <2>2, <2>3
<1>15. ASSUME NEW j \in 1 .. N - 1
       PROVE  /\ m.next[t[j]] = IF j = N - 1 THEN BkNull ELSE t[j + 1]
              /\ m.prev[t[j]] = IF j = 1 THEN BkNull ELSE t[j - 1]
  <2>1. /\ j \in Nat /\ 1 <= j /\ j <= N - 1 /\ j \in 1 .. N /\ j + 1 \in 1 .. N
        /\ (j + 1) - 1 = j /\ (j - 1) + 1 = j /\ (j + 1) + 1 = j + 2
    BY <1>1
  <2>2. j # N - 1 => t[j + 1] = IF j + 1 < i THEN s[j + 1] ELSE s[j + 2]
    <3>1. j # N - 1 => j + 1 \in 1 .. N - 1
      BY <1>1, <2>1
    <3> QED
      BY <1>2, <2>1, <3>1
  <2>3. j # 1 => t[j - 1] = IF j - 1 < i THEN s[j - 1] ELSE s[j]
    <3>1. j # 1 => j - 1 \in 1 .. N - 1
      BY <1>1, <2>1
    <3> QED
      BY <1>2, <2>1, <3>1
  <2>4. CASE j < i
    <3>1. t[j] = s[j] /\ s[j] \in BkPollable /\ s[j] # x
      BY <1>1, <1>2, <1>14, <2>1, <2>4
    <3>2. m.prev[t[j]] = IF j = 1 THEN BkNull ELSE s[j - 1]
      BY <1>5, <1>10, <1>12, <2>1, <3>1
    <3>3. m.next[t[j]] = IF j = i - 1 THEN x ELSE s[j + 1]
      <4>1. j # N
        BY <1>1, <2>1
      <4>2. s[j] = p <=> j = i - 1
        BY <1>1, <1>14, <2>1, <2>4
      <4>3. l.next[s[j]] = s[j + 1]
        BY <1>5, <2>1, <4>1
      <4>4. m.next[s[j]] = IF s[j] = p THEN x ELSE l.next[s[j]]
        BY <1>10, <1>12, <3>1
      <4> QED
        BY ONLY <3>1, <4>2, <4>3, <4>4
    <3>4. j = i - 1 => x = IF j = N - 1 THEN BkNull ELSE t[j + 1]
      <4>1. j = i - 1 => i + 1 = j + 2 /\ (i = N <=> j = N - 1) /\ ~(j + 1 < i)
        BY <1>1, <2>1
      <4> QED
        BY <1>7, <2>2, <4>1
    <3>5. j # i - 1 => j # N - 1 /\ j + 1 < i
      BY <1>1, <2>1, <2>4
    <3>6. j # 1 => j - 1 < i
      BY <1>1, <2>1, <2>4
    <3> QED
      BY <2>2, <2>3, <3>2, <3>3, <3>4, <3>5, <3>6
  <2>5. CASE ~(j < i)
    <3>1. t[j] = s[j + 1] /\ s[j + 1] \in BkPollable /\ s[j + 1] # p
      <4>1. j + 1 # i - 1
        BY <1>1, <2>1, <2>5
      <4> QED
        BY <1>1, <1>2, <1>14, <2>1, <2>5, <4>1
    <3>2. m.next[t[j]] = IF j = N - 1 THEN BkNull ELSE s[j + 2]
      <4>1. j + 1 = N <=> j = N - 1
        BY <1>1, <2>1
      <4>2. l.next[s[j + 1]] = IF j + 1 = N THEN BkNull ELSE s[(j + 1) + 1]
        BY <1>5, <2>1
      <4>3. m.next[s[j + 1]] = l.next[s[j + 1]]
        BY <1>10, <1>12, <3>1
      <4> QED
        BY ONLY <2>1, <3>1, <4>1, <4>2, <4>3
    <3>3. m.prev[t[j]] = IF j = i THEN p ELSE s[j]
      <4>1. s[j + 1] = x <=> j = i
        <5>1. j + 1 = i + 1 <=> j = i
          BY <1>1, <2>1
        <5>2. j = i => i # N
          BY <1>1, <2>1
        <5> QED
          BY <1>14, <2>1, <5>1, <5>2
      <4>2. l.prev[s[j + 1]] = IF j + 1 = 1 THEN BkNull ELSE s[(j + 1) - 1]
        BY <1>5, <2>1
      <4>3. j + 1 # 1
        BY <2>1
      <4> QED
        BY <1>10, <1>12, <2>1, <3>1, <4>1, <4>2, <4>3
    <3>4. j # N - 1 => ~(j + 1 < i)
      BY <1>1, <2>1, <2>5
    <3>5. CASE j = i
      <4>1. j # 1 => j - 1 < i /\ s[j - 1] = p
        BY <1>1, <1>7, <2>1, <3>5
      <4>2. j = 1 => p = BkNull
        BY <1>7, <3>5
      <4> QED
        BY <2>2, <2>3, <3>2, <3>3, <3>4, <3>5, <4>1, <4>2
    <3>6. CASE j # i
      <4>1. j # 1 /\ ~(j - 1 < i)
        BY <1>1, <2>1, <2>5, <3>6
      <4> QED
        BY <2>2, <2>3, <3>2, <3>3, <3>4, <3>6, <4>1
    <3> QED
      BY <3>5, <3>6
  <2> QED
    BY <2>4, <2>5
<1>16. /\ m.head = IF N - 1 = 0 THEN BkNull ELSE t[1]
       /\ m.tail = IF N - 1 = 0 THEN BkNull ELSE t[N - 1]
  <2>1. m.head = IF p = BkNull THEN x ELSE s[1]
    BY <1>6, <1>12
  <2>2. m.tail = IF x = BkNull THEN p ELSE s[N]
    BY <1>6, <1>12
  <2>4. i # 1 => i - 1 \in 1 .. N /\ s[i - 1] \in BkPollable
    BY <1>1
  <2>5. i # N => i + 1 \in 1 .. N /\ s[i + 1] \in BkPollable
    BY <1>1
  <2>6. (p = BkNull <=> i = 1) /\ (x = BkNull <=> i = N)
    BY <1>3, <1>7, <2>4, <2>5
  <2>7. CASE N = 1
    BY <1>1, <1>7, <2>1, <2>2, <2>6, <2>7
  <2>8. CASE N # 1
    <3>1. N - 1 \in 1 .. N - 1 /\ 1 \in 1 .. N - 1 /\ N - 1 # 0
      <4>1. N \in Nat /\ i \in 1 .. N
        BY <1>1
      <4> HIDE DEF N
      <4> QED
        BY <2>8, <4>1
    <3>2. t[1] = IF i = 1 THEN s[2] ELSE s[1]
      <4>1. t[1] = IF 1 < i THEN s[1] ELSE s[1 + 1]
        BY <1>2, <3>1
      <4>2. 1 < i <=> i # 1
        BY <1>1
      <4> QED
        BY <4>1, <4>2
    <3>3. t[N - 1] = IF i = N THEN s[N - 1] ELSE s[N]
      BY <1>1, <1>2, <3>1
    <3>4. m.head = t[1]
      <4>1. i = 1 => x = s[2]
        BY <1>7, <2>8
      <4> QED
        BY <2>1, <2>6, <3>2, <4>1
    <3>5. m.tail = t[N - 1]
      <4>1. i = N => p = s[N - 1]
        BY <1>7, <2>8
      <4> QED
        BY <2>2, <2>6, <3>3, <4>1
    <3> QED
      BY <3>1, <3>4, <3>5
  <2> QED
    BY <2>7, <2>8
<1>17. ASSUME NEW d \in 1 .. N - 1
       PROVE  /\ (IF d < i THEN d ELSE d + 1) \in 1 .. N
              /\ (IF d < i THEN d ELSE d + 1) # i
              /\ t[d] = s[IF d < i THEN d ELSE d + 1]
  BY <1>1, <1>2
<1>18. ASSUME NEW j \in 1 .. N - 1, NEW k \in 1 .. N - 1, t[j] = t[k]
       PROVE  j = k
  <2>1. (IF j < i THEN j ELSE j + 1) = (IF k < i THEN k ELSE k + 1)
    BY <1>1, <1>17, <1>18
  <2> QED
    BY <1>1, <2>1
<1>19. ListIs(m, t)
  BY <1>2, <1>15, <1>16, <1>18 DEF ListIs
<1>20. Nodes(t) = Nodes(s) \ {n}
  <2>1. ASSUME NEW d \in 1 .. N - 1 PROVE t[d] \in Nodes(s) /\ t[d] # n
    BY <1>1, <1>17 DEF Nodes, n
  <2>2. ASSUME NEW j \in 1 .. N, s[j] # n PROVE \E d \in 1 .. N - 1 : t[d] = s[j]
    <3>1. CASE j < i
      <4>1. j \in 1 .. N - 1
        BY <1>1, <3>1
      <4> QED
        BY <1>2, <3>1, <4>1
    <3>2. CASE ~(j < i)
      <4>1. j # i
        BY <2>2 DEF n
      <4>2. j - 1 \in 1 .. N - 1 /\ ~(j - 1 < i) /\ (j - 1) + 1 = j
        BY <1>1, <3>2, <4>1
      <4>3. t[j - 1] = s[(j - 1) + 1]
        BY <1>2, <4>2
      <4> QED
        BY <4>2, <4>3
    <3> QED
      BY <3>1, <3>2
  <2>3. Nodes(t) \subseteq Nodes(s) \ {n}
    BY <1>2, <2>1 DEF Nodes
  <2>4. Nodes(s) \ {n} \subseteq Nodes(t)
    <3> SUFFICES ASSUME NEW y \in Nodes(s), y # n PROVE y \in Nodes(t)
      OBVIOUS
    <3>1. PICK j \in 1 .. N : s[j] = y
      BY DEF Nodes
    <3>2. PICK d \in 1 .. N - 1 : t[d] = y
      BY <2>2, <3>1
    <3> QED
      BY <1>2, <3>2 DEF Nodes
  <2> QED
    BY <2>3, <2>4
<1>21. x \in Nodes(s) \cup {BkNull}
  BY <1>1, <1>7 DEF Nodes
<1> QED
  BY <1>10, <1>12, <1>13, <1>19, <1>20, <1>21 DEF m, n, p, x

LEMMA ChainIs ==
  ASSUME NEW l, NEW s, ListIs(l, s)
  PROVE  Chain(l, l.head) = s
<1> DEFINE N == Len(s)
           C == Cardinality(BkPollable)
           F(f) == [k \in 0 .. C |-> IF k = 0 THEN l.head
                                     ELSE IF f[k - 1] = BkNull THEN BkNull ELSE l.next[f[k - 1]]]
           node == CHOOSE f : f = F(f)
           w == [k \in 0 .. C |-> IF k < N THEN s[k + 1] ELSE BkNull]
           K == {k \in DOMAIN node : node[k] # BkNull}
<1>1. /\ s \in Seq(BkPollable) /\ N \in Nat /\ s \in [1 .. N -> BkPollable]
      /\ \A i \in 1 .. N : s[i] \in BkPollable
      /\ \A i, j \in 1 .. N : s[i] = s[j] => i = j
      /\ l.head = IF N = 0 THEN BkNull ELSE s[1]
      /\ \A i \in 1 .. N : l.next[s[i]] = IF i = N THEN BkNull ELSE s[i + 1]
  BY DEF ListIs
<1>2. IsFiniteSet(BkPollable) /\ C \in Nat /\ BkNull \notin BkPollable
  BY BackendsAssumption, FS_CardinalityType
<1>3. N <= C
  <2> SUFFICES ASSUME C < N PROVE FALSE
    BY <1>1, <1>2
  <2>1. IsFiniteSet(1 .. N) /\ Cardinality(1 .. N) = N
    <3>1. /\ IsFiniteSet(1 .. N)
          /\ Cardinality(1 .. N) = IF 1 > N THEN 0 ELSE N - 1 + 1
      <4>1. N \in Int /\ 1 \in Int
        BY <1>1
      <4> QED
        BY ONLY <4>1, FS_Interval
    <3> QED
      BY <1>1, <3>1
  <2>2. \E i, j \in 1 .. N : i # j /\ s[i] = s[j]
    BY <1>1, <1>2, <2>1, FS_PigeonHole
  <2> QED
    BY <1>1, <2>2
<1> HIDE DEF N, C
<1>4. \A k \in 0 .. C : w[k] = IF k < N THEN s[k + 1] ELSE BkNull
  OBVIOUS
<1>5. ASSUME NEW k \in 0 .. C
      PROVE  w[k] = IF k = 0 THEN l.head
                    ELSE IF w[k - 1] = BkNull THEN BkNull ELSE l.next[w[k - 1]]
  <2> HIDE DEF w
  <2>1. CASE k = 0
    BY <1>1, <1>2, <1>4, <2>1
  <2>2. CASE k # 0
    <3>1. k \in Nat /\ k - 1 \in 0 .. C /\ (k - 1) + 1 = k
      BY <1>2, <2>2
    <3>2. w[k - 1] = IF k - 1 < N THEN s[k] ELSE BkNull
      BY <1>4, <3>1
    <3>3. CASE k - 1 < N
      <4>1. k \in 1 .. N /\ (k < N <=> k # N)
        BY <1>1, <3>1, <3>3, <2>2
      <4> QED
        BY <1>1, <1>2, <1>4, <2>2, <3>2, <3>3, <4>1
    <3>4. CASE ~(k - 1 < N)
      <4>1. ~(k < N)
        BY <1>1, <3>1, <3>4
      <4> QED
        BY <1>4, <2>2, <3>2, <3>4, <4>1
    <3> QED
      BY <3>3, <3>4
  <2> QED
    BY <2>1, <2>2
<1>6. w = F(w)
  BY <1>5
<1>7. node = F(node)
  <2> HIDE DEF w, F
  <2> QED
    BY <1>6
<1>8. DOMAIN node = 0 .. C
  <2> HIDE DEF node
  <2> QED
    BY <1>7
<1>9. \A k \in 0 .. C : node[k] = IF k = 0 THEN l.head
                                 ELSE IF node[k - 1] = BkNull THEN BkNull ELSE l.next[node[k - 1]]
  <2> HIDE DEF node
  <2>1. \A k \in 0 .. C : F(node)[k] = IF k = 0 THEN l.head
                                 ELSE IF node[k - 1] = BkNull THEN BkNull ELSE l.next[node[k - 1]]
    OBVIOUS
  <2> HIDE DEF F
  <2> QED
    BY <1>7, <2>1
<1>10. Chain(l, l.head) = [i \in 1 .. Cardinality(K) |-> node[i - 1]]
  BY DEF Chain, C
<1> HIDE DEF node, w, F
<1>11. \A k \in 0 .. C : node[k] = w[k]
  <2> DEFINE Bad == {k \in 0 .. C : node[k] # w[k]}
  <2> SUFFICES ASSUME Bad # {} PROVE FALSE
    OBVIOUS
  <2>1. Bad \in SUBSET Nat
    BY <1>2
  <2>2. PICK k \in Bad : \A j \in Bad : k <= j
    <3> HIDE DEF Bad
    <3> QED
      BY <2>1, NatMin
  <2>3. k \in 0 .. C /\ k \in Nat /\ node[k] # w[k]
    BY <1>2
  <2>4. k # 0
    BY <1>5, <1>9, <2>3
  <2>5. k - 1 \in 0 .. C /\ k - 1 \notin Bad
    BY <1>2, <2>2, <2>3, <2>4
  <2>6. node[k - 1] = w[k - 1]
    BY <2>5
  <2> QED
    BY <1>5, <1>9, <2>3, <2>6
<1>12. K = 0 .. N - 1
  <2>1. ASSUME NEW k \in 0 .. C PROVE node[k] # BkNull <=> k < N
    BY <1>1, <1>2, <1>4, <1>11
  <2>2. \A k : k \in 0 .. C /\ k < N <=> k \in 0 .. N - 1
    BY <1>1, <1>2, <1>3
  <2> QED
    BY <1>8, <2>1, <2>2
<1>13. Cardinality(K) = N
  <2>1. Cardinality(0 .. N - 1) = IF 0 > N - 1 THEN 0 ELSE (N - 1) - 0 + 1
    BY <1>1, FS_Interval
  <2> HIDE DEF K
  <2> QED
    BY <1>1, <1>12, <2>1
<1> HIDE DEF K
<1>14. ASSUME NEW i \in 1 .. N PROVE node[i - 1] = s[i]
  <2>1. i - 1 \in 0 .. C /\ i - 1 < N /\ (i - 1) + 1 = i
    BY <1>1, <1>2, <1>3
  <2> QED
    BY <1>4, <1>11, <2>1
<1>15. [i \in 1 .. N |-> node[i - 1]] = s
  BY <1>1, <1>14
<1> QED
  BY <1>10, <1>13, <1>15

-----------------------------------------------------------------------------
(* The list and the walk along it.                                         *)

\* l holds the pollables sel; a walk that is at n and will go on at tn stays
\* among those in held, though it may leave the list: T is what it can reach
PlistIs(l, sel, held, n, tn) ==
  \E s, T :
    /\ ListIs(l, s) /\ Nodes(s) = sel
    /\ sel \subseteq T /\ T \subseteq held
    /\ n \in T \cup {BkNull} /\ tn \in T \cup {BkNull}
    /\ \A t \in T : l.next[t] \in T \cup {BkNull}

LEMMA PlistAdd ==
  ASSUME NEW l, ListType(l), NEW sel, NEW held \in SUBSET BkPollable, NEW n, NEW tn,
         PlistIs(l, sel, held, n, tn), NEW p \in held, p \notin sel
  PROVE  ListType(NodeAdd(l, p)) /\ PlistIs(NodeAdd(l, p), sel \cup {p}, held, n, tn)
<1> DEFINE m == NodeAdd(l, p)
<1>1. PICK s, T :
        /\ ListIs(l, s) /\ Nodes(s) = sel
        /\ sel \subseteq T /\ T \subseteq held
        /\ n \in T \cup {BkNull} /\ tn \in T \cup {BkNull}
        /\ \A t \in T : l.next[t] \in T \cup {BkNull}
  BY DEF PlistIs
<1>2. p \in BkPollable /\ \A i \in 1 .. Len(s) : s[i] # p
  BY <1>1 DEF Nodes
<1>3. /\ ListType(m) /\ ListIs(m, Append(s, p))
      /\ Nodes(Append(s, p)) = sel \cup {p}
      /\ \A y \in BkPollable :
           m.next[y] = IF y = p THEN BkNull ELSE IF y = l.tail THEN p ELSE l.next[y]
  BY <1>1, <1>2, NodeAddIs
<1> HIDE DEF m
<1>4. \A t \in T \cup {p} : m.next[t] \in (T \cup {p}) \cup {BkNull}
  BY <1>1, <1>3
<1>5. PlistIs(m, sel \cup {p}, held, n, tn)
  <2> USE DEF PlistIs
  <2> WITNESS Append(s, p), T \cup {p}
  <2> QED
    BY <1>1, <1>3, <1>4
<1> QED
  BY <1>3, <1>5 DEF m

LEMMA PlistDelete ==
  ASSUME NEW l, ListType(l), NEW sel, NEW held \in SUBSET BkPollable, NEW n, NEW tn,
         PlistIs(l, sel, held, n, tn), NEW p \in sel
  PROVE  ListType(NodeDelete(l, p)) /\ PlistIs(NodeDelete(l, p), sel \ {p}, held, n, tn)
<1> DEFINE m == NodeDelete(l, p)
<1>1. PICK s, T :
        /\ ListIs(l, s) /\ Nodes(s) = sel
        /\ sel \subseteq T /\ T \subseteq held
        /\ n \in T \cup {BkNull} /\ tn \in T \cup {BkNull}
        /\ \A t \in T : l.next[t] \in T \cup {BkNull}
  BY DEF PlistIs
<1>2. PICK i \in 1 .. Len(s) : s[i] = p
  BY <1>1 DEF Nodes
<1>3. /\ ListType(NodeDelete(l, s[i]))
      /\ \E t : ListIs(NodeDelete(l, s[i]), t) /\ Nodes(t) = Nodes(s) \ {s[i]}
      /\ \A y \in BkPollable :
           NodeDelete(l, s[i]).next[y] = IF y = l.prev[s[i]] THEN l.next[s[i]] ELSE l.next[y]
  BY <1>1, NodeDeleteIs
<1>4. PICK u : ListIs(m, u) /\ Nodes(u) = sel \ {p}
  BY <1>1, <1>2, <1>3
<1>5. \A t \in T : m.next[t] \in T \cup {BkNull}
  <2>1. \A y \in BkPollable : m.next[y] = l.next[p] \/ m.next[y] = l.next[y]
    BY <1>2, <1>3
  <2>2. p \in T /\ T \subseteq BkPollable
    BY <1>1
  <2> HIDE DEF m
  <2> QED
    BY <1>1, <2>1, <2>2
<1>6. PlistIs(m, sel \ {p}, held, n, tn)
  <2> HIDE DEF m
  <2> USE DEF PlistIs
  <2> WITNESS u, T
  <2> QED
    BY <1>1, <1>4, <1>5
<1> QED
  BY <1>2, <1>3, <1>6

LEMMA PlistCreate ==
  ASSUME NEW l, ListType(l), NEW sel, NEW held \in SUBSET BkPollable, NEW n, NEW tn,
         PlistIs(l, sel, held, n, tn), NEW p \in BkPollable, p \notin held
  PROVE  LET m == [l EXCEPT !.next[p] = BkNull, !.prev[p] = BkNull]
         IN  ListType(m) /\ PlistIs(m, sel, held \cup {p}, n, tn)
<1> DEFINE nx == [l.next EXCEPT ![p] = BkNull]
           pv == [l.prev EXCEPT ![p] = BkNull]
           m == [l EXCEPT !.next[p] = BkNull, !.prev[p] = BkNull]
<1>1. PICK s, T :
        /\ ListIs(l, s) /\ Nodes(s) = sel
        /\ sel \subseteq T /\ T \subseteq held
        /\ n \in T \cup {BkNull} /\ tn \in T \cup {BkNull}
        /\ \A t \in T : l.next[t] \in T \cup {BkNull}
  BY DEF PlistIs
<1>2. /\ l.next \in [BkPollable -> BkPtr] /\ l.prev \in [BkPollable -> BkPtr]
      /\ l.head \in BkPtr /\ l.tail \in BkPtr
      /\ l = [head |-> l.head, tail |-> l.tail, next |-> l.next, prev |-> l.prev]
  BY DEF ListType
<1>3. m = [head |-> l.head, tail |-> l.tail, next |-> nx, prev |-> pv]
  <2>1. m = [l EXCEPT !.next = nx, !.prev = pv]
    OBVIOUS
  <2> HIDE DEF m, nx, pv
  <2> QED
    BY <1>2, <2>1
<1>4. /\ nx \in [BkPollable -> BkPtr] /\ pv \in [BkPollable -> BkPtr]
      /\ \A y \in BkPollable : y # p => nx[y] = l.next[y] /\ pv[y] = l.prev[y]
  BY <1>2 DEF BkPtr
<1> HIDE DEF m, nx, pv
<1>5. m.head = l.head /\ m.tail = l.tail /\ m.next = nx /\ m.prev = pv
  BY ONLY <1>3
<1>6. ListType(m)
  BY <1>2, <1>3, <1>4, <1>5 DEF ListType
<1>7. \A i \in 1 .. Len(s) : s[i] \in BkPollable /\ s[i] # p
  <2>1. \A i \in 1 .. Len(s) : s[i] \in Nodes(s)
    BY DEF Nodes
  <2> QED
    BY <1>1, <2>1
<1>8. ListIs(m, s)
  BY <1>1, <1>4, <1>5, <1>7 DEF ListIs
<1>9. \A t \in T : m.next[t] \in T \cup {BkNull}
  BY <1>1, <1>4, <1>5
<1>10. PlistIs(m, sel, held \cup {p}, n, tn)
  <2> USE DEF PlistIs
  <2> WITNESS s, T
  <2> QED
    BY <1>1, <1>8, <1>9
<1> QED
  BY <1>6, <1>10 DEF m

LEMMA PlistWalk ==
  ASSUME NEW l, NEW sel, NEW held \in SUBSET BkPollable, NEW n, NEW tn,
         PlistIs(l, sel, held, n, tn)
  PROVE  /\ l.head # BkNull => PlistIs(l, sel, held, l.head, l.next[l.head])
         /\ PlistIs(l, sel, held, tn, IF tn = BkNull THEN BkNull ELSE l.next[tn])
         /\ n \in held \cup {BkNull} /\ tn \in held \cup {BkNull}
         /\ \A h \in SUBSET BkPollable : sel \subseteq h => PlistIs(l, sel, h, BkNull, BkNull)
<1>1. PICK s, T :
        /\ ListIs(l, s) /\ Nodes(s) = sel
        /\ sel \subseteq T /\ T \subseteq held
        /\ n \in T \cup {BkNull} /\ tn \in T \cup {BkNull}
        /\ \A t \in T : l.next[t] \in T \cup {BkNull}
  BY DEF PlistIs
<1>2. ASSUME l.head # BkNull PROVE PlistIs(l, sel, held, l.head, l.next[l.head])
  <2>1. l.head \in T
    <3>1. Len(s) \in Nat /\ l.head = IF Len(s) = 0 THEN BkNull ELSE s[1]
      BY <1>1 DEF ListIs
    <3>2. Len(s) # 0 => 1 \in 1 .. Len(s)
      BY <3>1
    <3> QED
      BY <1>1, <1>2, <3>1, <3>2 DEF Nodes
  <2> USE DEF PlistIs
  <2> WITNESS s, T
  <2> QED
    BY <1>1, <2>1
<1>3. PlistIs(l, sel, held, tn, IF tn = BkNull THEN BkNull ELSE l.next[tn])
  <2> USE DEF PlistIs
  <2> WITNESS s, T
  <2> QED
    BY <1>1
<1>4. ASSUME NEW h \in SUBSET BkPollable, sel \subseteq h PROVE PlistIs(l, sel, h, BkNull, BkNull)
  <2>1. \A i \in 1 .. Len(s) : l.next[s[i]] \in Nodes(s) \cup {BkNull}
    <3>1. /\ Len(s) \in Nat
          /\ \A i \in 1 .. Len(s) : l.next[s[i]] = IF i = Len(s) THEN BkNull ELSE s[i + 1]
      BY <1>1 DEF ListIs
    <3> QED
      BY <3>1 DEF Nodes
  <2>2. \A t \in sel : l.next[t] \in sel \cup {BkNull}
    BY <1>1, <2>1 DEF Nodes
  <2> USE DEF PlistIs
  <2> WITNESS s, sel
  <2> QED
    BY <1>1, <1>4, <2>2
<1> QED
  BY <1>1, <1>2, <1>3, <1>4

-----------------------------------------------------------------------------
(* The inductive invariant.                                                *)

IsPoll(r) ==
  /\ r = [state |-> r.state, func |-> r.func, slot |-> r.slot, flags |-> r.flags]
  /\ r.state \in {"freed", "live", "removed"}
  /\ r.func \subseteq BkDir

IsPolls(b) == b = [p \in BkPollable |-> b[p]] /\ \A p \in BkPollable : IsPoll(b[p])

IsTurn(t) ==
  /\ t = [at |-> t.at, n |-> t.n, tn |-> t.tn, dir |-> t.dir,
          revents |-> t.revents, array |-> t.array]
  /\ t.at \in {"idle", "walk", "call"}
  /\ t.array \in Seq(BkPollable \X BkDir)

IsSlots(u) ==
  u = [used |-> u.used, last |-> u.last] /\ u.used \in [1 .. BkSlots -> BkPtr]

BkTypeOK ==
  /\ bkind \in BkKind
  /\ IsPolls(bpoll)
  /\ ListType(blist)
  /\ IsSlots(bslots)
  /\ IsTurn(bturn)

Selected(b) == {p \in BkPollable : b[p].state = "live" /\ b[p].func # {}}
Allocated(b) == {p \in BkPollable : b[p].state # "freed"}

\* a pollable that is freed is as mowgli_pollable_create finds it
FreedInv == \A p \in BkPollable : bpoll[p].state = "freed" => bpoll[p] = BkFreed

PlistInv == BkListed => PlistIs(blist, Selected(bpoll), Allocated(bpoll), bturn.n, bturn.tn)

ArrayInv ==
  /\ bturn.at = "idle" => bturn = NoTurn
  /\ ~BkListed => bturn.n = BkNull /\ bturn.tn = BkNull
  /\ ~BkListed /\ bturn.at = "call" => bturn.array # << >>
  /\ \A i \in DOMAIN bturn.array : bturn.array[i][1] \in Allocated(bpoll)

\* the registrations and the flags are those of the functions
KernelInv ==
  ~BkListed =>
    \A p \in BkPollable, d \in BkDir :
      /\ <<p, d>> \in bkernel => bpoll[p].state = "live" /\ d \in bpoll[p].func
      /\ bkind # "ports" /\ bpoll[p].state = "live" /\ d \in bpoll[p].func => <<p, d>> \in bkernel

FlagsInv ==
  bkind \in {"ports", "qnx"} =>
    \A p \in BkPollable : bpoll[p].state = "live" => bpoll[p].flags = bpoll[p].func

\* slots and pollables point to each other
SlotsInv ==
  bkind = "winsock" =>
    /\ bturn.at = "idle"
    /\ \A p \in BkPollable : bpoll[p].slot # 0 =>
         bpoll[p].slot \in 1 .. BkSlots /\ bslots.used[bpoll[p].slot] = p
    /\ \A s \in 1 .. BkSlots : bslots.used[s] # BkNull => bpoll[bslots.used[s]].slot = s

BkInv == BkTypeOK /\ FreedInv /\ PlistInv /\ ArrayInv /\ KernelInv /\ FlagsInv /\ SlotsInv

LEMMA CreateInv ==
  ASSUME BkInv, NEW p \in BkPollable, BkCreate(p)
  PROVE  BkInv'
<1> DEFINE r == [state |-> "live", func |-> {}, slot |-> 0, flags |-> {}]
<1>1. /\ IsPolls(bpoll) /\ ListType(blist) /\ bpoll[p] = BkFreed /\ bpoll[p].state = "freed"
      /\ UNCHANGED <<bkind, bkernel, bslots, bturn>>
      /\ blist' = [blist EXCEPT !.next[p] = BkNull, !.prev[p] = BkNull]
  BY DEF BkCreate, BkInv, BkTypeOK, FreedInv
<1>2. bpoll' = [bpoll EXCEPT ![p] = r]
  <2>1. bpoll' = [bpoll EXCEPT ![p].state = "live"]
    BY DEF BkCreate
  <2>2. [bpoll[p] EXCEPT !.state = "live"] = r
    BY <1>1 DEF BkFreed
  <2> QED
    BY <2>1, <2>2
<1>3. IsPoll(r)
  BY DEF IsPoll, BkDir
<1>4. /\ IsPolls(bpoll') /\ bpoll'[p] = r
      /\ \A q \in BkPollable : q # p => bpoll'[q] = bpoll[q]
  <2> HIDE DEF r
  <2> QED
    BY <1>1, <1>2, <1>3 DEF IsPolls
<1>5. /\ r.state = "live" /\ r.func = {} /\ r.slot = 0 /\ r.flags = {}
      /\ bpoll[p].func = {} /\ bpoll[p].slot = 0
  BY <1>1 DEF BkFreed
<1> HIDE DEF r
<1>6. /\ Selected(bpoll') = Selected(bpoll)
      /\ Allocated(bpoll') = Allocated(bpoll) \cup {p} /\ p \notin Allocated(bpoll)
  BY <1>1, <1>4, <1>5 DEF Selected, Allocated
<1>7. ListType(blist') /\ PlistInv'
  <2>1. CASE BkListed
    <3>1. PlistIs(blist, Selected(bpoll), Allocated(bpoll), bturn.n, bturn.tn)
      BY <2>1 DEF BkInv, PlistInv
    <3>2. Allocated(bpoll) \in SUBSET BkPollable
      BY DEF Allocated
    <3>3. /\ ListType(blist')
          /\ PlistIs(blist', Selected(bpoll), Allocated(bpoll) \cup {p}, bturn.n, bturn.tn)
      BY <1>1, <1>6, <3>1, <3>2, PlistCreate
    <3> QED
      BY <1>1, <1>6, <3>3 DEF PlistInv
  <2>2. CASE ~BkListed
    <3>1. ListType(blist')
      BY <1>1 DEF ListType, BkPtr
    <3> QED
      BY <1>1, <2>2, <3>1 DEF PlistInv, BkListed
  <2> QED
    BY <2>1, <2>2
<1>8. BkTypeOK'
  BY <1>1, <1>4, <1>7 DEF BkInv, BkTypeOK
<1>9. FreedInv'
  BY <1>4, <1>5 DEF BkInv, FreedInv
<1>10. ArrayInv'
  BY <1>1, <1>6 DEF BkInv, ArrayInv, BkListed
<1>11. KernelInv'
  BY <1>1, <1>4, <1>5 DEF BkInv, KernelInv, BkListed
<1>12. FlagsInv'
  BY <1>1, <1>4, <1>5 DEF BkInv, FlagsInv
<1>13. SlotsInv'
  <2>1. \A q \in BkPollable : bpoll'[q].slot = bpoll[q].slot
    BY <1>4, <1>5
  <2>2. BkTypeOK
    BY DEF BkInv
  <2>3. \A s \in 1 .. BkSlots : bslots.used[s] # BkNull => bslots.used[s] \in BkPollable
    BY <2>2 DEF BkTypeOK, IsSlots, BkPtr
  <2> QED
    BY <1>1, <2>1, <2>3 DEF BkInv, SlotsInv
<1> QED
  BY <1>7, <1>8, <1>9, <1>10, <1>11, <1>12, <1>13 DEF BkInv

\* what the list, the array, the registrations and the slots need when one
\* pollable's functions change and its state does not
LEMMA FuncChanged ==
  ASSUME BkInv, NEW p \in BkPollable, bpoll[p].state = "live",
         UNCHANGED <<bkind, bturn>>, IsPolls(bpoll'), bpoll'[p].state = "live",
         \A q \in BkPollable : q # p => bpoll'[q] = bpoll[q]
  PROVE  /\ FreedInv' /\ ArrayInv'
         /\ Allocated(bpoll') = Allocated(bpoll)
         /\ Selected(bpoll') = IF bpoll'[p].func = {} THEN Selected(bpoll) \ {p}
                                                      ELSE Selected(bpoll) \cup {p}
<1>1. Allocated(bpoll') = Allocated(bpoll)
  BY DEF Allocated
<1>2. Selected(bpoll') = IF bpoll'[p].func = {} THEN Selected(bpoll) \ {p}
                                                ELSE Selected(bpoll) \cup {p}
  BY DEF Selected
<1>3. FreedInv'
  BY DEF BkInv, FreedInv
<1>4. ArrayInv'
  BY <1>1 DEF BkInv, ArrayInv, BkListed
<1> QED
  BY <1>1, <1>2, <1>3, <1>4

LEMMA PlistSetselectInv ==
  ASSUME BkInv, NEW p \in BkPollable, bpoll[p].state = "live", NEW func \in SUBSET BkDir,
         BkListed, PlistSetselect(p, func), UNCHANGED <<bkind, bturn>>
  PROVE  BkInv'
<1> DEFINE r == [state |-> bpoll[p].state, func |-> func, slot |-> bpoll[p].slot, flags |-> bpoll[p].flags]
           sel == Selected(bpoll)
           held == Allocated(bpoll)
           l == IF bpoll[p].func # {} THEN NodeDelete(blist, p) ELSE blist
<1>1. /\ IsPolls(bpoll) /\ ListType(blist) /\ IsPoll(bpoll[p])
      /\ UNCHANGED <<bkernel, bslots>>
      /\ blist' = IF func # {} THEN NodeAdd(l, p) ELSE l
  BY DEF PlistSetselect, Relisted, BkInv, BkTypeOK, IsPolls
<1>2. bpoll' = [bpoll EXCEPT ![p] = r]
  <2>1. bpoll' = [bpoll EXCEPT ![p].func = func]
    BY DEF PlistSetselect
  <2>2. [bpoll[p] EXCEPT !.func = func] = r
    BY <1>1 DEF IsPoll
  <2> QED
    BY <2>1, <2>2
<1>3. IsPoll(r)
  BY <1>1 DEF IsPoll
<1>4. /\ IsPolls(bpoll') /\ bpoll'[p] = r
      /\ \A q \in BkPollable : q # p => bpoll'[q] = bpoll[q]
  <2> HIDE DEF r
  <2> QED
    BY <1>1, <1>2, <1>3 DEF IsPolls
<1>5. r.state = "live" /\ r.func = func /\ r.flags = bpoll[p].flags /\ r.slot = bpoll[p].slot
  OBVIOUS
<1> HIDE DEF r
<1>6. /\ FreedInv' /\ ArrayInv' /\ Allocated(bpoll') = held
      /\ Selected(bpoll') = IF func = {} THEN sel \ {p} ELSE sel \cup {p}
  BY <1>4, <1>5, FuncChanged
<1>7. p \in held /\ held \in SUBSET BkPollable /\ (p \in sel <=> bpoll[p].func # {})
  BY DEF Selected, Allocated
<1>8. PlistIs(blist, sel, held, bturn.n, bturn.tn)
  BY DEF BkInv, PlistInv
<1> HIDE DEF sel, held
<1>9. ListType(l) /\ PlistIs(l, sel \ {p}, held, bturn.n, bturn.tn)
  <2>1. CASE bpoll[p].func # {}
    BY <1>1, <1>7, <1>8, <2>1, PlistDelete
  <2>2. CASE bpoll[p].func = {}
    <3>1. sel \ {p} = sel
      BY <1>7, <2>2
    <3> QED
      BY <1>1, <1>8, <2>2, <3>1
  <2> QED
    BY <2>1, <2>2
<1> HIDE DEF l
<1>10. ListType(blist') /\ PlistIs(blist', Selected(bpoll'), held, bturn.n, bturn.tn)
  <2>1. CASE func # {}
    <3>1. p \notin sel \ {p} /\ (sel \ {p}) \cup {p} = sel \cup {p}
      OBVIOUS
    <3>2. ListType(NodeAdd(l, p)) /\ PlistIs(NodeAdd(l, p), (sel \ {p}) \cup {p}, held, bturn.n, bturn.tn)
      BY <1>7, <1>9, <3>1, PlistAdd
    <3> QED
      BY <1>1, <1>6, <2>1, <3>1, <3>2
  <2>2. CASE func = {}
    BY <1>1, <1>6, <1>9, <2>2
  <2> QED
    BY <2>1, <2>2
<1>11. PlistInv'
  BY <1>6, <1>10 DEF PlistInv
<1>12. BkTypeOK'
  BY <1>1, <1>4, <1>10 DEF BkInv, BkTypeOK
<1>13. KernelInv' /\ FlagsInv' /\ SlotsInv'
  BY DEF KernelInv, FlagsInv, SlotsInv, BkListed
<1> QED
  BY <1>6, <1>11, <1>12, <1>13 DEF BkInv

\* the functions, slot and flags of a live pollable change
LEMMA PollChanges ==
  ASSUME BkInv, NEW p \in BkPollable, bpoll[p].state = "live", NEW func \in SUBSET BkDir,
         \E s, f : bpoll' = [bpoll EXCEPT ![p] = [state |-> "live", func |-> func, slot |-> s, flags |-> f]]
  PROVE  /\ IsPolls(bpoll')
         /\ \A q \in BkPollable : q # p => bpoll'[q] = bpoll[q]
         /\ bpoll'[p].state = "live" /\ bpoll'[p].func = func
<1>1. PICK s, f : bpoll' = [bpoll EXCEPT ![p] = [state |-> "live", func |-> func, slot |-> s, flags |-> f]]
  OBVIOUS
<1> DEFINE r == [state |-> "live", func |-> func, slot |-> s, flags |-> f]
<1>2. IsPoll(r) /\ r.state = "live" /\ r.func = func
  BY DEF IsPoll
<1>3. IsPolls(bpoll)
  BY DEF BkInv, BkTypeOK
<1>4. bpoll' = [bpoll EXCEPT ![p] = r]
  BY <1>1
<1> HIDE DEF r
<1> QED
  BY <1>2, <1>3, <1>4 DEF IsPolls

\* what setselect leaves to be shown of a backend without a list
LEMMA SetselectFrame ==
  ASSUME BkInv, NEW p \in BkPollable, bpoll[p].state = "live", NEW func \in SUBSET BkDir,
         UNCHANGED <<bkind, bturn, blist>>, ~BkListed,
         \E s, f : bpoll' = [bpoll EXCEPT ![p] = [state |-> "live", func |-> func, slot |-> s, flags |-> f]],
         IsSlots(bslots'), KernelInv', FlagsInv', SlotsInv'
  PROVE  BkInv'
<1>1. /\ IsPolls(bpoll')
      /\ \A q \in BkPollable : q # p => bpoll'[q] = bpoll[q]
      /\ bpoll'[p].state = "live" /\ bpoll'[p].func = func
  BY PollChanges
<1>2. FreedInv' /\ ArrayInv'
  BY <1>1, FuncChanged
<1>3. PlistInv'
  BY DEF PlistInv, BkListed
<1>4. BkTypeOK'
  BY <1>1 DEF BkInv, BkTypeOK
<1> QED
  BY <1>2, <1>3, <1>4 DEF BkInv

LEMMA KqueueSetselectInv ==
  ASSUME BkInv, NEW p \in BkPollable, bpoll[p].state = "live", NEW func \in SUBSET BkDir,
         mowgli_kqueue_eventloop_setselect(p, func), UNCHANGED <<bkind, bturn>>
  PROVE  BkInv'
<1>1. /\ bkind = "kqueue" /\ bkind' = "kqueue" /\ UNCHANGED <<blist, bslots>>
      /\ bkernel' = (bkernel \ ({p} \X (bpoll[p].func \ func))) \cup ({p} \X (func \ bpoll[p].func))
      /\ ~BkListed /\ IsPoll(bpoll[p])
  BY DEF mowgli_kqueue_eventloop_setselect, BkListed, BkInv, BkTypeOK, IsPolls
<1>2. bpoll' = [bpoll EXCEPT ![p] = [state |-> "live", func |-> func,
                                     slot |-> bpoll[p].slot, flags |-> bpoll[p].flags]]
  <2>1. bpoll' = [bpoll EXCEPT ![p].func = func]
    BY DEF mowgli_kqueue_eventloop_setselect
  <2>2. [bpoll[p] EXCEPT !.func = func] = [state |-> "live", func |-> func,
                                           slot |-> bpoll[p].slot, flags |-> bpoll[p].flags]
    BY <1>1 DEF IsPoll
  <2> QED
    BY <2>1, <2>2
<1>3. /\ \A q \in BkPollable : q # p => bpoll'[q] = bpoll[q]
      /\ bpoll'[p].state = "live" /\ bpoll'[p].func = func
  BY <1>2, PollChanges
<1>4. KernelInv'
  <2> SUFFICES ASSUME NEW q \in BkPollable, NEW d \in BkDir
               PROVE  <<q, d>> \in bkernel' <=> bpoll'[q].state = "live" /\ d \in bpoll'[q].func
    BY DEF KernelInv
  <2>1. <<q, d>> \in bkernel <=> bpoll[q].state = "live" /\ d \in bpoll[q].func
    BY <1>1 DEF BkInv, KernelInv
  <2>2. CASE q = p
    <3>1. <<q, d>> \in bkernel' <=> (d \in bpoll[p].func /\ d \in func) \/ (d \in func /\ d \notin bpoll[p].func)
      BY <1>1, <2>1, <2>2
    <3> QED
      BY <1>3, <2>2, <3>1
  <2>3. CASE q # p
    BY <1>1, <1>3, <2>1, <2>3
  <2> QED
    BY <2>2, <2>3
<1>5. FlagsInv' /\ SlotsInv'
  BY <1>1 DEF FlagsInv, SlotsInv
<1>6. IsSlots(bslots')
  BY <1>1 DEF BkInv, BkTypeOK
<1> QED
  BY <1>1, <1>2, <1>4, <1>5, <1>6, SetselectFrame

LEMMA FlagsSetselectInv ==
  ASSUME BkInv, NEW p \in BkPollable, bpoll[p].state = "live", NEW func \in SUBSET BkDir,
         bkind \in {"ports", "qnx"}, FlagsSetselect(p, func), UNCHANGED <<bkind, bturn>>
  PROVE  BkInv'
<1>1. /\ UNCHANGED <<blist, bslots>>
      /\ bkernel' = IF bpoll[p].flags = {} /\ func = {} THEN bkernel
                    ELSE (bkernel \ Registrations(p)) \cup ({p} \X func)
      /\ ~BkListed /\ IsPoll(bpoll[p])
  BY DEF FlagsSetselect, BkListed, BkInv, BkTypeOK, IsPolls
<1>2. bpoll' = [bpoll EXCEPT ![p] = [state |-> "live", func |-> func,
                                     slot |-> bpoll[p].slot, flags |-> func]]
  <2>1. bpoll' = [bpoll EXCEPT ![p].func = func, ![p].flags = func]
    BY DEF FlagsSetselect
  <2>2. [bpoll[p] EXCEPT !.func = func, !.flags = func]
          = [state |-> "live", func |-> func, slot |-> bpoll[p].slot, flags |-> func]
    <3> DEFINE b == bpoll[p]
    <3>1. b = [state |-> b.state, func |-> b.func, slot |-> b.slot, flags |-> b.flags]
      BY <1>1 DEF IsPoll
    <3>2. b.state = "live"
      OBVIOUS
    <3> DEFINE c == [b EXCEPT !.func = func, !.flags = func]
    <3>3. c = [b EXCEPT !.func = func, !.flags = func]
      OBVIOUS
    <3> HIDE DEF b, c
    <3>4. c = [state |-> b.state, func |-> func, slot |-> b.slot, flags |-> func]
      BY ONLY <3>1, <3>3
    <3> QED
      BY <3>2, <3>4 DEF b, c
  <2>3. bpoll' = [bpoll EXCEPT ![p] = [bpoll[p] EXCEPT !.func = func, !.flags = func]]
    <3>1. IsPolls(bpoll)
      BY DEF BkInv, BkTypeOK
    <3> QED
      BY <2>1, <3>1 DEF IsPolls
  <2> QED
    BY <2>2, <2>3
<1>3. /\ \A q \in BkPollable : q # p => bpoll'[q] = bpoll[q]
      /\ bpoll'[p].state = "live" /\ bpoll'[p].func = func
  BY <1>2, PollChanges
<1>4. bpoll'[p].flags = func
  <2>1. IsPolls(bpoll)
    BY DEF BkInv, BkTypeOK
  <2> QED
    BY <1>2, <2>1 DEF IsPolls
<1>5. bpoll[p].flags = bpoll[p].func
  BY DEF BkInv, FlagsInv
<1>6. KernelInv'
  <2> SUFFICES ASSUME NEW q \in BkPollable, NEW d \in BkDir
               PROVE  /\ <<q, d>> \in bkernel' => bpoll'[q].state = "live" /\ d \in bpoll'[q].func
                      /\ bkind # "ports" /\ bpoll'[q].state = "live" /\ d \in bpoll'[q].func
                           => <<q, d>> \in bkernel'
    BY DEF KernelInv
  <2>1. /\ <<q, d>> \in bkernel => bpoll[q].state = "live" /\ d \in bpoll[q].func
        /\ bkind # "ports" /\ bpoll[q].state = "live" /\ d \in bpoll[q].func => <<q, d>> \in bkernel
    BY <1>1 DEF BkInv, KernelInv
  <2>2. CASE q = p
    <3>1. CASE func = {} /\ bpoll[p].flags = {}
      BY <1>1, <1>3, <1>5, <2>1, <2>2, <3>1
    <3>2. CASE ~(func = {} /\ bpoll[p].flags = {})
      BY <1>1, <1>3, <2>2, <3>2 DEF Registrations
    <3> QED
      BY <3>1, <3>2
  <2>3. CASE q # p
    BY <1>1, <1>3, <2>1, <2>3 DEF Registrations
  <2> QED
    BY <2>2, <2>3
<1>7. FlagsInv'
  BY <1>3, <1>4 DEF BkInv, FlagsInv
<1>8. SlotsInv'
  BY DEF SlotsInv
<1>9. IsSlots(bslots')
  BY <1>1 DEF BkInv, BkTypeOK
<1> QED
  BY <1>1, <1>2, <1>6, <1>7, <1>8, <1>9, SetselectFrame

LEMMA FindSlot ==
  ASSUME BkInv, bkind = "winsock", NEW p \in BkPollable, bpoll[p].slot = 0
  PROVE  /\ mowgli_winsock_eventloop_find_slot \in 1 .. BkSlots
         /\ bslots.used[mowgli_winsock_eventloop_find_slot] = BkNull
<1>1. /\ bslots.used \in [1 .. BkSlots -> BkPtr]
      /\ \A s \in 1 .. BkSlots : bslots.used[s] # BkNull => bpoll[bslots.used[s]].slot = s
  BY DEF BkInv, BkTypeOK, IsSlots, SlotsInv
<1>2. /\ IsFiniteSet(BkPollable) /\ Cardinality(BkPollable) \in Nat
      /\ BkSlots \in Nat /\ BkSlots >= Cardinality(BkPollable)
  BY BackendsAssumption, FS_CardinalityType
<1>3. FreeSlots # {}
  <2> SUFFICES ASSUME FreeSlots = {} PROVE FALSE
    OBVIOUS
  <2> DEFINE others == BkPollable \ {p}
  <2>1. ASSUME NEW s \in 1 .. BkSlots PROVE bslots.used[s] \in others /\ bpoll[bslots.used[s]].slot = s
    <3>1. bslots.used[s] # BkNull
      BY DEF FreeSlots
    <3>2. bpoll[bslots.used[s]].slot = s /\ s # 0
      BY <1>1, <3>1
    <3> QED
      BY <1>1, <3>1, <3>2 DEF BkPtr
  <2>2. bslots.used \in [1 .. BkSlots -> others]
    BY <1>1, <2>1
  <2>3. /\ IsFiniteSet(others)
        /\ Cardinality(others) = Cardinality(BkPollable) - 1
    BY <1>2, FS_RemoveElement
  <2>4. IsFiniteSet(1 .. BkSlots) /\ Cardinality(1 .. BkSlots) = BkSlots
    <3>1. BkSlots \in Int /\ 1 \in Int
      BY <1>2
    <3>2. /\ IsFiniteSet(1 .. BkSlots)
          /\ Cardinality(1 .. BkSlots) = IF 1 > BkSlots THEN 0 ELSE BkSlots - 1 + 1
      BY ONLY <3>1, FS_Interval
    <3> QED
      BY <1>2, <3>2
  <2>5. Cardinality(others) < Cardinality(1 .. BkSlots)
    BY <1>2, <2>3, <2>4
  <2> DEFINE f == bslots.used
             S == 1 .. BkSlots
  <2>6. \E i, j \in S : i # j /\ f[i] = f[j]
    <3>1. IsFiniteSet(S) /\ IsFiniteSet(others) /\ Cardinality(others) < Cardinality(S) /\ f \in [S -> others]
      BY <2>2, <2>3, <2>4, <2>5
    <3> HIDE DEF others, f, S
    <3> QED
      BY ONLY <3>1, FS_PigeonHole
  <2> QED
    BY <2>1, <2>6
<1> DEFINE after == {s \in FreeSlots : s >= bslots.last}
           from == IF after = {} THEN FreeSlots ELSE after
<1>4. from # {} /\ from \subseteq FreeSlots
  BY <1>3
<1>5. FreeSlots \subseteq 1 .. BkSlots /\ FreeSlots \subseteq Nat /\ \A s \in FreeSlots : bslots.used[s] = BkNull
  BY <1>2 DEF FreeSlots
<1>6. mowgli_winsock_eventloop_find_slot = CHOOSE s \in from : \A t \in from : s <= t
  BY DEF mowgli_winsock_eventloop_find_slot
<1> HIDE DEF from
<1>7. \E s \in from : \A t \in from : s <= t
  BY <1>4, <1>5, NatMin
<1>8. mowgli_winsock_eventloop_find_slot \in from
  BY <1>6, <1>7
<1> QED
  BY <1>4, <1>5, <1>8

LEMMA WinsockSetselectInv ==
  ASSUME BkInv, NEW p \in BkPollable, bpoll[p].state = "live", NEW func \in SUBSET BkDir,
         mowgli_winsock_eventloop_setselect(p, func), UNCHANGED <<bkind, bturn>>
  PROVE  BkInv'
<1> DEFINE old == bpoll[p].slot
           used == bslots.used
<1>1. /\ bkind = "winsock" /\ bkind' = "winsock" /\ UNCHANGED blist
      /\ bkernel' = (bkernel \ Registrations(p)) \cup ({p} \X func)
      /\ ~BkListed /\ IsPolls(bpoll)
      /\ bslots = [used |-> used, last |-> bslots.last] /\ used \in [1 .. BkSlots -> BkPtr]
      /\ BkNull \notin BkPollable
  BY BackendsAssumption DEF mowgli_winsock_eventloop_setselect, BkListed, BkInv, BkTypeOK, IsSlots
<1>2. /\ bturn.at = "idle" /\ bturn'.at = "idle"
      /\ \A q \in BkPollable : bpoll[q].slot # 0 =>
           bpoll[q].slot \in 1 .. BkSlots /\ used[bpoll[q].slot] = q
      /\ \A s \in 1 .. BkSlots : used[s] # BkNull => used[s] \in BkPollable /\ bpoll[used[s]].slot = s
  BY <1>1 DEF BkInv, SlotsInv, BkPtr
\* slot is the new one, and table what is left of used
<1>3. ASSUME NEW slot, NEW table, NEW last, NEW f,
             bpoll' = [bpoll EXCEPT ![p].func = func, ![p].slot = slot, ![p].flags = f],
             bslots' = [used |-> table, last |-> last],
             table \in [1 .. BkSlots -> BkPtr],
             slot # 0 => slot \in 1 .. BkSlots /\ table[slot] = p,
             old # 0 /\ old # slot => table[old] = BkNull,
             \A s \in 1 .. BkSlots : s # slot /\ s # old => table[s] = used[s],
             slot # 0 /\ slot # old => used[slot] = BkNull
      PROVE  BkInv'
  <2>1. bpoll' = [bpoll EXCEPT ![p] = [state |-> "live", func |-> func, slot |-> slot, flags |-> f]]
    <3> DEFINE b == bpoll[p]
               r == [b EXCEPT !.func = func, !.slot = slot, !.flags = f]
    <3>1. /\ b = [state |-> b.state, func |-> b.func, slot |-> b.slot, flags |-> b.flags]
          /\ b.state = "live"
      BY <1>1 DEF IsPolls, IsPoll
    <3>2. bpoll' = [bpoll EXCEPT ![p] = r]
      BY <1>1, <1>3 DEF IsPolls
    <3>3. r = [b EXCEPT !.func = func, !.slot = slot, !.flags = f]
      OBVIOUS
    <3> HIDE DEF b, r
    <3>4. r = [state |-> b.state, func |-> func, slot |-> slot, flags |-> f]
      BY ONLY <3>1, <3>3
    <3> QED
      BY <3>1, <3>2, <3>4
  <2>2. /\ \A q \in BkPollable : q # p => bpoll'[q] = bpoll[q]
        /\ bpoll'[p].state = "live" /\ bpoll'[p].func = func
    BY <2>1, PollChanges
  <2>3. bpoll'[p].slot = slot
    BY <1>1, <2>1 DEF IsPolls
  <2>4. KernelInv'
    <3> SUFFICES ASSUME NEW q \in BkPollable, NEW d \in BkDir
                 PROVE  <<q, d>> \in bkernel' <=> bpoll'[q].state = "live" /\ d \in bpoll'[q].func
      BY DEF KernelInv
    <3>1. <<q, d>> \in bkernel <=> bpoll[q].state = "live" /\ d \in bpoll[q].func
      BY <1>1 DEF BkInv, KernelInv
    <3>2. CASE q = p
      BY <1>1, <2>2, <3>2 DEF Registrations
    <3>3. CASE q # p
      BY <1>1, <2>2, <3>1, <3>3 DEF Registrations
    <3> QED
      BY <3>2, <3>3
  <2>5. IsSlots(bslots') /\ bslots'.used = table
    BY <1>3 DEF IsSlots
  <2>6. SlotsInv'
    <3>1. ASSUME NEW q \in BkPollable, bpoll'[q].slot # 0
          PROVE  bpoll'[q].slot \in 1 .. BkSlots /\ table[bpoll'[q].slot] = q
      <4>1. CASE q = p
        BY <1>3, <2>3, <3>1, <4>1
      <4>2. CASE q # p
        <5>1. bpoll'[q].slot = bpoll[q].slot /\ bpoll[q].slot \in 1 .. BkSlots /\ used[bpoll[q].slot] = q
          BY <1>2, <2>2, <3>1, <4>2
        <5>2. bpoll[q].slot # old
          BY <1>2, <4>2, <5>1
        <5>3. bpoll[q].slot # slot
          BY <1>1, <1>3, <5>1, <5>2
        <5> QED
          BY <1>3, <5>1, <5>2, <5>3
      <4> QED
        BY <4>1, <4>2
    <3>2. ASSUME NEW s \in 1 .. BkSlots, table[s] # BkNull
          PROVE  bpoll'[table[s]].slot = s
      <4>1. CASE s = slot
        <5>1. slot # 0
          BY <4>1
        <5> QED
          BY <1>3, <2>3, <4>1, <5>1
      <4>2. CASE s # slot
        <5>1. s # old
          BY <1>3, <3>2, <4>2
        <5>2. table[s] = used[s] /\ used[s] \in BkPollable /\ bpoll[used[s]].slot = s
          BY <1>2, <1>3, <3>2, <4>2, <5>1
        <5>3. used[s] # p
          BY <5>1, <5>2
        <5> QED
          BY <2>2, <5>2, <5>3
      <4> QED
        BY <4>1, <4>2
    <3> QED
      BY <1>2, <2>5, <3>1, <3>2 DEF SlotsInv
  <2>7. FlagsInv'
    BY <1>1 DEF FlagsInv
  <2> QED
    BY <1>1, <2>1, <2>4, <2>5, <2>6, <2>7, SetselectFrame
<1>4. CASE func = {}
  <2> DEFINE table == IF old = 0 THEN used ELSE [used EXCEPT ![old] = BkNull]
  <2>1. /\ bpoll' = [bpoll EXCEPT ![p].func = func, ![p].slot = 0, ![p].flags = {}]
        /\ bslots' = IF old = 0 THEN bslots ELSE [bslots EXCEPT !.used[old] = BkNull]
    BY <1>4 DEF mowgli_winsock_eventloop_setselect, WinsockRelease
  <2>2. bslots' = [used |-> table, last |-> bslots.last]
    <3> HIDE DEF old
    <3>1. CASE old = 0
      BY <1>1, <2>1, <3>1
    <3>2. CASE old # 0
      <4>1. bslots' = [bslots EXCEPT !.used = [used EXCEPT ![old] = BkNull]]
        BY <2>1, <3>2
      <4> QED
        BY <1>1, <3>2, <4>1
    <3> QED
      BY <3>1, <3>2
  <2>3. table \in [1 .. BkSlots -> BkPtr]
    BY <1>1 DEF BkPtr
  <2>4. old # 0 => old \in 1 .. BkSlots
    BY <1>2
  <2> DEFINE slot == 0
             f == {}
  <2>5. /\ slot # 0 => slot \in 1 .. BkSlots /\ table[slot] = p
        /\ old # 0 /\ old # slot => table[old] = BkNull
        /\ \A s \in 1 .. BkSlots : s # slot /\ s # old => table[s] = used[s]
        /\ slot # 0 /\ slot # old => used[slot] = BkNull
    BY <1>1, <2>4
  <2>6. bpoll' = [bpoll EXCEPT ![p].func = func, ![p].slot = slot, ![p].flags = f]
    BY <2>1
  <2> HIDE DEF table, used, old, slot, f
  <2> QED
    BY <1>3, <2>2, <2>3, <2>5, <2>6
<1>5. CASE func # {} /\ old # 0
  <2>1. /\ bpoll' = [bpoll EXCEPT ![p].func = func, ![p].slot = old, ![p].flags = func]
        /\ bslots' = bslots
    BY <1>5 DEF mowgli_winsock_eventloop_setselect
  <2>2. old \in 1 .. BkSlots /\ used[old] = p
    BY <1>2, <1>5
  <2>3. bslots' = [used |-> used, last |-> bslots.last]
    BY <1>1, <2>1
  <2> HIDE DEF used, old
  <2> QED
    BY <1>1, <1>3, <2>1, <2>2, <2>3
<1>6. CASE func # {} /\ old = 0
  <2> DEFINE slot == mowgli_winsock_eventloop_find_slot
             table == [used EXCEPT ![slot] = p]
  <2>1. /\ bpoll' = [bpoll EXCEPT ![p].func = func, ![p].slot = slot, ![p].flags = func]
        /\ bslots' = [used |-> table, last |-> slot]
    BY <1>6 DEF mowgli_winsock_eventloop_setselect
  <2>2. slot \in 1 .. BkSlots /\ used[slot] = BkNull
    BY <1>1, <1>6, FindSlot
  <2> HIDE DEF slot, used, old
  <2>3. table \in [1 .. BkSlots -> BkPtr] /\ table[slot] = p
        /\ \A s \in 1 .. BkSlots : s # slot => table[s] = used[s]
    BY <1>1, <2>2 DEF BkPtr
  <2> HIDE DEF table
  <2> QED
    BY <1>3, <1>6, <2>1, <2>2, <2>3, ZenonT(40)
<1> QED
  BY <1>4, <1>5, <1>6

LEMMA SetselectInv ==
  ASSUME BkInv, NEW p \in BkPollable, NEW dir \in BkDir, NEW set \in BOOLEAN, BkSetselect(p, dir, set)
  PROVE  BkInv'
<1> DEFINE func == IF set THEN bpoll[p].func \cup {dir} ELSE bpoll[p].func \ {dir}
<1>1. /\ bpoll[p].state = "live" /\ UNCHANGED <<bkind, bturn>>
      /\ \/ mowgli_poll_eventloop_setselect(p, func)
         \/ mowgli_select_eventloop_setselect(p, func)
         \/ mowgli_kqueue_eventloop_setselect(p, func)
         \/ mowgli_ports_eventloop_setselect(p, func)
         \/ mowgli_qnx_eventloop_setselect(p, func)
         \/ mowgli_winsock_eventloop_setselect(p, func)
  BY Zenon DEF BkSetselect
<1>2. func \in SUBSET BkDir
  BY DEF BkInv, BkTypeOK, IsPolls, IsPoll
<1> HIDE DEF func
<1>3. CASE mowgli_poll_eventloop_setselect(p, func) \/ mowgli_select_eventloop_setselect(p, func)
  <2>1. BkListed /\ PlistSetselect(p, func)
    BY <1>3 DEF mowgli_poll_eventloop_setselect, mowgli_select_eventloop_setselect, BkListed
  <2> QED
    BY <1>1, <1>2, <2>1, PlistSetselectInv
<1>4. CASE mowgli_kqueue_eventloop_setselect(p, func)
  BY <1>1, <1>2, <1>4, KqueueSetselectInv
<1>5. CASE mowgli_ports_eventloop_setselect(p, func) \/ mowgli_qnx_eventloop_setselect(p, func)
  <2>1. bkind \in {"ports", "qnx"} /\ FlagsSetselect(p, func)
    BY <1>5 DEF mowgli_ports_eventloop_setselect, mowgli_qnx_eventloop_setselect
  <2> QED
    BY <1>1, <1>2, <2>1, FlagsSetselectInv
<1>6. CASE mowgli_winsock_eventloop_setselect(p, func)
  BY <1>1, <1>2, <1>6, WinsockSetselectInv
<1> QED
  BY <1>1, <1>3, <1>4, <1>5, <1>6

LEMMA DestroyInv ==
  ASSUME BkInv, NEW p \in BkPollable, BkDestroy(p)
  PROVE  BkInv'
<1> DEFINE idle == bturn.at = "idle"
           b == bpoll[p]
           removed == [state |-> "removed", func |-> b.func, slot |-> b.slot, flags |-> b.flags]
           r == IF idle THEN BkFreed ELSE removed
           sel == Selected(bpoll)
           held == Allocated(bpoll)
<1>1. /\ IsPolls(bpoll) /\ IsPoll(b) /\ b.state = "live" /\ Careful(p)
      /\ UNCHANGED <<bkind, bturn>>
      /\ \/ mowgli_poll_eventloop_destroy(p)
         \/ mowgli_select_eventloop_destroy(p)
         \/ mowgli_kqueue_eventloop_destroy(p)
         \/ mowgli_ports_eventloop_destroy(p)
         \/ mowgli_qnx_eventloop_destroy(p)
         \/ mowgli_winsock_eventloop_destroy(p)
  BY DEF BkDestroy, BkInv, BkTypeOK, IsPolls
<1>2. bpoll' = [bpoll EXCEPT ![p] = r]
  <2>1. bpoll' = [bpoll EXCEPT ![p] = IF idle THEN BkFreed ELSE [b EXCEPT !.state = "removed"]]
    BY DEF BkDestroy, BkFreeOrDefer
  <2>2. b = [state |-> b.state, func |-> b.func, slot |-> b.slot, flags |-> b.flags]
    BY <1>1 DEF IsPoll
  <2> HIDE DEF b
  <2>3. [b EXCEPT !.state = "removed"] = removed
    BY <2>2
  <2> QED
    BY <2>1, <2>3
<1>3. IsPoll(BkFreed) /\ IsPoll(removed) /\ BkFreed.state = "freed" /\ removed.state = "removed"
      /\ BkFreed.slot = 0
  BY <1>1 DEF IsPoll, BkFreed
<1> HIDE DEF removed
<1>4. /\ IsPoll(r) /\ r.state \in {"freed", "removed"} /\ (r.state = "freed" <=> idle)
      /\ idle => r = BkFreed
  BY <1>3
<1> HIDE DEF r
<1>5. /\ IsPolls(bpoll') /\ bpoll'[p] = r
      /\ \A q \in BkPollable : q # p => bpoll'[q] = bpoll[q]
  BY <1>1, <1>2, <1>4 DEF IsPolls
<1>6. /\ Selected(bpoll') = sel \ {p}
      /\ Allocated(bpoll') = IF idle THEN held \ {p} ELSE held
      /\ p \in sel /\ held \in SUBSET BkPollable
  BY <1>1, <1>4, <1>5 DEF Selected, Allocated, Careful
<1>7. FreedInv'
  BY <1>4, <1>5 DEF BkInv, FreedInv
<1>8. ArrayInv'
  <2>1. idle => bturn.array = << >> /\ bturn.n = BkNull /\ bturn.tn = BkNull
    BY DEF BkInv, ArrayInv, NoTurn
  <2>2. \A i \in DOMAIN bturn.array : bturn.array[i][1] \in Allocated(bpoll')
    BY <1>6, <2>1 DEF BkInv, ArrayInv
  <2> QED
    BY <1>1, <2>2 DEF BkInv, ArrayInv, BkListed
<1>9. CASE mowgli_poll_eventloop_destroy(p) \/ mowgli_select_eventloop_destroy(p)
  <2>1. BkListed /\ blist' = NodeDelete(blist, p) /\ UNCHANGED <<bkernel, bslots>>
    BY <1>9 DEF mowgli_poll_eventloop_destroy, mowgli_select_eventloop_destroy, PlistDestroy, BkListed
  <2>2. PlistIs(blist, sel, held, bturn.n, bturn.tn) /\ ListType(blist)
    BY <2>1 DEF BkInv, PlistInv, BkTypeOK
  <2>3. ListType(blist') /\ PlistIs(blist', sel \ {p}, held, bturn.n, bturn.tn)
    <3> HIDE DEF sel, held
    <3> QED
      BY <1>6, <2>1, <2>2, PlistDelete
  <2>4. PlistIs(blist', sel \ {p}, Allocated(bpoll'), bturn.n, bturn.tn)
    <3>1. CASE idle
      <4>1. bturn.n = BkNull /\ bturn.tn = BkNull
        BY <3>1 DEF BkInv, ArrayInv, NoTurn
      <4>2. sel \ {p} \subseteq held \ {p} /\ held \ {p} \in SUBSET BkPollable
        BY DEF Selected, Allocated
      <4> HIDE DEF sel, held
      <4>3. PlistIs(blist', sel \ {p}, held \ {p}, BkNull, BkNull)
        BY <1>6, <2>3, <4>2, PlistWalk
      <4> QED
        BY <1>6, <3>1, <4>1, <4>3
    <3>2. CASE ~idle
      BY <1>6, <2>3, <3>2
    <3> QED
      BY <3>1, <3>2
  <2>5. PlistInv'
    BY <1>1, <1>6, <2>4 DEF PlistInv
  <2>6. BkTypeOK'
    BY <1>1, <1>5, <2>1, <2>3 DEF BkInv, BkTypeOK
  <2>7. KernelInv' /\ FlagsInv' /\ SlotsInv'
    BY <1>1, <2>1 DEF KernelInv, FlagsInv, SlotsInv, BkListed
  <2> QED
    BY <1>7, <1>8, <2>5, <2>6, <2>7 DEF BkInv
<1>10. ASSUME ~BkListed, UNCHANGED blist, IsSlots(bslots'), SlotsInv',
              \A q \in BkPollable, d \in BkDir :
                <<q, d>> \in bkernel' <=> q # p /\ <<q, d>> \in bkernel
       PROVE  BkInv'
  <2>1. KernelInv'
    <3> SUFFICES ASSUME NEW q \in BkPollable, NEW d \in BkDir
                 PROVE  /\ <<q, d>> \in bkernel' => bpoll'[q].state = "live" /\ d \in bpoll'[q].func
                        /\ bkind # "ports" /\ bpoll'[q].state = "live" /\ d \in bpoll'[q].func
                             => <<q, d>> \in bkernel'
      BY <1>1 DEF KernelInv
    <3>1. /\ <<q, d>> \in bkernel => bpoll[q].state = "live" /\ d \in bpoll[q].func
          /\ bkind # "ports" /\ bpoll[q].state = "live" /\ d \in bpoll[q].func => <<q, d>> \in bkernel
      BY <1>10 DEF BkInv, KernelInv
    <3> QED
      BY <1>4, <1>5, <1>10, <3>1
  <2>2. FlagsInv'
    BY <1>1, <1>4, <1>5 DEF BkInv, FlagsInv
  <2>3. PlistInv'
    BY <1>1, <1>10 DEF PlistInv, BkListed
  <2>4. BkTypeOK'
    BY <1>1, <1>5, <1>10 DEF BkInv, BkTypeOK
  <2> QED
    BY <1>7, <1>8, <1>10, <2>1, <2>2, <2>3, <2>4 DEF BkInv
<1>11. CASE mowgli_kqueue_eventloop_destroy(p)
  <2>1. /\ bkind = "kqueue" /\ ~BkListed /\ UNCHANGED <<blist, bslots>>
        /\ bkernel' = bkernel \ { <<p, "read">> }
    BY <1>11 DEF mowgli_kqueue_eventloop_destroy, Unregister, BkListed
  <2>2. <<p, "write">> \notin bkernel
    <3>1. "write" \notin b.func /\ "write" \in BkDir
      BY <1>1, <2>1 DEF Careful, BkDir
    <3> QED
      BY <2>1, <3>1 DEF BkInv, KernelInv
  <2>3. \A q \in BkPollable, d \in BkDir : <<q, d>> \in bkernel' <=> q # p /\ <<q, d>> \in bkernel
    BY <2>1, <2>2 DEF BkDir
  <2>4. SlotsInv' /\ IsSlots(bslots')
    BY <1>1, <2>1 DEF SlotsInv, BkInv, BkTypeOK
  <2> QED
    BY <1>10, <2>1, <2>3, <2>4
<1>12. CASE mowgli_ports_eventloop_destroy(p) \/ mowgli_qnx_eventloop_destroy(p)
  <2>1. /\ bkind # "winsock" /\ ~BkListed /\ UNCHANGED <<blist, bslots>>
        /\ bkernel' = bkernel \ Registrations(p)
    BY <1>12 DEF mowgli_ports_eventloop_destroy, mowgli_qnx_eventloop_destroy, Unregister, BkListed
  <2>2. \A q \in BkPollable, d \in BkDir : <<q, d>> \in bkernel' <=> q # p /\ <<q, d>> \in bkernel
    BY <2>1 DEF Registrations
  <2>3. SlotsInv' /\ IsSlots(bslots')
    BY <1>1, <2>1 DEF SlotsInv, BkInv, BkTypeOK
  <2> QED
    BY <1>10, <2>1, <2>2, <2>3
<1>13. CASE mowgli_winsock_eventloop_destroy(p)
  <2> DEFINE old == bpoll[p].slot
             used == bslots.used
             table == IF old = 0 THEN used ELSE [used EXCEPT ![old] = BkNull]
  <2>1. /\ bkind = "winsock" /\ ~BkListed /\ UNCHANGED blist
        /\ bkernel' = bkernel \ Registrations(p)
        /\ bslots' = IF old = 0 THEN bslots ELSE [bslots EXCEPT !.used[old] = BkNull]
    BY <1>13 DEF mowgli_winsock_eventloop_destroy, Unregister, WinsockRelease, BkListed
  <2>2. \A q \in BkPollable, d \in BkDir : <<q, d>> \in bkernel' <=> q # p /\ <<q, d>> \in bkernel
    BY <2>1 DEF Registrations
  <2>3. /\ bslots = [used |-> used, last |-> bslots.last] /\ used \in [1 .. BkSlots -> BkPtr]
        /\ idle /\ BkNull \notin BkPollable
        /\ \A q \in BkPollable : bpoll[q].slot # 0 =>
             bpoll[q].slot \in 1 .. BkSlots /\ used[bpoll[q].slot] = q
        /\ \A s \in 1 .. BkSlots : used[s] # BkNull => used[s] \in BkPollable /\ bpoll[used[s]].slot = s
    BY <2>1, BackendsAssumption DEF BkInv, SlotsInv, BkPtr, BkTypeOK, IsSlots
  <2>4. bslots' = [used |-> table, last |-> bslots.last]
    <3> HIDE DEF old
    <3>1. CASE old = 0
      BY <2>1, <2>3, <3>1
    <3>2. CASE old # 0
      <4>1. bslots' = [bslots EXCEPT !.used = [used EXCEPT ![old] = BkNull]]
        BY <2>1, <3>2
      <4> QED
        BY <2>3, <3>2, <4>1
    <3> QED
      BY <3>1, <3>2
  <2>5. /\ table \in [1 .. BkSlots -> BkPtr]
        /\ \A s \in 1 .. BkSlots : table[s] = IF s = old THEN BkNull ELSE used[s]
    <3>1. used \in [1 .. BkSlots -> BkPtr] /\ BkNull \in BkPtr
      BY <2>3 DEF BkPtr
    <3> HIDE DEF old, used
    <3>2. CASE old = 0
      BY <3>1, <3>2
    <3>3. CASE old # 0
      BY <3>1, <3>3
    <3> QED
      BY <3>2, <3>3
  <2> HIDE DEF table
  <2>6. IsSlots(bslots') /\ bslots'.used = table
    BY <2>4, <2>5 DEF IsSlots
  <2>7. bpoll'[p].slot = 0
    BY <1>3, <1>4, <1>5, <2>3
  <2>8. ASSUME NEW q \in BkPollable, bpoll'[q].slot # 0
        PROVE  bpoll'[q].slot \in 1 .. BkSlots /\ table[bpoll'[q].slot] = q
    <3>1. q # p /\ bpoll'[q].slot = bpoll[q].slot
      BY <1>5, <2>7, <2>8
    <3>2. bpoll[q].slot \in 1 .. BkSlots /\ used[bpoll[q].slot] = q /\ bpoll[q].slot # old
      BY <2>3, <2>8, <3>1
    <3> QED
      BY <2>5, <3>1, <3>2
  <2>9. ASSUME NEW s \in 1 .. BkSlots, table[s] # BkNull
        PROVE  bpoll'[table[s]].slot = s
    <3>1. s # old /\ table[s] = used[s]
      BY <2>5, <2>9
    <3>2. used[s] \in BkPollable /\ bpoll[used[s]].slot = s /\ used[s] # p
      BY <2>3, <2>9, <3>1
    <3> QED
      BY <1>5, <3>1, <3>2
  <2>10. SlotsInv'
    BY <1>1, <2>3, <2>6, <2>8, <2>9 DEF SlotsInv
  <2> QED
    BY <1>10, <2>1, <2>2, <2>6, <2>10
<1> QED
  BY <1>1, <1>9, <1>11, <1>12, <1>13

-----------------------------------------------------------------------------
(* The walks.                                                              *)

\* a step of a walk: only the turn changes, and what the system has
LEMMA TurnFrame ==
  ASSUME BkInv, UNCHANGED <<bkind, bpoll, blist, bslots>>, bkind # "winsock",
         IsTurn(bturn'), PlistInv', ArrayInv', KernelInv'
  PROVE  BkInv'
<1>1. BkTypeOK'
  BY DEF BkInv, BkTypeOK
<1>2. FreedInv' /\ FlagsInv' /\ SlotsInv'
  BY DEF BkInv, FreedInv, FlagsInv, SlotsInv
<1> QED
  BY <1>1, <1>2 DEF BkInv

\* the turn that starts a walk of the list
LEMMA PlistTurnInv ==
  ASSUME BkInv, BkListed, blist.head # BkNull, bturn.at = "idle",
         UNCHANGED <<bkind, blist>>, Selected(bpoll') = Selected(bpoll), Allocated(bpoll') = Allocated(bpoll),
         \E r : bturn' = [NoTurn EXCEPT !.at = "walk", !.n = blist.head,
                                        !.tn = blist.next[blist.head], !.revents = r]
  PROVE  IsTurn(bturn') /\ PlistInv' /\ ArrayInv'
<1>1. PICK r : bturn' = [NoTurn EXCEPT !.at = "walk", !.n = blist.head,
                                       !.tn = blist.next[blist.head], !.revents = r]
  OBVIOUS
<1> DEFINE h == blist.head
           x == blist.next[blist.head]
<1>2. bturn' = [at |-> "walk", n |-> h, tn |-> x, dir |-> "read", revents |-> r, array |-> << >>]
  <2> HIDE DEF h, x
  <2>1. bturn' = [NoTurn EXCEPT !.at = "walk", !.n = h, !.tn = x, !.revents = r]
    BY <1>1 DEF h, x
  <2> QED
    BY <2>1 DEF NoTurn
<1> HIDE DEF h, x
<1>3. /\ bturn'.at = "walk" /\ bturn'.n = h /\ bturn'.tn = x /\ bturn'.dir = "read"
      /\ bturn'.revents = r /\ bturn'.array = << >>
  BY <1>2
<1>4. IsTurn(bturn')
  BY <1>2, <1>3, EmptySeq DEF IsTurn
<1>5. PlistIs(blist, Selected(bpoll), Allocated(bpoll), bturn.n, bturn.tn)
  BY DEF BkInv, PlistInv
<1>6. Allocated(bpoll) \in SUBSET BkPollable
  BY DEF Allocated
<1>7. PlistIs(blist, Selected(bpoll), Allocated(bpoll), h, x)
  BY <1>5, <1>6, PlistWalk DEF h, x
<1>8. PlistInv'
  BY <1>3, <1>7 DEF PlistInv
<1>9. ArrayInv'
  BY <1>3 DEF ArrayInv, BkListed
<1> QED
  BY <1>4, <1>8, <1>9

LEMMA PollSelectInv ==
  ASSUME BkInv, mowgli_poll_eventloop_select
  PROVE  BkInv'
<1> DEFINE l == Chain(blist, blist.head)
           on(p) == \E i \in DOMAIN l : l[i] = p
           slot(p) == (CHOOSE i \in DOMAIN l : l[i] = p) - 1
<1>1. /\ bturn.at = "idle" /\ bkind = "poll" /\ bkind' = "poll" /\ BkListed /\ blist.head # BkNull
      /\ UNCHANGED <<blist, bkernel, bslots>>
      /\ IsPolls(bpoll)
  BY DEF mowgli_poll_eventloop_select, PlistTurn, BkListed, BkInv, BkTypeOK
<1>2. \E r : bturn' = [NoTurn EXCEPT !.at = "walk", !.n = blist.head,
                                     !.tn = blist.next[blist.head], !.revents = r]
  BY DEF mowgli_poll_eventloop_select, PlistTurn
<1>3. bpoll' = [p \in BkPollable |-> IF on(p) THEN [bpoll[p] EXCEPT !.slot = slot(p)] ELSE bpoll[p]]
  BY Zenon DEF mowgli_poll_eventloop_select, update_poll_fds
<1>4. ASSUME NEW p \in BkPollable PROVE ~on(p) \/ bpoll[p].state = "live"
  <2>1. PICK s : ListIs(blist, s) /\ Nodes(s) = Selected(bpoll)
    BY <1>1 DEF BkInv, PlistInv, PlistIs
  <2>2. l = s /\ DOMAIN s = 1 .. Len(s)
    BY <2>1, ChainIs DEF ListIs
  <2> HIDE DEF l
  <2>3. on(p) => p \in Nodes(s)
    BY <2>2 DEF Nodes
  <2> QED
    BY <2>1, <2>3 DEF Selected
<1> HIDE DEF on, slot
<1>5. ASSUME NEW p \in BkPollable
      PROVE  /\ IsPoll(bpoll'[p]) /\ bpoll'[p].state = bpoll[p].state /\ bpoll'[p].func = bpoll[p].func
             /\ bpoll[p].state # "live" => bpoll'[p] = bpoll[p]
  <2>1. IsPoll(bpoll[p])
    BY <1>1 DEF IsPolls
  <2>2. CASE on(p)
    <3> DEFINE b == bpoll[p]
               c == [b EXCEPT !.slot = slot(p)]
    <3>1. bpoll'[p] = c
      BY <1>3, <2>2
    <3>2. c = [state |-> b.state, func |-> b.func, slot |-> slot(p), flags |-> b.flags]
      <4>1. b = [state |-> b.state, func |-> b.func, slot |-> b.slot, flags |-> b.flags]
        BY <2>1 DEF IsPoll
      <4> HIDE DEF b
      <4> QED
        BY <4>1
    <3>3. b.state \in {"freed", "live", "removed"} /\ b.func \subseteq BkDir /\ b.state = "live"
      BY <1>4, <2>1, <2>2 DEF IsPoll
    <3> HIDE DEF b, c
    <3>4. c.state = b.state /\ c.func = b.func /\ c.slot = slot(p) /\ c.flags = b.flags
      BY ONLY <3>2
    <3>5. IsPoll(c)
      BY <3>2, <3>3, <3>4 DEF IsPoll
    <3> QED
      BY <3>1, <3>3, <3>4, <3>5 DEF b
  <2>3. CASE ~on(p)
    BY <1>3, <2>1, <2>3
  <2> QED
    BY <2>2, <2>3
<1>6. IsPolls(bpoll')
  <2>1. bpoll' = [p \in BkPollable |-> bpoll'[p]]
    BY <1>3
  <2> QED
    BY <1>5, <2>1 DEF IsPolls
<1>7. Selected(bpoll') = Selected(bpoll) /\ Allocated(bpoll') = Allocated(bpoll)
  BY <1>5 DEF Selected, Allocated
<1>8. IsTurn(bturn') /\ PlistInv' /\ ArrayInv'
  BY <1>1, <1>2, <1>7, PlistTurnInv
<1>9. FreedInv'
  BY <1>5 DEF BkInv, FreedInv
<1>10. BkTypeOK'
  BY <1>1, <1>6, <1>8 DEF BkInv, BkTypeOK
<1>11. KernelInv' /\ FlagsInv' /\ SlotsInv'
  BY <1>1 DEF KernelInv, FlagsInv, SlotsInv, BkListed
<1> QED
  BY <1>8, <1>9, <1>10, <1>11 DEF BkInv

LEMMA SelectSelectInv ==
  ASSUME BkInv, mowgli_select_eventloop_select
  PROVE  BkInv'
<1>1. /\ bturn.at = "idle" /\ bkind = "select" /\ BkListed /\ blist.head # BkNull
      /\ UNCHANGED <<bkind, bpoll, blist, bkernel, bslots>>
  BY DEF mowgli_select_eventloop_select, PlistTurn, BkListed
<1>2. \E r : bturn' = [NoTurn EXCEPT !.at = "walk", !.n = blist.head,
                                     !.tn = blist.next[blist.head], !.revents = r]
  BY DEF mowgli_select_eventloop_select, PlistTurn
<1>3. IsTurn(bturn') /\ PlistInv' /\ ArrayInv'
  BY <1>1, <1>2, PlistTurnInv
<1>4. KernelInv'
  BY <1>1 DEF KernelInv, BkListed
<1> QED
  BY <1>1, <1>3, <1>4, TurnFrame

LEMMA EntriesAre ==
  ASSUME NEW p \in BkPollable, NEW r \in SUBSET BkDir
  PROVE  /\ Entries(p, r) \in Seq(BkPollable \X BkDir)
         /\ \A i \in DOMAIN Entries(p, r) : Entries(p, r)[i][1] = p /\ r # {}
<1> DEFINE S == BkPollable \X BkDir
           a == IF "read" \in r THEN << <<p, "read">> >> ELSE << >>
           b == IF "write" \in r THEN << <<p, "write">> >> ELSE << >>
<1>1. <<p, "read">> \in S /\ <<p, "write">> \in S
  BY DEF BkDir
<1>2. ASSUME NEW x \in S, x[1] = p
      PROVE  << x >> \in Seq(S) /\ \A i \in DOMAIN << x >> : << x >>[i][1] = p
  BY <1>2
<1>3. << >> \in Seq(S) /\ DOMAIN << >> = {}
  BY EmptySeq
<1>4. a \in Seq(S) /\ \A i \in DOMAIN a : a[i][1] = p /\ r # {}
  BY <1>1, <1>2, <1>3
<1>5. b \in Seq(S) /\ \A i \in DOMAIN b : b[i][1] = p /\ r # {}
  BY <1>1, <1>2, <1>3
<1>6. Entries(p, r) = a \o b
  BY DEF Entries
<1> HIDE DEF a, b, S
<1>7. a \o b \in Seq(S) /\ \A i \in DOMAIN (a \o b) : (a \o b)[i][1] = p /\ r # {}
  <2>1. /\ a \o b \in Seq(S) /\ DOMAIN (a \o b) = 1 .. Len(a) + Len(b)
        /\ \A i \in 1 .. Len(a) + Len(b) : (a \o b)[i] = IF i <= Len(a) THEN a[i] ELSE b[i - Len(a)]
    BY <1>4, <1>5, ConcatProperties
  <2>2. DOMAIN a = 1 .. Len(a) /\ DOMAIN b = 1 .. Len(b) /\ Len(a) \in Nat /\ Len(b) \in Nat
    BY <1>4, <1>5
  <2>3. ASSUME NEW i \in 1 .. Len(a) + Len(b)
        PROVE  (i <= Len(a) => i \in DOMAIN a) /\ (~(i <= Len(a)) => i - Len(a) \in DOMAIN b)
    BY <2>2
  <2> QED
    BY <1>4, <1>5, <2>1, <2>3
<1> QED
  BY <1>6, <1>7 DEF S

\* the turn that starts a walk of an array of events of allocated pollables
LEMMA ArrayTurnInv ==
  ASSUME BkInv, ~BkListed, NEW p \in BkPollable, NEW q \in BkPollable,
         NEW r \in SUBSET BkDir, NEW s \in SUBSET BkDir,
         r # {} => p \in Allocated(bpoll), s # {} => q \in Allocated(bpoll),
         ArrayTurn(Entries(p, r) \o Entries(q, s))
  PROVE  IsTurn(bturn') /\ PlistInv' /\ ArrayInv'
<1> DEFINE a == Entries(p, r)
           b == Entries(q, s)
           c == a \o b
           S == BkPollable \X BkDir
<1>1. /\ a \in Seq(S) /\ \A i \in DOMAIN a : a[i][1] = p /\ r # {}
      /\ b \in Seq(S) /\ \A i \in DOMAIN b : b[i][1] = q /\ s # {}
  BY EntriesAre
<1>2. bturn' = [NoTurn EXCEPT !.at = "walk", !.array = c] /\ UNCHANGED <<bkind, bpoll, blist, bslots>>
  BY DEF ArrayTurn
<1> HIDE DEF a, b, S
<1>3. c \in Seq(S) /\ \A i \in DOMAIN c : c[i][1] \in Allocated(bpoll)
  <2>1. /\ c \in Seq(S) /\ DOMAIN c = 1 .. Len(a) + Len(b)
        /\ \A i \in 1 .. Len(a) + Len(b) : c[i] = IF i <= Len(a) THEN a[i] ELSE b[i - Len(a)]
    BY <1>1, ConcatProperties
  <2>2. DOMAIN a = 1 .. Len(a) /\ DOMAIN b = 1 .. Len(b) /\ Len(a) \in Nat /\ Len(b) \in Nat
    BY <1>1
  <2>3. ASSUME NEW i \in 1 .. Len(a) + Len(b)
        PROVE  (i <= Len(a) => i \in DOMAIN a) /\ (~(i <= Len(a)) => i - Len(a) \in DOMAIN b)
    BY <2>2
  <2> HIDE DEF c
  <2> QED
    BY <1>1, <2>1, <2>3
<1> HIDE DEF c
<1>4. bturn' = [at |-> "walk", n |-> BkNull, tn |-> BkNull, dir |-> "read",
                revents |-> << >>, array |-> c]
  BY <1>2 DEF NoTurn
<1>5. /\ bturn'.at = "walk" /\ bturn'.n = BkNull /\ bturn'.tn = BkNull /\ bturn'.dir = "read"
      /\ bturn'.revents = << >> /\ bturn'.array = c
  BY <1>4
<1>6. IsTurn(bturn')
  BY <1>3, <1>4, <1>5 DEF IsTurn, S
<1>7. PlistInv'
  BY <1>2 DEF PlistInv, BkListed
<1>8. ArrayInv'
  BY <1>2, <1>3, <1>5 DEF ArrayInv
<1> QED
  BY <1>6, <1>7, <1>8

LEMMA KernelSelectInv ==
  ASSUME BkInv, mowgli_kqueue_eventloop_select \/ mowgli_ports_eventloop_select
  PROVE  BkInv'
<1>0. ASSUME NEW p \in BkPollable, ~BkListed
      PROVE  Asked(p) \subseteq BkDir /\ (Asked(p) # {} => p \in Allocated(bpoll))
  BY <1>0 DEF Asked, Allocated, BkInv, KernelInv
<1>1. CASE mowgli_kqueue_eventloop_select
  <2>1. bkind = "kqueue" /\ ~BkListed /\ UNCHANGED bkernel
    BY <1>1 DEF mowgli_kqueue_eventloop_select, BkListed
  <2>2. PICK p, q \in BkPollable : \E r \in SUBSET Asked(p), s \in SUBSET Asked(q) :
               ArrayTurn(Entries(p, r) \o Entries(q, s))
    BY <1>1 DEF mowgli_kqueue_eventloop_select
  <2>3. PICK r \in SUBSET Asked(p), s \in SUBSET Asked(q) : ArrayTurn(Entries(p, r) \o Entries(q, s))
    BY <2>2
  <2>4. /\ r \in SUBSET BkDir /\ s \in SUBSET BkDir
        /\ r # {} => p \in Allocated(bpoll)
        /\ s # {} => q \in Allocated(bpoll)
    BY <1>0, <2>1
  <2>5. IsTurn(bturn') /\ PlistInv' /\ ArrayInv'
    BY <2>1, <2>3, <2>4, ArrayTurnInv
  <2>6. UNCHANGED <<bkind, bpoll, blist, bslots>>
    BY <2>3 DEF ArrayTurn
  <2>7. KernelInv'
    BY <2>1, <2>6 DEF BkInv, KernelInv, BkListed
  <2> QED
    BY <2>1, <2>5, <2>6, <2>7, TurnFrame
<1>2. CASE mowgli_ports_eventloop_select
  <2>1. bkind = "ports" /\ ~BkListed
    BY <1>2 DEF mowgli_ports_eventloop_select, BkListed
  <2>2. PICK p, q \in BkPollable : \E r \in BkReports(Asked(p)), s \in BkReports(Asked(q)) :
          /\ ArrayTurn(Entries(p, r) \o Entries(q, s))
          /\ bkernel' \subseteq bkernel
    BY <1>2 DEF mowgli_ports_eventloop_select
  <2>3. PICK r \in BkReports(Asked(p)), s \in BkReports(Asked(q)) :
          /\ ArrayTurn(Entries(p, r) \o Entries(q, s))
          /\ bkernel' \subseteq bkernel
    BY <2>2
  <2>4. /\ r \in SUBSET BkDir /\ s \in SUBSET BkDir
        /\ r # {} => p \in Allocated(bpoll)
        /\ s # {} => q \in Allocated(bpoll)
    <3>1. ASSUME NEW A \in SUBSET BkDir, NEW z \in BkReports(A)
          PROVE  z \in SUBSET BkDir /\ (z # {} => A # {})
      <4>1. CASE A = {}
        BY <3>1, <4>1 DEF BkReports
      <4>2. CASE A # {}
        <5>1. z \in (SUBSET A) \cup {BkDir}
          BY <3>1, <4>2 DEF BkReports
        <5>2. z \in SUBSET A \/ z = BkDir
          BY <5>1, Zenon
        <5> QED
          BY <4>2, <5>2
      <4> QED
        BY <4>1, <4>2
    <3>2. Asked(p) \in SUBSET BkDir /\ Asked(q) \in SUBSET BkDir
      BY <1>0, <2>1
    <3>3. r \in SUBSET BkDir /\ (r # {} => Asked(p) # {}) /\ s \in SUBSET BkDir /\ (s # {} => Asked(q) # {})
      BY <3>1, <3>2
    <3> QED
      BY <1>0, <2>1, <3>3
  <2>5. IsTurn(bturn') /\ PlistInv' /\ ArrayInv'
    BY <2>1, <2>3, <2>4, ArrayTurnInv
  <2>6. UNCHANGED <<bkind, bpoll, blist, bslots>>
    BY <2>3 DEF ArrayTurn
  <2>7. KernelInv'
    BY <2>1, <2>3, <2>6 DEF BkInv, KernelInv, BkListed
  <2> QED
    BY <2>1, <2>5, <2>6, <2>7, TurnFrame
<1> QED
  BY <1>1, <1>2

\* on to the next direction, or to the next node
LEMMA PlistNextInv ==
  ASSUME BkInv, BkListed, UNCHANGED <<bkind, bpoll, blist, bkernel, bslots>>, bturn' = PlistNext
  PROVE  BkInv'
<1> DEFINE t == bturn
           x == IF t.tn = BkNull THEN BkNull ELSE blist.next[t.tn]
<1>1. IsTurn(t)
  BY DEF BkInv, BkTypeOK
<1>2. PlistIs(blist, Selected(bpoll), Allocated(bpoll), t.n, t.tn) /\ Allocated(bpoll) \in SUBSET BkPollable
  BY DEF BkInv, PlistInv, Allocated
<1>3. PlistIs(blist, Selected(bpoll), Allocated(bpoll), t.tn, x)
  BY <1>2, PlistWalk
<1>4. \/ bturn' = [t EXCEPT !.at = "walk", !.dir = "write"]
      \/ bturn' = [t EXCEPT !.at = "walk", !.dir = "read", !.n = t.tn, !.tn = x]
  BY DEF PlistNext
<1>5. t = [at |-> t.at, n |-> t.n, tn |-> t.tn, dir |-> t.dir, revents |-> t.revents, array |-> t.array]
  BY <1>1 DEF IsTurn
<1>6. \E y, z, d : /\ bturn' = [at |-> "walk", n |-> y, tn |-> z, dir |-> d,
                                revents |-> t.revents, array |-> t.array]
                   /\ PlistIs(blist, Selected(bpoll), Allocated(bpoll), y, z)
  <2> HIDE DEF x, t
  <2>1. CASE bturn' = [t EXCEPT !.at = "walk", !.dir = "write"]
    <3>1. bturn' = [at |-> "walk", n |-> t.n, tn |-> t.tn, dir |-> "write",
                    revents |-> t.revents, array |-> t.array]
      BY ONLY <1>5, <2>1
    <3> QED
      BY <1>2, <3>1
  <2>2. CASE bturn' = [t EXCEPT !.at = "walk", !.dir = "read", !.n = t.tn, !.tn = x]
    <3>1. bturn' = [at |-> "walk", n |-> t.tn, tn |-> x, dir |-> "read",
                    revents |-> t.revents, array |-> t.array]
      BY ONLY <1>5, <2>2
    <3> QED
      BY <1>3, <3>1
  <2> QED
    BY <1>4, <2>1, <2>2
<1>7. PICK y, z, d : /\ bturn' = [at |-> "walk", n |-> y, tn |-> z, dir |-> d,
                                  revents |-> t.revents, array |-> t.array]
                     /\ PlistIs(blist, Selected(bpoll), Allocated(bpoll), y, z)
  BY <1>6
<1>8. /\ bturn'.at = "walk" /\ bturn'.n = y /\ bturn'.tn = z /\ bturn'.dir = d
      /\ bturn'.revents = t.revents /\ bturn'.array = t.array
  BY <1>7
<1>9. IsTurn(bturn')
  BY <1>1, <1>7, <1>8 DEF IsTurn
<1>10. PlistInv'
  BY <1>7, <1>8 DEF PlistInv
<1>11. ArrayInv'
  BY <1>8 DEF BkInv, ArrayInv, BkListed
<1>12. KernelInv' /\ bkind # "winsock"
  BY DEF KernelInv, BkListed
<1> QED
  BY <1>9, <1>10, <1>11, <1>12, TurnFrame

\* a function is about to be called
LEMMA CallInv ==
  ASSUME BkInv, UNCHANGED <<bkind, bpoll, blist, bkernel, bslots>>,
         bturn.at = "walk", ~BkListed => bturn.array # << >>,
         bturn' = [bturn EXCEPT !.at = "call"]
  PROVE  BkInv'
<1> DEFINE t == bturn
<1>1. IsTurn(t)
  BY DEF BkInv, BkTypeOK
<1>2. t = [at |-> t.at, n |-> t.n, tn |-> t.tn, dir |-> t.dir, revents |-> t.revents, array |-> t.array]
  BY <1>1 DEF IsTurn
<1>3. bturn' = [at |-> "call", n |-> t.n, tn |-> t.tn, dir |-> t.dir, revents |-> t.revents, array |-> t.array]
  <2>1. bturn' = [t EXCEPT !.at = "call"]
    OBVIOUS
  <2> HIDE DEF t
  <2> QED
    BY ONLY <1>2, <2>1
<1>4. /\ bturn'.at = "call" /\ bturn'.n = t.n /\ bturn'.tn = t.tn /\ bturn'.dir = t.dir
      /\ bturn'.revents = t.revents /\ bturn'.array = t.array
  BY <1>3
<1>5. IsTurn(bturn')
  BY <1>1, <1>3, <1>4 DEF IsTurn
<1>6. PlistInv'
  BY <1>4 DEF BkInv, PlistInv, BkListed
<1>7. ArrayInv'
  BY <1>4 DEF BkInv, ArrayInv, BkListed
<1>8. KernelInv' /\ bkind # "winsock"
  BY DEF BkInv, KernelInv, BkListed, SlotsInv
<1> QED
  BY <1>5, <1>6, <1>7, <1>8, TurnFrame

\* on to the next entry of the array
LEMMA ArrayNextInv ==
  ASSUME BkInv, ~BkListed, UNCHANGED <<bkind, bpoll, blist, bkernel, bslots>>,
         bturn.at \in {"walk", "call"}, bturn.array # << >>,
         bturn' = [bturn EXCEPT !.at = "walk", !.array = Tail(bturn.array)]
  PROVE  BkInv'
<1> DEFINE t == bturn
           a == bturn.array
           b == Tail(a)
<1>1. IsTurn(t)
  BY DEF BkInv, BkTypeOK
<1>2. t = [at |-> t.at, n |-> t.n, tn |-> t.tn, dir |-> t.dir, revents |-> t.revents, array |-> t.array]
  BY <1>1 DEF IsTurn
<1>3. a \in Seq(BkPollable \X BkDir) /\ a # << >> /\ \A i \in DOMAIN a : a[i][1] \in Allocated(bpoll)
  BY <1>1 DEF IsTurn, BkInv, ArrayInv
<1>4. b \in Seq(BkPollable \X BkDir) /\ \A i \in DOMAIN b : b[i][1] \in Allocated(bpoll)
  <2> HIDE DEF a
  <2>1. /\ b \in Seq(BkPollable \X BkDir) /\ DOMAIN b = 1 .. Len(a) - 1
        /\ \A i \in 1 .. Len(a) - 1 : b[i] = a[i + 1] /\ i + 1 \in DOMAIN a
    BY <1>3
  <2> HIDE DEF b
  <2> QED
    BY <1>3, <2>1
<1>5. bturn' = [at |-> "walk", n |-> t.n, tn |-> t.tn, dir |-> t.dir, revents |-> t.revents, array |-> b]
  <2>1. bturn' = [t EXCEPT !.at = "walk", !.array = b]
    OBVIOUS
  <2> HIDE DEF t, b
  <2> QED
    BY ONLY <1>2, <2>1
<1> HIDE DEF b
<1>6. /\ bturn'.at = "walk" /\ bturn'.n = t.n /\ bturn'.tn = t.tn /\ bturn'.dir = t.dir
      /\ bturn'.revents = t.revents /\ bturn'.array = b
  <2> HIDE DEF t
  <2> QED
    BY ONLY <1>5
<1>7. IsTurn(bturn')
  BY <1>4, <1>5, <1>6 DEF IsTurn
<1>8. PlistInv'
  BY DEF PlistInv, BkListed
<1>9. ArrayInv'
  BY <1>4, <1>6 DEF BkInv, ArrayInv, BkListed
<1>10. KernelInv' /\ bkind # "winsock"
  BY DEF BkInv, KernelInv, BkListed, SlotsInv
<1> QED
  BY <1>7, <1>8, <1>9, <1>10, TurnFrame

LEMMA WalkInv ==
  ASSUME BkInv, PlistStep \/ ArrayStep \/ CallReturns
  PROVE  BkInv'
<1>1. IsTurn(bturn)
  BY DEF BkInv, BkTypeOK
<1>2. CASE PlistStep
  <2>1. /\ bturn.at = "walk" /\ BkListed /\ UNCHANGED <<bkind, bpoll, blist, bkernel, bslots>>
        /\ bturn' = [bturn EXCEPT !.at = "call"] \/ bturn' = PlistNext
    BY <1>2 DEF PlistStep
  <2> QED
    BY <2>1, CallInv, PlistNextInv
<1>3. CASE ArrayStep
  <2>1. /\ bturn.at = "walk" /\ ~BkListed /\ bturn.array # << >>
        /\ UNCHANGED <<bkind, bpoll, blist, bkernel, bslots>>
        /\ \/ bturn' = [bturn EXCEPT !.at = "call"]
           \/ bturn' = [bturn EXCEPT !.array = Tail(bturn.array)]
    BY <1>3 DEF ArrayStep
  <2>2. CASE bturn' = [bturn EXCEPT !.at = "call"]
    BY <2>1, <2>2, CallInv
  <2>3. CASE bturn' = [bturn EXCEPT !.array = Tail(bturn.array)]
    <3>1. bturn' = [bturn EXCEPT !.at = "walk", !.array = Tail(bturn.array)]
      <4> DEFINE t == bturn
                 b == Tail(bturn.array)
      <4>1. /\ t = [at |-> t.at, n |-> t.n, tn |-> t.tn, dir |-> t.dir, revents |-> t.revents, array |-> t.array]
            /\ t.at = "walk"
        BY <1>1, <2>1 DEF IsTurn
      <4>2. bturn' = [t EXCEPT !.array = b]
        BY <2>3
      <4> HIDE DEF t, b
      <4>3. bturn' = [t EXCEPT !.at = "walk", !.array = b]
        BY ONLY <4>1, <4>2
      <4> QED
        BY <4>3 DEF t, b
    <3> QED
      BY <2>1, <3>1, ArrayNextInv
  <2> QED
    BY <2>1, <2>2, <2>3
<1>4. CASE CallReturns
  <2>1. /\ bturn.at = "call" /\ UNCHANGED <<bkind, bpoll, blist, bkernel, bslots>>
        /\ BkListed => bturn' = PlistNext
        /\ ~BkListed => bturn' = [bturn EXCEPT !.at = "walk", !.array = Tail(bturn.array)]
        /\ ~BkListed => bturn.array # << >>
    BY <1>4 DEF CallReturns, BkInv, ArrayInv
  <2> QED
    BY <2>1, PlistNextInv, ArrayNextInv
<1> QED
  BY <1>2, <1>3, <1>4

LEMMA ReapInv ==
  ASSUME BkInv, BkReap
  PROVE  BkInv'
<1>1. /\ bturn.at = "walk" /\ bturn' = NoTurn /\ UNCHANGED <<bkind, blist, bkernel, bslots>>
      /\ bpoll' = [p \in BkPollable |-> IF bpoll[p].state = "removed" THEN BkFreed ELSE bpoll[p]]
  BY DEF BkReap
<1>2. /\ NoTurn.at = "idle" /\ NoTurn.n = BkNull /\ NoTurn.tn = BkNull /\ NoTurn.array = << >>
      /\ IsTurn(NoTurn)
  BY EmptySeq DEF NoTurn, IsTurn
<1>3. IsPoll(BkFreed) /\ BkFreed.state = "freed"
  BY DEF IsPoll, BkFreed
<1>4. IsPolls(bpoll')
  BY <1>1, <1>3 DEF BkInv, BkTypeOK, IsPolls
<1>5. \A p \in BkPollable : /\ bpoll[p].state = "removed" => bpoll'[p] = BkFreed
                            /\ bpoll[p].state # "removed" => bpoll'[p] = bpoll[p]
  BY <1>1
<1>6. Selected(bpoll') = Selected(bpoll) /\ Selected(bpoll) \subseteq Allocated(bpoll')
      /\ Allocated(bpoll) \in SUBSET BkPollable /\ Allocated(bpoll') \in SUBSET BkPollable
  BY <1>3, <1>5 DEF Selected, Allocated
<1>7. BkTypeOK'
  BY <1>1, <1>2, <1>4 DEF BkInv, BkTypeOK
<1>8. FreedInv'
  BY <1>5 DEF BkInv, FreedInv
<1>9. PlistInv'
  <2>1. CASE BkListed
    <3>1. PlistIs(blist, Selected(bpoll), Allocated(bpoll), bturn.n, bturn.tn)
      BY <2>1 DEF BkInv, PlistInv
    <3>2. PlistIs(blist, Selected(bpoll), Allocated(bpoll'), BkNull, BkNull)
      BY <1>6, <3>1, PlistWalk
    <3> QED
      BY <1>1, <1>2, <1>6, <3>2 DEF PlistInv
  <2>2. CASE ~BkListed
    BY <1>1, <2>2 DEF PlistInv, BkListed
  <2> QED
    BY <2>1, <2>2
<1>10. ArrayInv'
  BY <1>1, <1>2 DEF ArrayInv
<1>11. KernelInv'
  BY <1>1, <1>3, <1>5 DEF BkInv, KernelInv, BkListed
<1>12. FlagsInv'
  BY <1>1, <1>3, <1>5 DEF BkInv, FlagsInv
<1>13. SlotsInv'
  BY <1>1 DEF BkInv, SlotsInv
<1> QED
  BY <1>7, <1>8, <1>9, <1>10, <1>11, <1>12, <1>13 DEF BkInv

-----------------------------------------------------------------------------
LEMMA InitInv ==
  ASSUME BkInit
  PROVE  BkInv
<1>1. /\ bkind \in BkKind /\ bpoll = [p \in BkPollable |-> BkFreed] /\ bkernel = {}
      /\ bslots = [used |-> [s \in 1 .. BkSlots |-> BkNull], last |-> 0] /\ bturn = NoTurn
      /\ blist = [head |-> BkNull, tail |-> BkNull,
                  next |-> [p \in BkPollable |-> BkNull], prev |-> [p \in BkPollable |-> BkNull]]
  BY DEF BkInit
<1>2. /\ NoTurn.at = "idle" /\ NoTurn.n = BkNull /\ NoTurn.tn = BkNull /\ NoTurn.array = << >>
      /\ IsTurn(NoTurn)
  BY EmptySeq DEF NoTurn, IsTurn
<1>3. /\ IsPoll(BkFreed) /\ BkFreed.state = "freed" /\ BkFreed.slot = 0
  BY DEF IsPoll, BkFreed
<1>4. /\ IsPolls(bpoll) /\ FreedInv /\ Selected(bpoll) = {} /\ Allocated(bpoll) = {}
  BY <1>1, <1>3 DEF IsPolls, FreedInv, Selected, Allocated
<1>5. /\ blist.head = BkNull /\ blist.tail = BkNull
      /\ blist.next = [p \in BkPollable |-> BkNull] /\ blist.prev = [p \in BkPollable |-> BkNull]
  BY <1>1
<1>6. ListType(blist)
  BY <1>1, <1>5 DEF ListType, BkPtr
<1>7. IsSlots(bslots) /\ \A s \in 1 .. BkSlots : bslots.used[s] = BkNull
  BY <1>1 DEF IsSlots, BkPtr
<1>8. PlistIs(blist, {}, {}, BkNull, BkNull)
  <2>1. << >> \in Seq(BkPollable) /\ Len(<< >>) = 0
    BY EmptySeq
  <2> DEFINE s == << >>
  <2>2. s \in Seq(BkPollable) /\ Len(s) = 0
    BY <2>1
  <2> HIDE DEF s
  <2>3. ListIs(blist, s) /\ Nodes(s) = {}
    BY <1>5, <2>2 DEF ListIs, Nodes
  <2> USE DEF PlistIs
  <2> WITNESS s, {}
  <2> QED
    BY <2>3
<1>9. PlistInv
  BY <1>1, <1>2, <1>4, <1>8 DEF PlistInv
<1>10. ArrayInv
  BY <1>1, <1>2 DEF ArrayInv
<1>11. KernelInv
  BY <1>1, <1>3 DEF KernelInv
<1>12. FlagsInv
  BY <1>1, <1>3 DEF FlagsInv
<1>13. SlotsInv
  BY <1>1, <1>2, <1>3, <1>7 DEF SlotsInv
<1>14. BkTypeOK
  BY <1>1, <1>2, <1>4, <1>6, <1>7 DEF BkTypeOK
<1> QED
  BY <1>4, <1>9, <1>10, <1>11, <1>12, <1>13, <1>14 DEF BkInv

LEMMA BkStepInv ==
  ASSUME BkInv, [BkNext]_bkVars
  PROVE  BkInv'
<1>1. ASSUME NEW p \in BkPollable, BkCreate(p) PROVE BkInv'
  BY <1>1, CreateInv
<1>2. ASSUME NEW p \in BkPollable, BkDestroy(p) PROVE BkInv'
  BY <1>2, DestroyInv
<1>3. ASSUME NEW p \in BkPollable, NEW dir \in BkDir, NEW set \in BOOLEAN, BkSetselect(p, dir, set)
      PROVE  BkInv'
  BY <1>3, SetselectInv
<1>4. CASE mowgli_poll_eventloop_select
  BY <1>4, PollSelectInv
<1>5. CASE mowgli_select_eventloop_select
  BY <1>5, SelectSelectInv
<1>6. CASE mowgli_kqueue_eventloop_select \/ mowgli_ports_eventloop_select
  BY <1>6, KernelSelectInv
<1>7. CASE PlistStep \/ ArrayStep \/ CallReturns
  BY <1>7, WalkInv
<1>8. CASE BkReap
  BY <1>8, ReapInv
<1>9. CASE UNCHANGED bkVars
  BY <1>9 DEF bkVars, BkInv, BkTypeOK, FreedInv, PlistInv, ArrayInv, KernelInv, FlagsInv, SlotsInv, BkListed
<1> QED
  BY <1>1, <1>2, <1>3, <1>4, <1>5, <1>6, <1>7, <1>8, <1>9 DEF BkNext

LEMMA BackendsInvariant == BkSpec => []BkInv
  BY InitInv, BkStepInv, PTL DEF BkSpec

(* Whatever client code creates, selects and destroys, between turns and   *)
(* inside the functions a walk calls, each backend waits for a pollable in *)
(* just the directions it has functions for (a port may wait for less) and *)
(* never for a destroyed one; the list of poll and select is a list        *)
(* without repetitions, and no Winsock slot is shared.                     *)
THEOREM BackendsWatchFunctions == BkSpec => []BackendWatches
<1>1. ASSUME BkInv PROVE BackendWatches
  <2> DEFINE l == Chain(blist, blist.head)
             func(p) == IF bpoll[p].state = "live" THEN bpoll[p].func ELSE {}
  <2>1. CASE BkListed
    <3>1. PICK s : ListIs(blist, s) /\ Nodes(s) = Selected(bpoll)
      BY <1>1, <2>1 DEF BkInv, PlistInv, PlistIs
    <3>2. l = s /\ DOMAIN s = 1 .. Len(s) /\ \A i, j \in 1 .. Len(s) : s[i] = s[j] => i = j
      <4>1. l = s
        BY <3>1, ChainIs
      <4> HIDE DEF l
      <4> QED
        BY <3>1, <4>1 DEF ListIs
    <3>3. ASSUME NEW p \in BkPollable PROVE Watched(p) = func(p)
      <4>1. Watched(p) = IF \E i \in DOMAIN l : l[i] = p THEN bpoll[p].func ELSE {}
        BY <2>1 DEF Watched
      <4> HIDE DEF l
      <4>2. (\E i \in DOMAIN l : l[i] = p) <=> p \in Selected(bpoll)
        BY <3>1, <3>2 DEF Nodes
      <4> QED
        BY <4>1, <4>2 DEF Selected
    <3>4. \A i, j \in DOMAIN l : l[i] = l[j] => i = j
      <4> HIDE DEF l
      <4> QED
        BY <3>2
    <3>5. bkind # "winsock" /\ bkind # "ports"
      BY <2>1 DEF BkListed
    <3> HIDE DEF l
    <3> QED
      BY <3>3, <3>4, <3>5 DEF BackendWatches, l
  <2>2. CASE ~BkListed
    <3>1. ASSUME NEW p \in BkPollable
          PROVE  IF bkind = "ports" THEN Watched(p) \subseteq func(p) ELSE Watched(p) = func(p)
      <4>1. Watched(p) = {d \in BkDir : <<p, d>> \in bkernel}
        BY <2>2 DEF Watched
      <4>2. bpoll[p].func \subseteq BkDir
        BY <1>1 DEF BkInv, BkTypeOK, IsPolls, IsPoll
      <4> QED
        BY <1>1, <2>2, <4>1, <4>2 DEF BkInv, KernelInv
    <3>2. bkind = "winsock" => \A p \in BkPollable : bpoll[p].slot # 0 => bslots.used[bpoll[p].slot] = p
      BY <1>1 DEF BkInv, SlotsInv
    <3> QED
      BY <2>2, <3>1, <3>2 DEF BackendWatches
  <2> QED
    BY <2>1, <2>2
<1> QED
  BY <1>1, BackendsInvariant, PTL

(* The walks of poll, select, kqueue and ports never hold a freed          *)
(* pollable: the next node they saved, a node that left the list under     *)
(* them, and every entry of the array stay allocated until the turn ends.  *)
THEOREM WalksAreSafe == BkSpec => []WalkHoldsPollables
<1>1. ASSUME BkInv PROVE WalkHoldsPollables
  <2>1. /\ bturn.n \in Allocated(bpoll) \cup {BkNull}
        /\ bturn.tn \in Allocated(bpoll) \cup {BkNull}
    <3>1. CASE BkListed
      <4>1. PlistIs(blist, Selected(bpoll), Allocated(bpoll), bturn.n, bturn.tn)
        BY <1>1, <3>1 DEF BkInv, PlistInv
      <4> QED
        BY <4>1 DEF PlistIs
    <3>2. CASE ~BkListed
      BY <1>1, <3>2 DEF BkInv, ArrayInv
    <3> QED
      BY <3>1, <3>2
  <2>2. \A i \in DOMAIN bturn.array : bturn.array[i][1] \in Allocated(bpoll)
    BY <1>1 DEF BkInv, ArrayInv
  <2> QED
    BY <2>1, <2>2 DEF WalkHoldsPollables, Allocated
<1> QED
  BY <1>1, BackendsInvariant, PTL

-----------------------------------------------------------------------------
(* Helper processes.                                                       *)

-----------------------------------------------------------------------------
(* The inductive invariant.                                                *)

HpProcess == HpHelper \cup {HpParent}

HpAlive == {"forked", "executed", "running"}

HpLive == {h \in HpHelper : hpState[h] = "live"}

\* what each process holds at its descriptors; the rest of the state that
\* decides what the next step does to them
HpTypeOK ==
  /\ hpState \in [HpHelper -> {"none", "live"}]
  /\ hpKind \in [HpHelper -> {"create", "spawn"}]
  /\ hpFd \in [HpHelper -> Int]
  /\ hpChild \in [HpHelper -> HpAlive \cup {"none", "dead"}]
  /\ hpConn \in [HpHelper -> Int]
  /\ hpEnv \in [HpProcess -> Int]
  /\ DOMAIN hpTable = HpProcess /\ hpTable = [p \in HpProcess |-> hpTable[p]]

\* the parent's table: standard input and output, and one end per helper
ParentInv ==
  /\ DOMAIN hpTable[HpParent] = 0 .. 2 \cup {hpFd[h] : h \in HpLive}
  /\ \A n \in 0 .. 2 : hpTable[HpParent][n] = HpStdio
  /\ \A h \in HpLive : hpFd[h] \notin 0 .. 2 /\ hpTable[HpParent][hpFd[h]] = <<h, "p">>

\* a helper's table: nothing once it is gone; else the end it talks over, or
\* will find through IO_FD
ChildInv(h) ==
  /\ hpState[h] = "none" => hpChild[h] = "none"
  /\ hpChild[h] \notin HpAlive => DOMAIN hpTable[h] = {}
  /\ hpChild[h] = "executed" => hpKind[h] = "spawn"
  /\ hpChild[h] = "running" \/ (hpChild[h] = "forked" /\ hpKind[h] = "create") =>
       hpConn[h] \in DOMAIN hpTable[h] /\ hpTable[h][hpConn[h]] = <<h, "c">>
  /\ hpChild[h] \in {"forked", "executed"} /\ hpKind[h] = "spawn" =>
       hpEnv[h] \in DOMAIN hpTable[h] /\ hpTable[h][hpEnv[h]] = <<h, "c">>
  /\ hpChild[h] = "forked" => hpConn[h] \notin 0 .. 2
  /\ hpChild[h] = "running" /\ hpKind[h] = "create" =>
       \A n \in DOMAIN hpTable[h] : hpTable[h][n] \in HpEnd => hpTable[h][n] = <<h, "c">>

\* the child's end is the child's alone
EndsInv ==
  \A h \in HpHelper, p \in HpProcess : \A n \in DOMAIN hpTable[p] :
    hpTable[p][n] = <<h, "c">> => p = h

HpInv ==
  /\ HpTypeOK
  /\ ParentInv
  /\ \A h \in HpHelper : ChildInv(h)
  /\ EndsInv

-----------------------------------------------------------------------------
(* Tables of descriptors.                                                  *)

(* The lowest free descriptor is free, and never 0, 1 or 2 in a table that *)
(* has those.                                                              *)
LEMMA LowestFree ==
  ASSUME NEW table, HpFd \ DOMAIN table # {}
  PROVE  HpLowestFree(table) \in HpFd \ DOMAIN table
<1> DEFINE F == HpFd \ DOMAIN table
<1>1. F \subseteq Nat /\ F # {}
  BY HpAssumption
<1> HIDE DEF F
<1>2. Min(F) \in F
  BY <1>1, NatMin
<1> QED
  BY <1>2 DEF F, HpLowestFree

LEMMA CloseTable ==
  ASSUME NEW table, NEW fds
  PROVE  /\ DOMAIN HpClose(table, fds) = DOMAIN table \ fds
         /\ \A n \in DOMAIN table \ fds : HpClose(table, fds)[n] = table[n]
BY DEF HpClose

(* No process but a helper's own can hold the child's end, so the parent   *)
(* holds none: what it copies into a new child is no other child's end.    *)
LEMMA ParentHoldsNoChildEnd ==
  ASSUME EndsInv, NEW n \in DOMAIN hpTable[HpParent], NEW h \in HpHelper
  PROVE  hpTable[HpParent][n] # <<h, "c">>
BY HpAssumption DEF EndsInv, HpProcess

-----------------------------------------------------------------------------
(* Each step preserves the invariant.                                      *)

(* A helper has started with its pair at descriptors fd0 and fd1.          *)
Started(h, kind, fd0, fd1) ==
  /\ fd0 # fd1
  /\ hpState' = [hpState EXCEPT ![h] = "live"]
  /\ hpKind' = [hpKind EXCEPT ![h] = kind]
  /\ hpFd' = [hpFd EXCEPT ![h] = fd0]
  /\ hpChild' = [hpChild EXCEPT ![h] = "forked"]
  /\ hpConn' = [hpConn EXCEPT ![h] = IF kind = "create" THEN fd1 ELSE -1]
  /\ hpEnv' \in [HpProcess -> Int]
  /\ kind = "spawn" => hpEnv'[h] = fd1
  /\ \A q \in HpHelper : q # h => hpEnv'[q] = hpEnv[q]
  /\ hpTable' = [p \in HpProcess |-> hpTable'[p]]
  /\ \A q \in HpHelper : q # h => hpTable'[q] = hpTable[q]
  /\ DOMAIN hpTable'[HpParent] = DOMAIN hpTable[HpParent] \cup {fd0}
  /\ hpTable'[HpParent][fd0] = <<h, "p">>
  /\ DOMAIN hpTable'[h] = DOMAIN hpTable[HpParent] \cup {fd0, fd1}
  /\ hpTable'[h][fd0] = <<h, "p">>
  /\ hpTable'[h][fd1] = <<h, "c">>
  /\ \A n \in DOMAIN hpTable[HpParent] :
       /\ hpTable'[HpParent][n] = hpTable[HpParent][n]
       /\ hpTable'[h][n] = hpTable[HpParent][n]

(* mowgli_helper_create and mowgli_helper_spawn: what the new tables hold. *)
LEMMA StartTables ==
  ASSUME HpInv, NEW h \in HpHelper, NEW kind \in {"create", "spawn"}, HpStart(h, kind)
  PROVE  \/ /\ \E env \in Int : hpEnv' = [hpEnv EXCEPT ![HpParent] = env]
            /\ UNCHANGED <<hpState, hpKind, hpFd, hpChild, hpConn, hpTable>>
         \/ \E fd0, fd1 \in Nat \ DOMAIN hpTable[HpParent] : Started(h, kind, fd0, fd1)
<1> DEFINE before == hpTable[HpParent]
           fd0    == HpLowestFree(before)
           middle == HpOpen(before, fd0, <<h, "p">>)
           fd1    == HpLowestFree(middle)
           during == HpOpen(middle, fd1, <<h, "c">>)
           after  == HpClose(during, {fd1})
           env    == IF kind = "spawn" THEN fd1 ELSE hpEnv[HpParent]
<1>1. PICK a, b \in HpFd \ DOMAIN before : a # b
  BY DEF HpStart
<1>2. fd0 \in HpFd \ DOMAIN before
  BY <1>1, LowestFree
<1>3. /\ DOMAIN middle = DOMAIN before \cup {fd0}
      /\ middle[fd0] = <<h, "p">>
      /\ \A n \in DOMAIN before : middle[n] = before[n]
  <2> HIDE DEF before, fd0
  <2>1. /\ DOMAIN middle = DOMAIN before \cup {fd0}
        /\ middle[fd0] = <<h, "p">>
        /\ \A n \in DOMAIN before : n # fd0 => middle[n] = before[n]
    BY DEF HpOpen
  <2> QED
    BY <1>2, <2>1
<1>4. fd1 \in HpFd \ DOMAIN middle
  <2>1. HpFd \ DOMAIN middle # {}
    BY <1>1, <1>3
  <2> QED
    BY <2>1, LowestFree
<1>5. /\ DOMAIN during = DOMAIN before \cup {fd0, fd1}
      /\ during[fd0] = <<h, "p">>
      /\ during[fd1] = <<h, "c">>
      /\ \A n \in DOMAIN before : during[n] = before[n]
  <2> HIDE DEF fd0, middle, fd1
  <2>1. /\ DOMAIN during = DOMAIN middle \cup {fd1}
        /\ during[fd1] = <<h, "c">>
        /\ \A n \in DOMAIN middle : n # fd1 => during[n] = middle[n]
    BY DEF HpOpen
  <2> QED
    BY <1>3, <1>4, <2>1
<1>6. /\ DOMAIN after = DOMAIN before \cup {fd0}
      /\ after[fd0] = <<h, "p">>
      /\ \A n \in DOMAIN before : after[n] = before[n]
  <2> HIDE DEF fd0, fd1, during
  <2>1. /\ DOMAIN after = DOMAIN during \ {fd1}
        /\ \A n \in DOMAIN during \ {fd1} : after[n] = during[n]
    BY CloseTable
  <2> QED
    BY <1>2, <1>3, <1>4, <1>5, <2>1
<1>7. fd0 \in Nat /\ fd1 \in Nat /\ fd0 # fd1 /\ fd0 \notin DOMAIN before /\ fd1 \notin DOMAIN before
  BY <1>2, <1>3, <1>4, HpAssumption
<1>8. env \in Int
  <2> HIDE DEF fd1
  <2> QED
    BY <1>7 DEF HpInv, HpTypeOK, HpProcess
<1>9. \/ /\ hpEnv' = [hpEnv EXCEPT ![HpParent] = env, ![h] = env]
         /\ hpTable' = [hpTable EXCEPT ![HpParent] = after, ![h] = during]
         /\ hpState' = [hpState EXCEPT ![h] = "live"]
         /\ hpKind' = [hpKind EXCEPT ![h] = kind]
         /\ hpFd' = [hpFd EXCEPT ![h] = fd0]
         /\ hpChild' = [hpChild EXCEPT ![h] = "forked"]
         /\ hpConn' = [hpConn EXCEPT ![h] = IF kind = "create" THEN fd1 ELSE -1]
      \/ /\ hpEnv' = [hpEnv EXCEPT ![HpParent] = env]
         /\ UNCHANGED <<hpState, hpKind, hpFd, hpChild, hpConn, hpTable>>
  BY Zenon DEF HpStart, HpForked
<1> HIDE DEF before, fd0, middle, fd1, during, after, env
<1>10. CASE /\ hpEnv' = [hpEnv EXCEPT ![HpParent] = env]
            /\ UNCHANGED <<hpState, hpKind, hpFd, hpChild, hpConn, hpTable>>
  BY <1>8, <1>10
<1>11. CASE /\ hpEnv' = [hpEnv EXCEPT ![HpParent] = env, ![h] = env]
            /\ hpTable' = [hpTable EXCEPT ![HpParent] = after, ![h] = during]
            /\ hpState' = [hpState EXCEPT ![h] = "live"]
            /\ hpKind' = [hpKind EXCEPT ![h] = kind]
            /\ hpFd' = [hpFd EXCEPT ![h] = fd0]
            /\ hpChild' = [hpChild EXCEPT ![h] = "forked"]
            /\ hpConn' = [hpConn EXCEPT ![h] = IF kind = "create" THEN fd1 ELSE -1]
  <2>1. HpParent # h /\ h \in HpProcess /\ HpParent \in HpProcess /\ HpHelper \subseteq HpProcess
    BY HpAssumption DEF HpProcess
  <2>2. /\ hpTable'[h] = during
        /\ hpTable'[HpParent] = after
        /\ hpTable' = [p \in HpProcess |-> hpTable'[p]]
        /\ \A q \in HpHelper : q # h => hpTable'[q] = hpTable[q]
    BY <1>11, <2>1, HpAssumption DEF HpInv, HpTypeOK
  <2>3. /\ hpEnv' \in [HpProcess -> Int]
        /\ kind = "spawn" => hpEnv'[h] = fd1
        /\ \A q \in HpHelper : q # h => hpEnv'[q] = hpEnv[q]
    BY <1>8, <1>11, <2>1, HpAssumption DEF HpInv, HpTypeOK, env
  <2> QED
    BY <1>5, <1>6, <1>7, <1>11, <2>2, <2>3, ZenonT(40) DEF before, Started
<1> QED
  BY <1>9, <1>10, <1>11

LEMMA StartInv ==
  ASSUME HpInv, NEW h \in HpHelper, NEW kind \in {"create", "spawn"}, HpStart(h, kind)
  PROVE  HpInv'
<1>1. CASE /\ \E env \in Int : hpEnv' = [hpEnv EXCEPT ![HpParent] = env]
           /\ UNCHANGED <<hpState, hpKind, hpFd, hpChild, hpConn, hpTable>>
  <2>1. hpEnv' \in [HpProcess -> Int] /\ \A g \in HpHelper : hpEnv'[g] = hpEnv[g]
    BY <1>1, HpAssumption DEF HpInv, HpTypeOK, HpProcess
  <2>2. HpTypeOK'
    BY <1>1, <2>1 DEF HpInv, HpTypeOK
  <2>3. ParentInv' /\ EndsInv'
    BY <1>1 DEF HpInv, ParentInv, EndsInv, HpLive
  <2>4. ASSUME NEW g \in HpHelper PROVE ChildInv(g)'
    BY <1>1, <2>1 DEF HpInv, ChildInv
  <2> QED
    BY <2>2, <2>3, <2>4 DEF HpInv
<1>2. ASSUME NEW fd0 \in Nat \ DOMAIN hpTable[HpParent],
             NEW fd1 \in Nat \ DOMAIN hpTable[HpParent],
             Started(h, kind, fd0, fd1)
      PROVE  HpInv'
  <2>1. HpTypeOK'
    BY <1>2 DEF Started, HpInv, HpTypeOK, HpAlive
  <2>2. /\ \A g \in HpHelper : g # h =>
             /\ hpState'[g] = hpState[g] /\ hpFd'[g] = hpFd[g] /\ hpKind'[g] = hpKind[g]
             /\ hpChild'[g] = hpChild[g] /\ hpConn'[g] = hpConn[g]
        /\ hpState'[h] = "live" /\ hpFd'[h] = fd0 /\ hpKind'[h] = kind
        /\ hpChild'[h] = "forked" /\ hpConn'[h] = IF kind = "create" THEN fd1 ELSE -1
    BY <1>2 DEF Started, HpInv, HpTypeOK
  <2>3. hpState[h] = "none"
    BY DEF HpStart
  <2>4. HpLive' = HpLive \cup {h} /\ h \notin HpLive
    BY <2>2, <2>3 DEF HpLive
  <2>5. 0 .. 2 \subseteq DOMAIN hpTable[HpParent]
    BY DEF HpInv, ParentInv
  <2>6. ParentInv'
    <3>1. {hpFd'[g] : g \in HpLive'} = {hpFd[g] : g \in HpLive} \cup {fd0}
      BY <2>2, <2>4 DEF HpLive
    <3>2. DOMAIN hpTable'[HpParent] = 0 .. 2 \cup {hpFd'[g] : g \in HpLive'}
      BY <1>2, <3>1 DEF Started, HpInv, ParentInv
    <3>3. \A n \in 0 .. 2 : hpTable'[HpParent][n] = HpStdio
      BY <1>2, <2>5 DEF Started, HpInv, ParentInv
    <3>4. ASSUME NEW g \in HpLive'
          PROVE  hpFd'[g] \notin 0 .. 2 /\ hpTable'[HpParent][hpFd'[g]] = <<g, "p">>
      <4>1. CASE g = h
        BY <1>2, <2>2, <2>5, <4>1 DEF Started
      <4>2. CASE g # h
        <5>1. g \in HpLive /\ hpFd'[g] = hpFd[g] /\ hpFd[g] \in DOMAIN hpTable[HpParent]
          BY <2>2, <2>4, <4>2 DEF HpInv, ParentInv, HpLive
        <5> QED
          BY <1>2, <5>1 DEF Started, HpInv, ParentInv
      <4> QED
        BY <4>1, <4>2
    <3> QED
      BY <3>2, <3>3, <3>4 DEF ParentInv
  <2>7. ASSUME NEW g \in HpHelper PROVE ChildInv(g)'
    <3>1. CASE g = h
      BY <1>2, <2>2, <2>5, <3>1 DEF Started, ChildInv, HpAlive
    <3>2. CASE g # h
      BY <1>2, <2>2, <3>2 DEF Started, HpInv, ChildInv
    <3> QED
      BY <3>1, <3>2
  <2>8. ASSUME NEW g \in HpHelper, NEW p \in HpProcess, NEW n \in DOMAIN hpTable'[p],
               hpTable'[p][n] = <<g, "c">>
        PROVE  p = g
    <3>1. CASE p = HpParent
      <4>1. n \in DOMAIN hpTable[HpParent]
        BY <1>2, <2>8, <3>1 DEF Started
      <4> QED
        BY <1>2, <2>8, <3>1, <4>1, ParentHoldsNoChildEnd DEF Started, HpInv
    <3>2. CASE p = h
      <4>1. CASE n \in DOMAIN hpTable[HpParent]
        BY <1>2, <2>8, <3>2, <4>1, ParentHoldsNoChildEnd DEF Started, HpInv
      <4>2. CASE n \in {fd0, fd1}
        BY <1>2, <2>8, <3>2, <4>2 DEF Started
      <4> QED
        BY <1>2, <2>8, <3>2, <4>1, <4>2 DEF Started
    <3>3. CASE p # HpParent /\ p # h
      BY <1>2, <2>8, <3>3 DEF Started, HpInv, EndsInv, HpProcess
    <3> QED
      BY <3>1, <3>2, <3>3
  <2> QED
    BY <2>1, <2>6, <2>7, <2>8, HpAssumption DEF HpInv, EndsInv, HpProcess
<1> QED
  BY <1>1, <1>2, StartTables

(* A step that changes what a single helper h holds, and leaves the        *)
(* parent's table and every structure alone.                               *)
LEMMA ChildStep ==
  ASSUME HpInv, NEW h \in HpHelper,
         UNCHANGED <<hpState, hpKind, hpFd, hpEnv>>,
         hpChild' \in [HpHelper -> HpAlive \cup {"none", "dead"}],
         hpConn' \in [HpHelper -> Int],
         \A g \in HpHelper : g # h => hpChild'[g] = hpChild[g] /\ hpConn'[g] = hpConn[g],
         hpTable' = [hpTable EXCEPT ![h] = hpTable'[h]],
         \A n \in DOMAIN hpTable'[h], g \in HpHelper : hpTable'[h][n] = <<g, "c">> => g = h,
         ChildInv(h)'
  PROVE  HpInv'
<1>1. h \in HpProcess /\ h # HpParent /\ HpParent \in HpProcess
  BY HpAssumption DEF HpProcess
<1>2. /\ hpTable' = [p \in HpProcess |-> hpTable'[p]]
      /\ \A q \in HpProcess : q # h => hpTable'[q] = hpTable[q]
  BY <1>1 DEF HpInv, HpTypeOK
<1>3. HpTypeOK'
  BY <1>2 DEF HpInv, HpTypeOK
<1>4. ParentInv'
  BY <1>1, <1>2 DEF HpInv, ParentInv, HpLive
<1>5. ASSUME NEW g \in HpHelper PROVE ChildInv(g)'
  <2>1. CASE g # h
    <3>1. hpTable'[g] = hpTable[g]
      BY <1>2, <2>1 DEF HpProcess
    <3> QED
      BY <2>1, <3>1 DEF HpInv, ChildInv
  <2> QED
    BY <2>1
<1>6. EndsInv'
  BY <1>2 DEF HpInv, EndsInv
<1> QED
  BY <1>3, <1>4, <1>5, <1>6 DEF HpInv

(* A step that leaves the tables and what decides over them alone.         *)
LEMMA HpFrame ==
  ASSUME HpInv, UNCHANGED <<hpState, hpKind, hpFd, hpChild, hpConn, hpTable, hpEnv>>
  PROVE  HpInv'
<1>1. ASSUME NEW g \in HpHelper PROVE ChildInv(g)'
  BY DEF HpInv, ChildInv
<1>2. HpTypeOK' /\ ParentInv' /\ EndsInv'
  <2>1. HpTypeOK'
    BY DEF HpInv, HpTypeOK
  <2>2. ParentInv' /\ EndsInv'
    BY DEF HpInv, ParentInv, EndsInv, HpLive
  <2> QED
    BY <2>1, <2>2
<1> QED
  BY <1>1, <1>2 DEF HpInv

LEMMA TrampolineInv ==
  ASSUME HpInv, NEW h \in HpHelper, mowgli_helper_trampoline(h)
  PROVE  HpInv'
<1> DEFINE own   == hpTable[h][hpConn[h]]
           null  == [n \in {0, 1} |-> HpNull]
           table == HpOpen(null, hpConn[h], own)
           final == HpOpen(table, HpLowestFree(table), HpLoop)
<1>1. /\ hpKind[h] = "create"
      /\ hpChild[h] = "forked"
      /\ hpTable' = [hpTable EXCEPT ![h] = final]
      /\ hpChild' = [hpChild EXCEPT ![h] = "running"]
      /\ UNCHANGED <<hpState, hpKind, hpFd, hpEnv, hpConn>>
  BY DEF mowgli_helper_trampoline
<1>2. /\ own = <<h, "c">>
      /\ hpConn[h] \in Int \ 0 .. 2
      /\ hpState[h] = "live"
  BY <1>1 DEF HpInv, HpTypeOK, ChildInv
<1>3. /\ DOMAIN table = {0, 1, hpConn[h]}
      /\ table[0] = HpNull /\ table[1] = HpNull /\ table[hpConn[h]] = <<h, "c">>
  <2> HIDE DEF own
  <2> QED
    BY <1>2 DEF HpOpen
<1> HIDE DEF table
<1>4. HpLowestFree(table) \notin DOMAIN table
  <2>1. HpFd \ DOMAIN table # {}
    <3>1. {2, 3} \subseteq HpFd
      BY HpAssumption
    <3> QED
      BY <1>2, <1>3, <3>1
  <2> QED
    BY <2>1, LowestFree
<1>5. /\ hpConn[h] \in DOMAIN final
      /\ final[hpConn[h]] = <<h, "c">>
      /\ \A n \in DOMAIN final : n # hpConn[h] => final[n] \in {HpNull, HpLoop}
  <2> DEFINE low == HpLowestFree(table)
  <2>1. low \notin DOMAIN table
    BY <1>4
  <2> HIDE DEF low
  <2>2. final = HpOpen(table, low, HpLoop)
    BY DEF low
  <2>3. /\ DOMAIN final = DOMAIN table \cup {low}
        /\ final[low] = HpLoop
        /\ \A n \in DOMAIN table : n # low => final[n] = table[n]
    BY <2>2 DEF HpOpen
  <2> HIDE DEF final
  <2> QED
    BY <1>3, <2>1, <2>3
<1> HIDE DEF final
<1>6. HpNull \notin HpEnd /\ HpLoop \notin HpEnd
  BY DEF HpNull, HpLoop, HpEnd
<1>7. /\ hpChild' \in [HpHelper -> HpAlive \cup {"none", "dead"}]
      /\ hpConn' \in [HpHelper -> Int]
      /\ hpChild'[h] = "running"
      /\ \A g \in HpHelper : g # h => hpChild'[g] = hpChild[g] /\ hpConn'[g] = hpConn[g]
  BY <1>1 DEF HpInv, HpTypeOK, HpAlive
<1>8. hpTable'[h] = final
  BY <1>1 DEF HpInv, HpTypeOK, HpProcess
<1>9. \A n \in DOMAIN final : final[n] \in HpEnd => final[n] = <<h, "c">>
  BY <1>5, <1>6
<1>10. ChildInv(h)'
  BY <1>1, <1>2, <1>5, <1>7, <1>8, <1>9 DEF ChildInv, HpAlive
<1>11. \A n \in DOMAIN final, g \in HpHelper : final[n] = <<g, "c">> => g = h
  BY <1>9 DEF HpEnd
<1>12. /\ hpTable' = [hpTable EXCEPT ![h] = hpTable'[h]]
       /\ \A n \in DOMAIN hpTable'[h], g \in HpHelper : hpTable'[h][n] = <<g, "c">> => g = h
  BY <1>1, <1>8, <1>11
<1> QED
  BY <1>1, <1>7, <1>10, <1>12, ChildStep

LEMMA SetupInv ==
  ASSUME HpInv, NEW h \in HpHelper,
         mowgli_process_cloned_execv(h) \/ mowgli_helper_setup(h)
  PROVE  HpInv'
<1>1. /\ UNCHANGED <<hpState, hpKind, hpFd, hpEnv, hpTable>>
      /\ \/ /\ hpKind[h] = "spawn" /\ hpChild[h] = "forked"
            /\ hpChild' = [hpChild EXCEPT ![h] = "executed"]
            /\ hpConn' = hpConn
         \/ /\ hpChild[h] = "executed"
            /\ hpConn' = [hpConn EXCEPT ![h] = hpEnv[h]]
            /\ hpChild' = [hpChild EXCEPT ![h] = "running"]
  BY DEF mowgli_process_cloned_execv, mowgli_helper_setup
<1>2. hpTable' = [hpTable EXCEPT ![h] = hpTable[h]]
  BY <1>1 DEF HpInv, HpTypeOK, HpProcess
<1>3. /\ hpChild' \in [HpHelper -> HpAlive \cup {"none", "dead"}]
      /\ hpConn' \in [HpHelper -> Int]
      /\ \A g \in HpHelper : g # h => hpChild'[g] = hpChild[g] /\ hpConn'[g] = hpConn[g]
  BY <1>1 DEF HpInv, HpTypeOK, HpAlive, HpProcess
<1>4. \A n \in DOMAIN hpTable[h], g \in HpHelper : hpTable[h][n] = <<g, "c">> => g = h
  BY DEF HpInv, EndsInv, HpProcess
<1>5. ChildInv(h)
  BY DEF HpInv
<1>6. /\ hpChild'[h] \in {"executed", "running"}
      /\ hpChild'[h] = "executed" => hpConn'[h] = hpConn[h] /\ hpChild[h] = "forked"
      /\ hpChild'[h] = "running" => hpConn'[h] = hpEnv[h] /\ hpChild[h] = "executed"
      /\ hpKind[h] = "spawn"
  BY <1>1, <1>5 DEF HpInv, HpTypeOK, ChildInv
<1>7. ChildInv(h)'
  BY <1>1, <1>5, <1>6 DEF ChildInv, HpAlive
<1>8. /\ hpTable' = [hpTable EXCEPT ![h] = hpTable'[h]]
      /\ \A n \in DOMAIN hpTable'[h], g \in HpHelper : hpTable'[h][n] = <<g, "c">> => g = h
  BY <1>1, <1>2, <1>4
<1> QED
  BY <1>1, <1>3, <1>7, <1>8, ChildStep

LEMMA ExitInv ==
  ASSUME HpInv, NEW h \in HpHelper, HpExit(h)
  PROVE  HpInv'
<1>1. /\ hpChild[h] \in HpAlive
      /\ hpChild' = [hpChild EXCEPT ![h] = "dead"]
      /\ hpTable' = [hpTable EXCEPT ![h] = << >>]
      /\ UNCHANGED <<hpState, hpKind, hpFd, hpEnv, hpConn>>
  BY DEF HpExit, HpAlive
<1>2. /\ hpChild' \in [HpHelper -> HpAlive \cup {"none", "dead"}]
      /\ hpConn' \in [HpHelper -> Int]
      /\ hpChild'[h] = "dead"
      /\ \A g \in HpHelper : g # h => hpChild'[g] = hpChild[g] /\ hpConn'[g] = hpConn[g]
  BY <1>1 DEF HpInv, HpTypeOK
<1>3. hpTable'[h] = << >> /\ DOMAIN << >> = {}
  BY <1>1 DEF HpInv, HpTypeOK, HpProcess
<1>4. hpState[h] # "none"
  BY <1>1 DEF HpInv, ChildInv, HpAlive
<1>5. ChildInv(h)'
  BY <1>1, <1>2, <1>3, <1>4 DEF ChildInv, HpAlive
<1>6. \A n \in DOMAIN << >>, g \in HpHelper : << >>[n] = <<g, "c">> => g = h
  BY <1>3
<1> QED
  BY <1>1, <1>2, <1>3, <1>5, <1>6, ChildStep

(* mowgli_helper_destroy: the descriptors of live helpers are all          *)
(* different, since each is at its helper's end, so closing one closes no  *)
(* other helper's.                                                         *)
LEMMA HpDestroyInv ==
  ASSUME HpInv, NEW h \in HpHelper, mowgli_helper_destroy(h)
  PROVE  HpInv'
<1> DEFINE T == hpTable[HpParent]
           new == HpClose(T, {hpFd[h]})
<1>1. h \in HpProcess /\ h # HpParent /\ HpParent \in HpProcess
  BY HpAssumption DEF HpProcess
<1>2. /\ hpTable' = [hpTable EXCEPT ![h] = << >>, ![HpParent] = new]
      /\ hpState' = [hpState EXCEPT ![h] = "none"]
      /\ hpKind' = [hpKind EXCEPT ![h] = "create"]
      /\ hpFd' = [hpFd EXCEPT ![h] = -1]
      /\ hpChild' = [hpChild EXCEPT ![h] = "none"]
      /\ hpConn' = [hpConn EXCEPT ![h] = -1]
      /\ hpEnv' = [hpEnv EXCEPT ![h] = -1]
      /\ hpState[h] = "live"
  BY <1>1 DEF mowgli_helper_destroy
<1>3. /\ DOMAIN new = DOMAIN T \ {hpFd[h]}
      /\ \A n \in DOMAIN T \ {hpFd[h]} : new[n] = T[n]
  <2> HIDE DEF T
  <2> QED
    BY DEF HpClose
<1> HIDE DEF new
<1>4. /\ hpTable' = [p \in HpProcess |-> hpTable'[p]]
      /\ DOMAIN hpTable' = HpProcess
      /\ DOMAIN hpTable'[h] = {}
      /\ hpTable'[HpParent] = new
      /\ \A q \in HpProcess : q # h /\ q # HpParent => hpTable'[q] = hpTable[q]
  <2> DEFINE none == << >>
  <2>1. DOMAIN none = {}
    OBVIOUS
  <2>2. hpTable' = [hpTable EXCEPT ![h] = none, ![HpParent] = new] /\ DOMAIN hpTable = HpProcess
    BY <1>2 DEF HpInv, HpTypeOK
  <2> HIDE DEF none
  <2>3. /\ DOMAIN hpTable' = HpProcess
        /\ hpTable' = [p \in HpProcess |-> hpTable'[p]]
        /\ hpTable'[h] = none
        /\ hpTable'[HpParent] = new
        /\ \A q \in HpProcess : q # h /\ q # HpParent => hpTable'[q] = hpTable[q]
    BY <1>1, <2>2
  <2> QED
    BY <2>1, <2>3
<1>5. HpTypeOK'
  <2>1. /\ hpState' \in [HpHelper -> {"none", "live"}]
        /\ hpKind' \in [HpHelper -> {"create", "spawn"}]
        /\ hpChild' \in [HpHelper -> HpAlive \cup {"none", "dead"}]
    BY <1>2 DEF HpInv, HpTypeOK
  <2>2. /\ hpFd' \in [HpHelper -> Int]
        /\ hpConn' \in [HpHelper -> Int]
        /\ hpEnv' \in [HpProcess -> Int]
    BY <1>1, <1>2 DEF HpInv, HpTypeOK
  <2> QED
    BY <1>4, <2>1, <2>2, Zenon DEF HpTypeOK
<1>6. /\ \A g \in HpHelper : g # h =>
           /\ hpState'[g] = hpState[g] /\ hpFd'[g] = hpFd[g] /\ hpKind'[g] = hpKind[g]
           /\ hpChild'[g] = hpChild[g] /\ hpConn'[g] = hpConn[g] /\ hpEnv'[g] = hpEnv[g]
      /\ hpState'[h] = "none" /\ hpChild'[h] = "none" /\ hpKind'[h] = "create"
  BY <1>1, <1>2 DEF HpInv, HpTypeOK, HpProcess
<1>7. HpLive' = HpLive \ {h} /\ h \in HpLive
  BY <1>2, <1>6 DEF HpLive
<1>8. \A g \in HpLive : g # h => hpFd[g] # hpFd[h]
  BY <1>7 DEF HpInv, ParentInv
<1>9. ParentInv'
  <2>1. {hpFd'[g] : g \in HpLive'} = {hpFd[g] : g \in HpLive} \ {hpFd[h]}
    BY <1>6, <1>7, <1>8 DEF HpLive
  <2>2. DOMAIN new = 0 .. 2 \cup {hpFd'[g] : g \in HpLive'}
    BY <1>3, <1>7, <2>1 DEF HpInv, ParentInv
  <2>3. \A n \in 0 .. 2 : new[n] = HpStdio
    BY <1>3, <1>7 DEF HpInv, ParentInv
  <2>4. ASSUME NEW g \in HpLive'
        PROVE  hpFd'[g] \notin 0 .. 2 /\ new[hpFd'[g]] = <<g, "p">>
    <3>1. g \in HpLive /\ g # h /\ hpFd'[g] = hpFd[g] /\ hpFd[g] \in DOMAIN T
      BY <1>6, <1>7 DEF HpInv, ParentInv, HpLive
    <3> QED
      BY <1>3, <1>8, <3>1 DEF HpInv, ParentInv
  <2> QED
    BY <1>4, <2>2, <2>3, <2>4 DEF ParentInv
<1>10. ASSUME NEW g \in HpHelper PROVE ChildInv(g)'
  <2>1. CASE g = h
    BY <1>4, <1>6, <2>1 DEF ChildInv, HpAlive
  <2>2. CASE g # h
    <3>1. hpTable'[g] = hpTable[g]
      BY <1>4, <2>2, HpAssumption DEF HpProcess
    <3> QED
      BY <1>6, <2>2, <3>1 DEF HpInv, ChildInv
  <2> QED
    BY <2>1, <2>2
<1>11. EndsInv'
  BY <1>1, <1>3, <1>4 DEF HpInv, EndsInv
<1> QED
  BY <1>5, <1>9, <1>10, <1>11 DEF HpInv

-----------------------------------------------------------------------------

LEMMA HpInitInv == HpInit => HpInv
<1> SUFFICES ASSUME HpInit PROVE HpInv
  OBVIOUS
<1>1. HpTypeOK
  BY DEF HpInit, HpTypeOK, HpProcess, HpAlive
<1>2. HpLive = {}
  BY DEF HpInit, HpLive
<1>3. hpTable[HpParent] = [n \in 0 .. 2 |-> HpStdio]
  BY DEF HpInit
<1>4. ASSUME NEW h \in HpHelper PROVE DOMAIN hpTable[h] = {}
  BY HpAssumption DEF HpInit
<1>5. ParentInv
  BY <1>2, <1>3 DEF ParentInv
<1>6. ASSUME NEW h \in HpHelper PROVE ChildInv(h)
  BY <1>4 DEF HpInit, ChildInv, HpAlive
<1>7. EndsInv
  BY <1>3, <1>4 DEF EndsInv, HpProcess, HpStdio
<1> QED
  BY <1>1, <1>5, <1>6, <1>7 DEF HpInv

LEMMA HpNextInv == HpInv /\ [HpNext]_hpVars => HpInv'
<1> SUFFICES ASSUME HpInv, [HpNext]_hpVars PROVE HpInv'
  OBVIOUS
<1>1. CASE UNCHANGED hpVars
  BY <1>1, HpFrame DEF hpVars
<1>2. ASSUME NEW h \in HpHelper,
             \/ HpWrite(h) \/ mowgli_helper_io_trampoline(h)
             \/ \E readFn \in BOOLEAN : mowgli_helper_set_read_cb(h, readFn)
      PROVE  HpInv'
  BY <1>2, HpFrame DEF HpWrite, mowgli_helper_io_trampoline, mowgli_helper_set_read_cb
<1> QED
  BY <1>1, <1>2, StartInv, TrampolineInv, SetupInv, ExitInv, HpDestroyInv DEF HpNext

(* A process holds its own end of its helper's socket pair and nobody      *)
(* else's: HelperEnds.                                                     *)
LEMMA HpInvEnds == HpInv => HelperEnds
<1> SUFFICES ASSUME HpInv PROVE HelperEnds
  OBVIOUS
<1>1. /\ DOMAIN hpTable[HpParent] \ 0 .. 2 = {hpFd[h] : h \in HpLive}
      /\ \A h \in HpLive : hpTable[HpParent][hpFd[h]] = <<h, "p">>
  BY DEF HpInv, ParentInv
<1>2. ASSUME NEW h \in HpHelper, hpChild[h] = "running"
      PROVE  /\ hpTable[h][hpConn[h]] = <<h, "c">>
             /\ hpKind[h] = "create" =>
                  HpEnd \cap HpHeld([p \in {h} |-> hpTable[h]]) = {<<h, "c">>}
  <2>1. hpConn[h] \in DOMAIN hpTable[h] /\ hpTable[h][hpConn[h]] = <<h, "c">>
    BY <1>2 DEF HpInv, ChildInv
  <2>2. ASSUME hpKind[h] = "create"
        PROVE  HpEnd \cap HpHeld([p \in {h} |-> hpTable[h]]) = {<<h, "c">>}
    <3>1. \A n \in DOMAIN hpTable[h] : hpTable[h][n] \in HpEnd => hpTable[h][n] = <<h, "c">>
      BY <1>2, <2>2 DEF HpInv, ChildInv
    <3>2. HpHeld([p \in {h} |-> hpTable[h]]) = {hpTable[h][n] : n \in DOMAIN hpTable[h]}
      BY DEF HpHeld
    <3>3. <<h, "c">> \in HpEnd
      BY DEF HpEnd
    <3> QED
      BY <2>1, <3>1, <3>2, <3>3
  <2> QED
    BY <2>1, <2>2
<1>3. \A h \in HpHelper, p \in DOMAIN hpTable :
        (\E n \in DOMAIN hpTable[p] : hpTable[p][n] = <<h, "c">>) => p = h
  BY DEF HpInv, HpTypeOK, EndsInv
<1> QED
  BY <1>1, <1>2, <1>3 DEF HelperEnds, HpLive

(* Whatever helpers are made, fail to start, exit and are destroyed, and   *)
(* however many there are: the parent's descriptors are those of the live  *)
(* helpers' ends, a running helper talks over its own end, and no process  *)
(* but the helper holds the child's end.                                   *)
THEOREM HelpersKeepTheirEnds == HpSpec => []HelperEnds
<1>1. HpSpec => []HpInv
  BY HpInitInv, HpNextInv, PTL DEF HpSpec
<1> QED
  BY <1>1, HpInvEnds, PTL
=============================================================================
