-------------------------- MODULE DictionaryProofs --------------------------
(***************************************************************************)
(* The dictionary is a search tree threaded with a list in key order, for  *)
(* every set of keys, both comparators and any number of calls.            *)
(*                                                                         *)
(* Tree and Chained say it of the pointers: there is an assignment of a    *)
(* subtree to each key, with the keys of one side below the child on that  *)
(* side; and the neighbour on a side is the nearest key there.  Every      *)
(* function of container/dictionary.c is shown to keep both, then the      *)
(* walks that the property and the calls take are read off them.           *)
(***************************************************************************)
EXTENDS Dictionary, ListProofs

-----------------------------------------------------------------------------
(* The order of keys, the same for both comparators and both sides.        *)

DOrder == {"up", "down"}

\* k is on side s of e
Lies(c, s, k, e) == IF (c = "up") <=> (s = "l") THEN k < e ELSE k > e

\* the two sides are each other's other side
LEMMA Sides ==
  /\ DSide = {"l", "r"} /\ "l" \in DSide /\ "r" \in DSide /\ "l" # "r"
  /\ DOther("l") = "r" /\ DOther("r") = "l"
  /\ \A s \in DSide : /\ DOther(s) \in DSide /\ DOther(s) # s /\ DOther(DOther(s)) = s
                      /\ \A t \in DSide : t = s \/ t = DOther(s)
BY DEF DSide, DOther

\* a total order, that the other side turns round
Ordered(c) ==
  \A s \in DSide :
    /\ \A k \in DictKey : ~Lies(c, s, k, k)
    /\ \A k, e \in DictKey : Lies(c, s, k, e) <=> Lies(c, DOther(s), e, k)
    /\ \A k, e \in DictKey : k # e => Lies(c, s, k, e) \/ Lies(c, DOther(s), k, e)
    /\ \A k, e \in DictKey : ~(Lies(c, s, k, e) /\ Lies(c, DOther(s), k, e))
    /\ \A k, e, f \in DictKey : Lies(c, s, k, e) /\ Lies(c, s, e, f) => Lies(c, s, k, f)

\* both comparators of the callers order the keys
LEMMA Order ==
  ASSUME NEW c \in DOrder, DictKeyAssumption
  PROVE  Ordered(c)
<1>1. \A k \in DictKey : k \in Nat
  BY DEF DictKeyAssumption
<1> SUFFICES ASSUME NEW s \in DSide
             PROVE  /\ \A k \in DictKey : ~Lies(c, s, k, k)
                    /\ \A k, e \in DictKey : Lies(c, s, k, e) <=> Lies(c, DOther(s), e, k)
                    /\ \A k, e \in DictKey : k # e => Lies(c, s, k, e) \/ Lies(c, DOther(s), k, e)
                    /\ \A k, e \in DictKey : ~(Lies(c, s, k, e) /\ Lies(c, DOther(s), k, e))
                    /\ \A k, e, f \in DictKey : Lies(c, s, k, e) /\ Lies(c, s, e, f) => Lies(c, s, k, f)
  BY DEF Ordered
<1>2. DOther(s) = "l" <=> s # "l"
  BY DEF DOther, DSide
<1>3. \/ /\ \A k, e : Lies(c, s, k, e) <=> k < e
         /\ \A k, e : Lies(c, DOther(s), k, e) <=> k > e
      \/ /\ \A k, e : Lies(c, s, k, e) <=> k > e
         /\ \A k, e : Lies(c, DOther(s), k, e) <=> k < e
  BY <1>2, Zenon DEF Lies
<1> QED
  BY <1>1, <1>3

\* what the code asks of the comparator
LEMMA SideLies ==
  ASSUME NEW d, d.cmp \in DOrder, DictKeyAssumption, NEW k \in DictKey, NEW e \in DictKey
  PROVE  /\ DSideOf(d, k, e) \in DSide
         /\ k # e => \A s \in DSide : DSideOf(d, k, e) = s <=> Lies(d.cmp, s, k, e)
         /\ DBefore(d, k, e) <=> Lies(d.cmp, "l", k, e)
<1>1. k \in Nat /\ e \in Nat
  BY DEF DictKeyAssumption
<1>2. DSideOf(d, k, e) \in DSide
  BY DEF DSideOf, DSide
<1>3. DBefore(d, k, e) <=> Lies(d.cmp, "l", k, e)
  BY DEF DBefore, Lies, DOrder
<1>4. ASSUME k # e, NEW s \in DSide PROVE DSideOf(d, k, e) = s <=> Lies(d.cmp, s, k, e)
  <2>1. s = "l" \/ s = "r"
    BY DEF DSide
  <2>2. Lies(d.cmp, "r", k, e) <=> ~Lies(d.cmp, "l", k, e)
    BY <1>1, <1>4 DEF Lies, DOrder
  <2> QED
    BY <1>3, <2>1, <2>2 DEF DSideOf
<1> QED
  BY <1>2, <1>3, <1>4

-----------------------------------------------------------------------------
(* Search trees.                                                           *)

Part(c, X, s, e) == {k \in X : Lies(c, s, k, e)}

\* r is the top of the tree with the keys X; S gives what is below each key
Rooted(S, X, r) == IF X = {} THEN r = DNull ELSE r \in X /\ S[r] = X

Subtrees(c, ch, S, K) ==
  /\ S \in [K -> SUBSET K]
  /\ \A e \in K : /\ e \in S[e] /\ \A f \in S[e] : S[f] \subseteq S[e]
                  /\ \A s \in DSide : Rooted(S, Part(c, S[e], s, e), ch[s][e])

Tree(c, ch, r, K) == \E S : Subtrees(c, ch, S, K) /\ Rooted(S, K, r)

\* ch and ch2 agree on the keys X
Alike(ch, ch2, X) == \A s \in DSide : \A e \in X : ch[s][e] = ch2[s][e]

\* a tree depends only on the child pointers of its own keys
LEMMA TreeAlike ==
  ASSUME NEW c, NEW ch, NEW r, NEW K, Tree(c, ch, r, K), NEW ch2, Alike(ch, ch2, K)
  PROVE  Tree(c, ch2, r, K)
BY DEF Tree, Subtrees, Alike

\* the top of a tree is NULL exactly when the tree is empty
LEMMA TreeRoot ==
  ASSUME NEW c, NEW ch, NEW r, NEW K, Tree(c, ch, r, K), DictKeyAssumption, K \subseteq DictKey
  PROVE  (r = DNull <=> K = {}) /\ (K # {} => r \in K)
<1>1. DNull \notin K
  BY DEF DictKeyAssumption, DNull
<1> QED
  BY <1>1 DEF Tree, Rooted

\* no keys are a tree without a top
LEMMA TreeEmpty ==
  ASSUME NEW c, NEW ch
  PROVE  Tree(c, ch, DNull, {})
<1> DEFINE E == {}
           S == [x \in E |-> E]
<1>1. Subtrees(c, ch, S, E) /\ Rooted(S, E, DNull)
  BY DEF Subtrees, Rooted
<1> HIDE DEF S
<1> QED
  BY <1>1 DEF Tree

\* the subtrees at the root
LEMMA TreeSplit ==
  ASSUME NEW c, NEW ch, NEW r, NEW K, Tree(c, ch, r, K), K # {}, NEW s \in DSide
  PROVE  r \in K /\ Tree(c, ch, ch[s][r], Part(c, K, s, r))
<1>1. PICK S : Subtrees(c, ch, S, K) /\ Rooted(S, K, r)
  BY DEF Tree
<1>2. r \in K /\ S[r] = K /\ S \in [K -> SUBSET K]
  BY <1>1 DEF Rooted, Subtrees
<1> DEFINE X == Part(c, K, s, r)
           q == ch[s][r]
           T == [x \in X |-> S[x]]
<1>3. X \subseteq K /\ Rooted(S, X, q)
  BY <1>1, <1>2 DEF Subtrees, Part
<1> HIDE DEF X
<1>4. CASE X = {}
  <2>1. q = DNull
    BY <1>3, <1>4 DEF Rooted
  <2> QED
    BY <1>2, <1>4, <2>1, TreeEmpty DEF X
<1>5. CASE X # {}
  <2>1. q \in X /\ S[q] = X
    BY <1>3, <1>5 DEF Rooted
  <2>2. \A e \in X : S[e] \subseteq X
    BY <1>1, <1>3, <2>1 DEF Subtrees
  <2>3. T \in [X -> SUBSET X] /\ \A x \in X : T[x] = S[x]
    BY <2>2
  <2> HIDE DEF T
  <2>4. ASSUME NEW e \in X
        PROVE  /\ e \in T[e] /\ \A f \in T[e] : T[f] \subseteq T[e]
               /\ \A t \in DSide : Rooted(T, Part(c, T[e], t, e), ch[t][e])
    <3>1. e \in T[e] /\ \A f \in T[e] : T[f] \subseteq T[e]
      BY <1>1, <1>3, <2>2, <2>3 DEF Subtrees
    <3>2. ASSUME NEW t \in DSide PROVE Rooted(T, Part(c, T[e], t, e), ch[t][e])
      <4>1. Rooted(S, Part(c, T[e], t, e), ch[t][e])
        BY <1>1, <1>3, <2>3 DEF Subtrees
      <4>2. Part(c, T[e], t, e) \subseteq X
        BY <2>2, <2>3 DEF Part
      <4> QED
        BY <4>1, <4>2, <2>3 DEF Rooted
    <3> QED
      BY <3>1, <3>2
  <2>5. Subtrees(c, ch, T, X) /\ Rooted(T, X, q)
    BY <2>1, <2>3, <2>4 DEF Subtrees, Rooted
  <2> QED
    BY <1>2, <2>5 DEF Tree, X
<1> QED
  BY <1>4, <1>5

\* two trees and the key between them
LEMMA TreeJoin ==
  ASSUME NEW c, Ordered(c), NEW ch, NEW n \in DictKey, NEW s \in DSide,
         NEW A \in SUBSET DictKey, NEW B \in SUBSET DictKey,
         Tree(c, ch, ch[s][n], A), Tree(c, ch, ch[DOther(s)][n], B),
         \A x \in A : Lies(c, s, x, n), \A x \in B : Lies(c, DOther(s), x, n)
  PROVE  Tree(c, ch, n, A \cup B \cup {n})
<1>1. PICK SA : Subtrees(c, ch, SA, A) /\ Rooted(SA, A, ch[s][n])
  BY DEF Tree
<1>2. PICK SB : Subtrees(c, ch, SB, B) /\ Rooted(SB, B, ch[DOther(s)][n])
  BY DEF Tree
<1> DEFINE o == DOther(s)
           K == A \cup B \cup {n}
           S == [x \in K |-> IF x = n THEN K ELSE IF x \in A THEN SA[x] ELSE SB[x]]
<1>3. n \notin A /\ n \notin B /\ \A x \in B : x \notin A
  BY Sides DEF Ordered
<1>4. SA \in [A -> SUBSET A] /\ SB \in [B -> SUBSET B]
  BY <1>1, <1>2 DEF Subtrees
<1>5. /\ S \in [K -> SUBSET K] /\ S[n] = K
      /\ \A x \in A : S[x] = SA[x] /\ S[x] \subseteq A
      /\ \A x \in B : S[x] = SB[x] /\ S[x] \subseteq B
  BY <1>3, <1>4
<1> HIDE DEF S
<1>6. \A X, q : X \subseteq A /\ Rooted(SA, X, q) => Rooted(S, X, q)
  BY <1>5 DEF Rooted
<1>7. \A X, q : X \subseteq B /\ Rooted(SB, X, q) => Rooted(S, X, q)
  BY <1>5 DEF Rooted
<1>8. ASSUME NEW e \in K
      PROVE  /\ e \in S[e] /\ \A f \in S[e] : S[f] \subseteq S[e]
             /\ \A t \in DSide : Rooted(S, Part(c, S[e], t, e), ch[t][e])
  <2>1. CASE e = n
    <3>1. n \in K /\ \A f \in K : S[f] \subseteq K
      BY <1>5
    <3>2. Part(c, K, s, n) = A
      BY Sides DEF Part, Ordered
    <3>3. Part(c, K, o, n) = B
      BY Sides DEF Part, Ordered
    <3>4. Rooted(S, A, ch[s][n]) /\ Rooted(S, B, ch[o][n])
      BY <1>1, <1>2, <1>6, <1>7
    <3> HIDE DEF K
    <3>5. \A t \in DSide : Rooted(S, Part(c, K, t, n), ch[t][n])
      BY <3>2, <3>3, <3>4, Sides
    <3> QED
      BY <1>5, <2>1, <3>1, <3>5
  <2>2. CASE e \in A
    <3>1. e \in S[e] /\ \A f \in S[e] : S[f] \subseteq S[e]
      BY <1>1, <1>5, <2>2 DEF Subtrees
    <3>2. \A t \in DSide : Rooted(SA, Part(c, S[e], t, e), ch[t][e]) /\ Part(c, S[e], t, e) \subseteq A
      BY <1>1, <1>5, <2>2 DEF Subtrees, Part
    <3> QED
      BY <1>6, <3>1, <3>2
  <2>3. CASE e \in B
    <3>1. e \in S[e] /\ \A f \in S[e] : S[f] \subseteq S[e]
      BY <1>2, <1>5, <2>3 DEF Subtrees
    <3>2. \A t \in DSide : Rooted(SB, Part(c, S[e], t, e), ch[t][e]) /\ Part(c, S[e], t, e) \subseteq B
      BY <1>2, <1>5, <2>3 DEF Subtrees, Part
    <3> QED
      BY <1>7, <3>1, <3>2
  <2> QED
    BY <2>1, <2>2, <2>3
<1>9. Rooted(S, K, n)
  BY <1>5 DEF Rooted
<1> HIDE DEF K
<1>10. Subtrees(c, ch, S, K)
  BY <1>5, <1>8 DEF Subtrees
<1> QED
  BY <1>9, <1>10 DEF Tree, K

\* m is the last key of X towards side s
Extreme(c, X, s, m) == m \in X /\ \A x \in X : x = m \/ Lies(c, DOther(s), x, m)

Attached(ch, ch2, K, s, m, q) ==
  \A t \in DSide : \A e \in K : ch2[t][e] = IF t = s /\ e = m THEN q ELSE ch[t][e]

\* a tree hung on the last key of another
LEMMA TreeAttach ==
  ASSUME NEW c, Ordered(c), NEW ch, NEW ch2, NEW r, NEW q, NEW s \in DSide,
         NEW O \in SUBSET DictKey, NEW Y \in SUBSET DictKey, NEW m, Extreme(c, O, s, m),
         Tree(c, ch, r, O), Tree(c, ch, q, Y),
         \A y \in Y : \A x \in O : Lies(c, s, y, x), Attached(ch, ch2, O \cup Y, s, m, q)
  PROVE  Tree(c, ch2, r, O \cup Y)
<1>1. PICK SO : Subtrees(c, ch, SO, O) /\ Rooted(SO, O, r)
  BY DEF Tree
<1>2. PICK SY : Subtrees(c, ch, SY, Y) /\ Rooted(SY, Y, q)
  BY DEF Tree
<1> DEFINE K == O \cup Y
           S == [x \in K |-> IF x \in Y THEN SY[x] ELSE IF m \in SO[x] THEN SO[x] \cup Y ELSE SO[x]]
<1>3. \A x \in Y : x \notin O
  BY DEF Ordered
<1>4. SO \in [O -> SUBSET O] /\ SY \in [Y -> SUBSET Y] /\ m \in O
  BY <1>1, <1>2 DEF Subtrees, Extreme
<1>5. /\ S \in [K -> SUBSET K]
      /\ \A x \in Y : S[x] = SY[x] /\ S[x] \subseteq Y
      /\ \A x \in O : S[x] = IF m \in SO[x] THEN SO[x] \cup Y ELSE SO[x]
  BY <1>3, <1>4
<1> HIDE DEF S
<1>6. ASSUME NEW e \in Y
      PROVE  /\ e \in S[e] /\ \A f \in S[e] : S[f] \subseteq S[e]
             /\ \A t \in DSide : Rooted(S, Part(c, S[e], t, e), ch2[t][e])
  <2>1. e \in S[e] /\ \A f \in S[e] : S[f] \subseteq S[e]
    BY <1>2, <1>5 DEF Subtrees
  <2>2. ASSUME NEW t \in DSide PROVE Rooted(S, Part(c, S[e], t, e), ch2[t][e])
    <3>1. ch2[t][e] = ch[t][e]
      BY <1>3, <1>4 DEF Attached
    <3>2. Rooted(SY, Part(c, S[e], t, e), ch[t][e]) /\ Part(c, S[e], t, e) \subseteq Y
      BY <1>2, <1>5 DEF Subtrees, Part
    <3> QED
      BY <1>5, <3>1, <3>2 DEF Rooted
  <2> QED
    BY <2>1, <2>2
<1>7. ASSUME NEW e \in O
      PROVE  /\ e \in S[e] /\ \A f \in S[e] : S[f] \subseteq S[e]
             /\ \A t \in DSide : Rooted(S, Part(c, S[e], t, e), ch2[t][e])
  <2>0. e \in SO[e] /\ SO[e] \subseteq O /\ \A f \in SO[e] : SO[f] \subseteq SO[e]
    BY <1>1, <1>4 DEF Subtrees
  <2>1. e \in S[e] /\ \A f \in S[e] : S[f] \subseteq S[e]
    BY <1>5, <2>0
  <2>2. ASSUME NEW t \in DSide PROVE Rooted(S, Part(c, S[e], t, e), ch2[t][e])
    <3> DEFINE P == Part(c, SO[e], t, e)
    <3>1. Rooted(SO, P, ch[t][e]) /\ P \subseteq O
      BY <1>1, <1>4, <2>0 DEF Subtrees, Part
    <3>2. \A y \in Y : Lies(c, t, y, e) <=> t = s
      BY Sides DEF Ordered
    <3>3. CASE e = m /\ t = s
      <4>1. P = {}
        BY <2>0, <3>3, Sides DEF Part, Extreme, Ordered
      <4>2. Part(c, S[e], t, e) = Y
        BY <1>5, <2>0, <3>2, <3>3, <4>1 DEF Part
      <4>3. ch2[t][e] = q
        BY <3>3 DEF Attached
      <4> QED
        BY <1>2, <1>5, <4>2, <4>3 DEF Rooted
    <3>4. CASE ~(e = m /\ t = s)
      <4>1. ch2[t][e] = ch[t][e]
        BY <3>4 DEF Attached
      <4>2. CASE m \in P
        <5>1. m \in SO[e] /\ t = s
          BY <1>4, <2>0, <3>4, <4>2, Sides DEF Part, Extreme, Ordered
        <5>2. Part(c, S[e], t, e) = P \cup Y
          BY <1>5, <3>2, <5>1 DEF Part
        <5>3. ch[t][e] \in P /\ SO[ch[t][e]] = P
          BY <3>1, <4>2 DEF Rooted
        <5>4. S[ch[t][e]] = P \cup Y
          BY <1>5, <3>1, <4>2, <5>3
        <5> HIDE DEF P
        <5> QED
          BY <4>1, <5>2, <5>3, <5>4 DEF Rooted
      <4>3. CASE m \notin P
        <5>1. m \in SO[e] => t # s
          BY <1>4, <2>0, <3>4, <4>3, Sides DEF Part, Extreme, Ordered
        <5>2. Part(c, S[e], t, e) = P
          BY <1>5, <3>2, <5>1 DEF Part
        <5>3. P # {} => ch[t][e] \in P /\ SO[ch[t][e]] = P
          BY <3>1 DEF Rooted
        <5>4. P # {} => S[ch[t][e]] = P
          BY <1>5, <3>1, <4>3, <5>3
        <5> HIDE DEF P
        <5> QED
          BY <3>1, <4>1, <5>2, <5>3, <5>4 DEF Rooted
      <4> QED
        BY <4>2, <4>3
    <3> QED
      BY <3>3, <3>4
  <2> QED
    BY <2>1, <2>2
<1>8. Rooted(S, K, r)
  <2>1. r \in O /\ SO[r] = O
    BY <1>1, <1>4 DEF Rooted
  <2> QED
    BY <1>4, <1>5, <2>1 DEF Rooted
<1> HIDE DEF K
<1>9. Subtrees(c, ch2, S, K)
  BY <1>5, <1>6, <1>7 DEF Subtrees, K
<1> QED
  BY <1>8, <1>9 DEF Tree, K

\* the child m on side s of n takes its place
Rotated(ch, ch2, n, m, s, K) ==
  \A t \in DSide : \A e \in K :
    ch2[t][e] = IF t = s /\ e = n THEN ch[DOther(s)][m]
                ELSE IF t = DOther(s) /\ e = m THEN n ELSE ch[t][e]

\* the root and its child on side s change places
LEMMA TreeRotate ==
  ASSUME NEW c, Ordered(c), DictKeyAssumption, NEW ch, NEW ch2, NEW n, NEW m,
         NEW K \in SUBSET DictKey, K # {}, NEW s \in DSide,
         Tree(c, ch, n, K), m = ch[s][n], m # DNull, Rotated(ch, ch2, n, m, s, K)
  PROVE  m \in K /\ Tree(c, ch2, m, K)
<1> DEFINE o == DOther(s)
           X == Part(c, K, s, n)
           A == Part(c, K, o, n)
           P == Part(c, X, o, m)
           Q == Part(c, X, s, m)
<1>1. o \in DSide /\ o # s /\ DOther(o) = s
  BY Sides
<1>2. n \in K /\ Tree(c, ch, m, X) /\ Tree(c, ch, ch[o][n], A)
  BY <1>1, TreeSplit
<1>3. X \subseteq K /\ A \subseteq K /\ X \subseteq DictKey
  BY DEF Part
<1>4. X # {} /\ m \in X
  BY <1>2, <1>3, TreeRoot
<1>5. Tree(c, ch, ch[o][m], P) /\ Tree(c, ch, ch[s][m], Q)
  BY <1>1, <1>2, <1>4, TreeSplit
<1>6. /\ P \subseteq X /\ Q \subseteq X /\ n \in DictKey /\ m \in DictKey
      /\ Lies(c, s, m, n) /\ Lies(c, o, n, m)
      /\ n \notin P /\ n \notin Q /\ n \notin A /\ m \notin P /\ m \notin Q /\ m \notin A /\ m # n
  BY <1>1, <1>2, <1>3, <1>4 DEF Part, Ordered
<1>7. Alike(ch, ch2, P) /\ Alike(ch, ch2, Q) /\ Alike(ch, ch2, A)
  BY <1>3, <1>6 DEF Alike, Rotated
<1>8. /\ ch2[s][n] = ch[o][m] /\ ch2[o][n] = ch[o][n]
      /\ ch2[s][m] = ch[s][m] /\ ch2[o][m] = n
  BY <1>1, <1>2, <1>3, <1>4, <1>6 DEF Rotated
<1> DEFINE B == P \cup A \cup {n}
<1>9. Tree(c, ch2, n, B)
  <2>1. Tree(c, ch2, ch2[s][n], P) /\ Tree(c, ch2, ch2[o][n], A)
    BY <1>2, <1>5, <1>7, <1>8, TreeAlike
  <2>2. /\ \A x \in P : Lies(c, s, x, n)
        /\ \A x \in A : Lies(c, DOther(s), x, n)
        /\ P \in SUBSET DictKey /\ A \in SUBSET DictKey
    BY <1>3, <1>6 DEF Part
  <2> HIDE DEF P, A
  <2> QED
    BY <1>6, <2>1, <2>2, TreeJoin
<1>10. Tree(c, ch2, m, Q \cup B \cup {m})
  <2>1. Tree(c, ch2, ch2[s][m], Q) /\ Tree(c, ch2, ch2[o][m], B)
    BY <1>5, <1>7, <1>8, <1>9, TreeAlike
  <2>2. /\ \A x \in Q : Lies(c, s, x, m)
        /\ \A x \in B : Lies(c, DOther(s), x, m)
    BY <1>1, <1>3, <1>6 DEF Part, Ordered
  <2>3. Q \in SUBSET DictKey /\ B \in SUBSET DictKey
    BY <1>3, <1>6
  <2> HIDE DEF Q, B
  <2> QED
    BY <1>6, <2>1, <2>2, <2>3, TreeJoin
<1>11. Q \cup B \cup {m} = K
  <2>1. \A x \in K : x = n \/ x \in A \/ x \in X
    BY <1>1, <1>2 DEF Part, Ordered
  <2>2. \A x \in X : x = m \/ x \in P \/ x \in Q
    BY <1>1, <1>3, <1>4 DEF Part, Ordered
  <2> QED
    BY <1>2, <1>3, <1>4, <1>6, <2>1, <2>2
<1> QED
  BY <1>3, <1>4, <1>10, <1>11

-----------------------------------------------------------------------------
(* The loop of retune.                                                     *)

DPointer == DictKey \cup {DNull}
DPlace == DictKey \cup {DTmp}
DChildren == [DSide -> [DPlace -> DPointer]]

\* NULL and the element on retune's stack are no keys
LEMMA Apart ==
  DictKeyAssumption => DNull \notin DictKey /\ DTmp \notin DictKey
BY DEF DictKeyAssumption, DNull, DTmp

\* v is stored in the child of e on side s
Stored(ch, ch2, s, e, v) ==
  \A t \in DSide : \A x \in DPlace : ch2[t][x] = IF t = s /\ x = e THEN v ELSE ch[t][x]

\* one child pointer is stored
LEMMA PutChild ==
  ASSUME NEW ch \in DChildren, NEW s \in DSide, NEW e \in DPlace, NEW v \in DPointer,
         NEW ch2, ch2 = [ch EXCEPT ![s][e] = v]
  PROVE  ch2 \in DChildren /\ Stored(ch, ch2, s, e, v)
BY DEF DChildren, Stored

\* without what hangs from e on side s
Cut(ch, s, e) ==
  [t \in DSide |-> [x \in DPlace |-> IF t = s /\ x = e THEN DNull ELSE ch[t][x]]]

\* the keys X, passed on side s: a tree that hangs from the element on the
\* stack, to whose last key m what is left of the tree will be joined
Hanging(c, ch, m, s, X) ==
  IF X = {} THEN m = DTmp
  ELSE Extreme(c, X, s, m) /\ Tree(c, Cut(ch, s, m), ch[s][DTmp], X)

\* M are the keys below t.node, O[s] those passed on side s
Retuning(c, key, K, t, M, O) ==
  /\ M \in SUBSET K /\ M # {} /\ O \in [DSide -> SUBSET K]
  /\ K = M \cup O["l"] \cup O["r"]
  /\ Tree(c, t.child, t.node, M)
  /\ \A s \in DSide :
       /\ Hanging(c, t.child, t.end[s], s, O[s])
       /\ \A x \in O[s] : Lies(c, DOther(s), x, key) /\ \A y \in M : Lies(c, DOther(s), x, y)
  /\ t.over => \/ t.node = key
               \/ \E s \in DSide : Lies(c, s, key, t.node) /\ Part(c, M, s, t.node) = {}

RState == [child : DChildren, node : DictKey, end : [DSide -> DPlace], over : BOOLEAN]

\* what is passed on one side is not passed on the other, nor below the node
Separate(K, t, M, O) ==
  /\ t.node \in M /\ M \in SUBSET DictKey
  /\ \A s \in DSide :
       /\ \A x \in O[s] : x \notin M /\ x \notin O[DOther(s)]
       /\ O[s] \in SUBSET DictKey
       /\ t.end[s] \in O[s] \cup {DTmp}
       /\ K = M \cup O[s] \cup O[DOther(s)]

\* the subtrees retune has passed share no keys, nor with the one it is at
LEMMA RetuningApart ==
  ASSUME NEW c, Ordered(c), DictKeyAssumption, NEW key \in DictKey, NEW K \in SUBSET DictKey,
         NEW t, NEW M, NEW O, Retuning(c, key, K, t, M, O)
  PROVE  Separate(K, t, M, O)
<1>0. M \subseteq K
  BY DEF Retuning
<1>1. t.node \in M
  BY <1>0, TreeRoot DEF Retuning
<1>2. ASSUME NEW s \in DSide
      PROVE  /\ \A x \in O[s] : x \notin M /\ x \notin O[DOther(s)]
             /\ O[s] \in SUBSET DictKey
             /\ t.end[s] \in O[s] \cup {DTmp}
             /\ K = M \cup O[s] \cup O[DOther(s)]
  <2> DEFINE o == DOther(s)
  <2>1. o \in DSide /\ DOther(o) = s /\ o # s
    BY Sides
  <2>2. O[s] \subseteq K /\ O[o] \subseteq K
    BY <2>1 DEF Retuning
  <2>3. \A x \in O[s] : Lies(c, o, x, key) /\ \A y \in M : Lies(c, o, x, y)
    BY DEF Retuning
  <2>4. \A x \in O[o] : Lies(c, s, x, key)
    BY <2>1 DEF Retuning
  <2>5. \A x \in O[s] : x \notin M /\ x \notin O[o]
    BY <1>0, <2>1, <2>2, <2>3, <2>4 DEF Ordered
  <2>6. t.end[s] \in O[s] \cup {DTmp}
    BY DEF Retuning, Hanging, Extreme
  <2>7. K = M \cup O[s] \cup O[o]
    BY Sides DEF Retuning
  <2> QED
    BY <2>2, <2>5, <2>6, <2>7
<1> QED
  BY <1>0, <1>1, <1>2 DEF Separate

\* what hangs below an element depends only on the pointers of its keys
LEMMA HangingAlike ==
  ASSUME NEW c, NEW ch, NEW ch2, NEW m, NEW s \in DSide, NEW X \in SUBSET DictKey, Hanging(c, ch, m, s, X),
         Alike(ch, ch2, X), ch2[s][DTmp] = ch[s][DTmp]
  PROVE  Hanging(c, ch2, m, s, X)
<1>1. CASE X = {}
  BY <1>1 DEF Hanging
<1>2. CASE X # {}
  <2>1. Alike(Cut(ch, s, m), Cut(ch2, s, m), X)
    BY DEF Alike, Cut, DPlace
  <2> QED
    BY <1>2, <2>1, TreeAlike DEF Hanging
<1> QED
  BY <1>1, <1>2

\* t2 is t after the child on side s of the node is rotated up
RotatedUp(t, t2, s) ==
  LET m == t.child[s][t.node]
  IN  /\ t2.end = t.end /\ t2.over = FALSE /\ t2.node = m
      /\ t2.child = [t.child EXCEPT ![s][t.node] = t.child[DOther(s)][m], ![DOther(s)][m] = t.node]

\* the rotation of retune keeps what a turn of its loop keeps
LEMMA RotateStep ==
  ASSUME NEW c, Ordered(c), DictKeyAssumption, NEW key \in DictKey, NEW K \in SUBSET DictKey,
         NEW t \in RState, NEW M, NEW O, Retuning(c, key, K, t, M, O),
         NEW s \in DSide, t.child[s][t.node] # DNull, NEW t2, RotatedUp(t, t2, s)
  PROVE  Retuning(c, key, K, t2, M, O) /\ t2.node \in M /\ t2.child \in DChildren
<1> PICK m : m = t.child[s][t.node]
  OBVIOUS
<1>a. /\ t2.end = t.end /\ t2.over = FALSE /\ t2.node = m /\ m # DNull
      /\ t2.child = [t.child EXCEPT ![s][t.node] = t.child[DOther(s)][m], ![DOther(s)][m] = t.node]
  BY DEF RotatedUp
<1> DEFINE o == DOther(s)
           n == t.node
           ch == t.child
           ch1 == [ch EXCEPT ![s][n] = ch[o][m]]
           ch2 == [ch1 EXCEPT ![o][m] = n]
<1>0. /\ Ordered(c) /\ DictKeyAssumption /\ key \in DictKey /\ K \in SUBSET DictKey
      /\ Retuning(c, key, K, t, M, O)
  OBVIOUS
<1>1. o \in DSide /\ o # s /\ DOther(o) = s
  BY Sides
<1>2. ch \in DChildren /\ n \in DictKey /\ n \in DPlace /\ n \in DPointer /\ m \in DPlace /\ m \in DictKey
  <2>1. t.node \in DPlace
    BY DEF RState, DPlace
  <2>2. m \in DPointer
    BY <2>1 DEF RState, DChildren
  <2> QED
    BY <1>a, <2>2 DEF RState, DPlace, DPointer
<1>3. ch[o][m] \in DPointer
  BY <1>1, <1>2 DEF DChildren
<1>4. t2.child = ch2
  BY <1>a
<1> HIDE DEF n, ch
<1>5. /\ ch1 \in DChildren
      /\ \A u \in DSide : \A x \in DPlace : ch1[u][x] = IF u = s /\ x = n THEN ch[o][m] ELSE ch[u][x]
  <2>1. /\ ch \in DChildren /\ s \in DSide /\ n \in DPlace /\ ch[o][m] \in DPointer
        /\ ch1 = [ch EXCEPT ![s][n] = ch[o][m]]
    BY <1>2, <1>3
  <2> HIDE DEF ch1
  <2>2. ch1 \in DChildren /\ Stored(ch, ch1, s, n, ch[o][m])
    BY ONLY <2>1, PutChild
  <2> QED
    BY <2>2 DEF Stored
<1> HIDE DEF ch1
<1>6. /\ ch2 \in DChildren
      /\ \A u \in DSide : \A x \in DPlace : ch2[u][x] = IF u = o /\ x = m THEN n ELSE ch1[u][x]
  <2>1. /\ ch1 \in DChildren /\ o \in DSide /\ m \in DPlace /\ n \in DPointer
        /\ ch2 = [ch1 EXCEPT ![o][m] = n]
    BY <1>1, <1>2, <1>5
  <2> HIDE DEF ch2
  <2>2. ch2 \in DChildren /\ Stored(ch1, ch2, o, m, n)
    BY ONLY <2>1, PutChild
  <2> QED
    BY <2>2 DEF Stored
<1> HIDE DEF ch2
<1>7. \A u \in DSide : \A x \in DPlace :
        ch2[u][x] = IF u = s /\ x = n THEN ch[o][m] ELSE IF u = o /\ x = m THEN n ELSE ch[u][x]
  BY <1>1, <1>5, <1>6
<1>8. /\ M \in SUBSET DictKey /\ M # {} /\ Tree(c, ch, n, M) /\ m = ch[s][n]
      /\ \A u \in DSide : O[u] \subseteq DictKey
  BY DEF Retuning, ch, n
<1>9. m \in M /\ Tree(c, ch2, m, M)
  <2>1. Rotated(ch, ch2, n, m, s, M)
    BY <1>7, <1>8 DEF DPlace, Rotated
  <2>2. /\ Ordered(c) /\ DictKeyAssumption /\ s \in DSide /\ M \in SUBSET DictKey /\ M # {}
        /\ Tree(c, ch, n, M) /\ m = ch[s][n] /\ m # DNull
    BY <1>a, <1>8
  <2> QED
    BY ONLY <2>1, <2>2, TreeRotate
<1>10. n \in M
  <2>1. Separate(K, t, M, O)
    BY ONLY <1>0, RetuningApart
  <2> QED
    BY <2>1 DEF n, Separate
<1>11. ASSUME NEW u \in DSide PROVE Hanging(c, ch2, t.end[u], u, O[u])
  <2>1. Hanging(c, ch, t.end[u], u, O[u]) /\ n \notin O[u] /\ m \notin O[u]
    <3>1. Hanging(c, ch, t.end[u], u, O[u])
      BY DEF Retuning, ch
    <3>2. Separate(K, t, M, O)
      BY ONLY <1>0, RetuningApart
    <3>3. \A x \in O[u] : x \notin M
      BY <3>2 DEF Separate
    <3> QED
      BY <1>9, <1>10, <3>1, <3>3
  <2>2. Alike(ch, ch2, O[u]) /\ ch2[u][DTmp] = ch[u][DTmp]
    BY <1>2, <1>7, <1>8, <2>1, Apart DEF Alike, DPlace
  <2> QED
    BY <1>8, <2>1, <2>2, HangingAlike
<1>12. /\ M \in SUBSET K /\ M # {} /\ O \in [DSide -> SUBSET K]
       /\ K = M \cup O["l"] \cup O["r"]
       /\ \A u \in DSide : \A x \in O[u] : Lies(c, DOther(u), x, key) /\ \A y \in M : Lies(c, DOther(u), x, y)
  BY DEF Retuning
<1>13. Tree(c, t2.child, t2.node, M) /\ ~t2.over
  BY <1>a, <1>4, <1>9
<1>14. \A u \in DSide : Hanging(c, t2.child, t2.end[u], u, O[u])
  BY <1>a, <1>4, <1>11
<1> QED
  BY <1>a, <1>4, <1>6, <1>9, <1>12, <1>13, <1>14 DEF Retuning

\* the root n of M, with what is beyond it on the other side, hung below e
LEMMA HangMore ==
  ASSUME NEW c, Ordered(c), DictKeyAssumption, NEW ch, NEW ch2, NEW n, NEW e \in DPlace,
         NEW s \in DSide, NEW X \in SUBSET DictKey, NEW M \in SUBSET DictKey, M # {},
         Tree(c, ch, n, M), Hanging(c, ch, e, s, X),
         \A x \in X : \A y \in M : Lies(c, DOther(s), x, y),
         Stored(ch, ch2, s, e, n)
  PROVE  Hanging(c, ch2, n, s, X \cup (Part(c, M, DOther(s), n) \cup {n}))
<1> DEFINE o == DOther(s)
           Z == Part(c, M, o, n)
           B == Z \cup {n}
           cut == Cut(ch, s, n)
           E == {}
<1>1. o \in DSide /\ o # s /\ DOther(o) = s
  BY Sides
<1>2. n \in M /\ Tree(c, ch, ch[o][n], Z)
  BY <1>1, TreeSplit
<1>3. /\ Z \subseteq M /\ B \subseteq M /\ n \in DictKey /\ n \in DPlace /\ n \notin Z
      /\ \A x \in Z : Lies(c, o, x, n) /\ x \in DPlace
      /\ Z \in SUBSET DictKey /\ E \in SUBSET DictKey /\ B \in SUBSET DictKey
  BY <1>1, <1>2 DEF Part, Ordered, DPlace
<1>4. \A t \in DSide : \A x \in DPlace : cut[t][x] = IF t = s /\ x = n THEN DNull ELSE ch[t][x]
  BY DEF Cut
<1> HIDE DEF cut, Z, E
<1>5. Tree(c, cut, n, B)
  <2>1. Tree(c, cut, cut[o][n], Z)
    <3>1. Alike(ch, cut, Z) /\ cut[o][n] = ch[o][n]
      BY <1>1, <1>3, <1>4 DEF Alike
    <3> QED
      BY <1>2, <3>1, TreeAlike
  <2>2. Tree(c, cut, cut[s][n], E)
    <3>1. cut[s][n] = DNull
      BY <1>3, <1>4
    <3> QED
      BY <3>1, TreeEmpty DEF E
  <2>3. /\ Ordered(c) /\ n \in DictKey /\ s \in DSide /\ E \in SUBSET DictKey /\ Z \in SUBSET DictKey
        /\ Tree(c, cut, cut[s][n], E) /\ Tree(c, cut, cut[DOther(s)][n], Z)
        /\ \A x \in E : Lies(c, s, x, n)
        /\ \A x \in Z : Lies(c, DOther(s), x, n)
    BY <1>3, <2>1, <2>2 DEF E
  <2>4. Tree(c, cut, n, E \cup Z \cup {n})
    BY ONLY <2>3, TreeJoin
  <2> QED
    BY <2>4 DEF E
<1>6. Extreme(c, X \cup B, s, n)
  BY <1>2, <1>3 DEF Extreme
<1> DEFINE cut2 == Cut(ch2, s, n)
<1>8. \A t \in DSide : \A x \in DPlace :
        cut2[t][x] = IF t = s /\ x = n THEN DNull
                     ELSE IF t = s /\ x = e THEN n ELSE ch[t][x]
  BY DEF Cut, Stored
<1> HIDE DEF cut2
<1>9. \A x \in X : x \notin B
  BY <1>1, <1>3 DEF Ordered
<1>10. Tree(c, cut2, ch2[s][DTmp], X \cup B)
  <2>1. CASE X = {}
    <3>1. e = DTmp /\ DTmp \in DPlace
      BY <2>1 DEF Hanging, DPlace
    <3>2. ch2[s][DTmp] = n
      BY <3>1 DEF Stored
    <3>3. Alike(cut, cut2, B)
      <4>1. B \subseteq DPlace /\ DTmp \notin B
        BY <1>3, Apart DEF DPlace
      <4> HIDE DEF B
      <4> QED
        BY <1>4, <1>8, <3>1, <4>1 DEF Alike
    <3> QED
      BY <1>5, <2>1, <3>2, <3>3, TreeAlike
  <2>2. CASE X # {}
    <3> DEFINE both == [t \in DSide |-> [x \in DPlace |->
                         IF t = s /\ (x = n \/ x = e) THEN DNull ELSE ch[t][x]]]
               cute == Cut(ch, s, e)
               q == ch[s][DTmp]
    <3>1. Extreme(c, X, s, e) /\ Tree(c, cute, q, X) /\ e \in X
      BY <2>2 DEF Hanging, Extreme
    <3>2. e \in DictKey /\ e # DTmp /\ DTmp \in DPlace
      BY <3>1, Apart DEF DPlace
    <3>3. ch2[s][DTmp] = q
      BY <3>2 DEF Stored
    <3>4. \A t \in DSide : \A x \in DPlace :
            /\ both[t][x] = IF t = s /\ (x = n \/ x = e) THEN DNull ELSE ch[t][x]
            /\ cute[t][x] = IF t = s /\ x = e THEN DNull ELSE ch[t][x]
      BY DEF Cut
    <3> HIDE DEF both, cute, q
    <3>5. X \subseteq DPlace /\ B \subseteq DPlace
      BY <1>3 DEF DPlace
    <3> HIDE DEF B
    <3>6. Alike(cute, both, X) /\ Alike(cut, both, B)
      <4>1. n \in B
        BY DEF B
      <4>2. (\A x \in X : x # n /\ x \in DPlace) /\ (\A x \in B : x # e /\ x \in DPlace)
        BY <1>9, <3>1, <3>5, <4>1
      <4> QED
        BY <1>4, <3>4, <4>2 DEF Alike
    <3>7. Tree(c, both, q, X) /\ Tree(c, both, n, B)
      BY <1>5, <3>1, <3>6, TreeAlike
    <3>8. \A y \in B : \A x \in X : Lies(c, s, y, x)
      BY <1>1, <1>3 DEF Ordered
    <3>9. Attached(both, cut2, X \cup B, s, e, n)
      <4>1. n \in B
        BY DEF B
      <4> QED
        BY <1>8, <1>9, <3>1, <3>4, <3>5, <4>1 DEF Attached
    <3>10. /\ Ordered(c) /\ s \in DSide /\ X \in SUBSET DictKey /\ B \in SUBSET DictKey
           /\ Extreme(c, X, s, e) /\ Tree(c, both, q, X) /\ Tree(c, both, n, B)
           /\ \A y \in B : \A x \in X : Lies(c, s, y, x)
      BY <1>3, <3>1, <3>7, <3>8 DEF B
    <3>11. Tree(c, cut2, q, X \cup B)
      BY ONLY <3>9, <3>10, TreeAttach
    <3> QED
      BY <3>3, <3>11
  <2> QED
    BY <2>1, <2>2
<1> QED
  BY <1>6, <1>10 DEF Hanging, cut2, Z

\* t2 is t after the node is passed on side s
Advanced(t, t2, s) ==
  /\ t2.over = FALSE /\ t2.node = t.child[s][t.node]
  /\ t2.child = [t.child EXCEPT ![s][t.end[s]] = t.node]
  /\ t2.end = [t.end EXCEPT ![s] = t.node]

\* the keys below the node of t2 are of M, without n
Left(c, key, K, t2, M, n) == \E M2, O2 : Retuning(c, key, K, t2, M2, O2) /\ M2 \subseteq M \ {n}

\* the node goes to the keys passed on side s, and its child takes its place
LEMMA AdvanceStep ==
  ASSUME NEW c, Ordered(c), DictKeyAssumption, NEW key \in DictKey, NEW K \in SUBSET DictKey,
         NEW t \in RState, NEW M, NEW O, Retuning(c, key, K, t, M, O),
         NEW s \in DSide, Lies(c, s, key, t.node), t.child[s][t.node] # DNull,
         NEW t2, Advanced(t, t2, s)
  PROVE  /\ t2.child \in DChildren /\ t2.end \in [DSide -> DPlace] /\ t2.node \in DictKey
         /\ Left(c, key, K, t2, M, t.node)
<1> PICK q : q = t.child[s][t.node]
  OBVIOUS
<1>a. /\ t2.over = FALSE /\ t2.node = q /\ q # DNull
      /\ t2.child = [t.child EXCEPT ![s][t.end[s]] = t.node]
      /\ t2.end = [t.end EXCEPT ![s] = t.node]
  BY DEF Advanced
<1> DEFINE o == DOther(s)
           n == t.node
           ch == t.child
           e == t.end[s]
           M2 == Part(c, M, s, n)
           B == Part(c, M, o, n) \cup {n}
           O2 == [O EXCEPT ![s] = O[s] \cup B]
<1>1. o \in DSide /\ o # s /\ DOther(o) = s
  BY Sides
<1>2. Separate(K, t, M, O)
  BY RetuningApart
<1>3. /\ M \in SUBSET DictKey /\ M \subseteq K /\ M # {} /\ n \in M /\ Tree(c, ch, n, M)
      /\ \A u \in DSide : O[u] \subseteq DictKey /\ O[u] \subseteq K
      /\ O \in [DSide -> SUBSET K]
      /\ K = M \cup O[s] \cup O[o]
      /\ \A x \in O[s] : x \notin M /\ x \notin O[o]
      /\ \A x \in O[o] : x \notin M /\ x \notin O[s]
      /\ e \in O[s] \cup {DTmp}
  BY <1>1, <1>2 DEF Retuning, Separate
<1>4. ch \in DChildren /\ e \in DPlace /\ n \in DictKey /\ n \in DPointer /\ n \in DPlace /\ t.end \in [DSide -> DPlace]
  BY DEF RState, DPointer, DPlace
<1>5. /\ \A u \in DSide : Hanging(c, ch, t.end[u], u, O[u])
      /\ \A u \in DSide : \A x \in O[u] : Lies(c, DOther(u), x, key) /\ \A y \in M : Lies(c, DOther(u), x, y)
  BY DEF Retuning
<1>6. PICK ch2 : ch2 = t2.child
  OBVIOUS
<1>7. ch2 = [ch EXCEPT ![s][e] = n] /\ Lies(c, s, key, n) /\ q = ch[s][n]
  BY <1>a, <1>6
<1> HIDE DEF ch, n, e
<1>8. ch2 \in DChildren /\ Stored(ch, ch2, s, e, n)
  <2>1. /\ ch \in DChildren /\ s \in DSide /\ e \in DPlace /\ n \in DPointer
        /\ ch2 = [ch EXCEPT ![s][e] = n]
    BY <1>4, <1>7
  <2> QED
    BY ONLY <2>1, PutChild
<1>9. Tree(c, ch, q, M2) /\ M2 # {} /\ q \in M2
  <2>1. Tree(c, ch, n, M) /\ M # {} /\ s \in DSide
    BY <1>3
  <2>2. Tree(c, ch, ch[s][n], M2)
    BY ONLY <2>1, TreeSplit
  <2>3. M2 \subseteq DictKey
    BY <1>3 DEF Part
  <2> HIDE DEF M2
  <2>4. Tree(c, ch, q, M2) /\ DictKeyAssumption /\ M2 \subseteq DictKey /\ q # DNull
    BY <1>a, <1>7, <2>2, <2>3
  <2>5. (q = DNull <=> M2 = {}) /\ (M2 # {} => q \in M2)
    BY ONLY <2>4, TreeRoot
  <2> QED
    BY <2>4, <2>5
<1>10. M2 \subseteq M \ {n} /\ B \subseteq M /\ M = M2 \cup B
  <2>1. Ordered(c) /\ s \in DSide /\ o = DOther(s) /\ M \in SUBSET DictKey /\ n \in DictKey
    BY <1>3, <1>4
  <2>2. \A x \in M : x = n \/ Lies(c, s, x, n) \/ Lies(c, o, x, n)
    BY ONLY <2>1 DEF Ordered
  <2>3. \A x \in M2 : x # n
    BY ONLY <2>1 DEF Ordered, Part
  <2> QED
    <3>1. n \in M
      BY <1>3
    <3> QED
      BY ONLY <2>2, <2>3, <3>1 DEF Part, M2, B
<1>11. O2 \in [DSide -> SUBSET K] /\ O2[s] = O[s] \cup B /\ O2[o] = O[o]
  BY <1>1, <1>3, <1>10
<1>12. K = M2 \cup O2[s] \cup O2[o]
  BY <1>3, <1>10, <1>11
<1>13. K = M2 \cup O2["l"] \cup O2["r"]
  BY <1>12, Sides
<1>14. \A x \in B : Lies(c, o, x, key) /\ \A y \in M2 : Lies(c, o, x, y)
  BY <1>1, <1>3, <1>4, <1>7 DEF Part, Ordered
<1> HIDE DEF M2
<1>15. \A u \in DSide : \A x \in O2[u] : Lies(c, DOther(u), x, key) /\ \A y \in M2 : Lies(c, DOther(u), x, y)
  BY <1>1, <1>5, <1>10, <1>11, <1>14, Sides
<1>16. Tree(c, ch2, q, M2)
  <2>1. Alike(ch, ch2, M2)
    BY <1>3, <1>8, <1>10, Apart DEF Alike, Stored, DPlace
  <2> QED
    BY <1>9, <2>1, TreeAlike
<1>17. Hanging(c, ch2, n, s, O2[s])
  <2>1. /\ Ordered(c) /\ DictKeyAssumption /\ e \in DPlace /\ s \in DSide /\ O[s] \in SUBSET DictKey
        /\ M \in SUBSET DictKey /\ M # {} /\ Tree(c, ch, n, M) /\ Hanging(c, ch, e, s, O[s])
        /\ \A x \in O[s] : \A y \in M : Lies(c, DOther(s), x, y)
        /\ Stored(ch, ch2, s, e, n)
    BY <1>3, <1>4, <1>5, <1>8 DEF e
  <2>2. Hanging(c, ch2, n, s, O[s] \cup (Part(c, M, DOther(s), n) \cup {n}))
    BY ONLY <2>1, HangMore
  <2> QED
    BY <1>11, <2>2
<1>18. Hanging(c, ch2, t.end[o], o, O2[o])
  <2>1. Hanging(c, ch, t.end[o], o, O[o])
    BY <1>1, <1>5
  <2>2. Alike(ch, ch2, O[o]) /\ ch2[o][DTmp] = ch[o][DTmp]
    <3>1. /\ O[o] \subseteq DPlace /\ \A x \in O[o] : x # e \/ o # s
          /\ DTmp \in DPlace /\ o \in DSide /\ o # s
      BY <1>1, <1>3 DEF DPlace
    <3>2. \A u \in DSide : \A x \in O[o] : ~(u = s /\ x = e)
      BY <1>1, <1>3, Apart
    <3> QED
      BY ONLY <1>8, <3>1, <3>2 DEF Alike, Stored
  <2>3. O[o] \in SUBSET DictKey
    BY <1>1, <1>3
  <2> QED
    BY <1>1, <1>11, <2>1, <2>2, <2>3, HangingAlike
<1>19. t2.end \in [DSide -> DPlace] /\ t2.end[s] = n /\ t2.end[o] = t.end[o]
  BY <1>a, <1>1, <1>4 DEF n
<1>20. \A u \in DSide : Hanging(c, ch2, t2.end[u], u, O2[u])
  BY <1>17, <1>18, <1>19, Sides
<1> HIDE DEF O2
<1>21. Retuning(c, key, K, t2, M2, O2)
  BY <1>a, <1>3, <1>6, <1>9, <1>10, <1>11, <1>13, <1>15, <1>16, <1>20 DEF Retuning
<1>22. q \in DictKey
  BY <1>3, <1>9, <1>10
<1> QED
  BY <1>a, <1>6, <1>8, <1>10, <1>19, <1>21, <1>22 DEF n, Left

\* the loop is over when the key is found or there is nothing on its side
LEMMA StopStep ==
  ASSUME NEW c, Ordered(c), DictKeyAssumption, NEW key \in DictKey, NEW K \in SUBSET DictKey,
         NEW t, NEW M, NEW O, Retuning(c, key, K, t, M, O),
         \/ t.over
         \/ t.node = key
         \/ \E s \in DSide : Lies(c, s, key, t.node) /\ t.child[s][t.node] = DNull,
         NEW t2, t2.child = t.child, t2.node = t.node, t2.end = t.end
  PROVE  Retuning(c, key, K, t2, M, O)
<1>1. \/ t.node = key
      \/ \E s \in DSide : Lies(c, s, key, t.node) /\ Part(c, M, s, t.node) = {}
  <2>1. ASSUME NEW s \in DSide, t.child[s][t.node] = DNull PROVE Part(c, M, s, t.node) = {}
    <3>1. Tree(c, t.child, t.node, M) /\ M # {} /\ s \in DSide
      BY DEF Retuning
    <3>2. Tree(c, t.child, t.child[s][t.node], Part(c, M, s, t.node))
      BY ONLY <3>1, TreeSplit
    <3>3. Part(c, M, s, t.node) \subseteq DictKey
      BY DEF Retuning, Part
    <3>4. PICK P, q : P = Part(c, M, s, t.node) /\ q = t.child[s][t.node]
      OBVIOUS
    <3>5. Tree(c, t.child, q, P) /\ DictKeyAssumption /\ P \subseteq DictKey
      BY <3>2, <3>3, <3>4
    <3>6. q = DNull <=> P = {}
      BY ONLY <3>5, TreeRoot
    <3> QED
      BY <2>1, <3>4, <3>6
  <2> QED
    BY <2>1 DEF Retuning
<1> QED
  BY <1>1 DEF Retuning

\* what a turn that rotates the child up leaves
LEMMA RotateFields ==
  ASSUME NEW t \in RState, NEW a, NEW m, NEW v, v = [t EXCEPT !.child = a, !.node = m, !.over = TRUE]
  PROVE  v = [child |-> a, node |-> m, end |-> t.end, over |-> TRUE]
<1>1. t = [child |-> t.child, node |-> t.node, end |-> t.end, over |-> t.over]
  BY DEF RState
<1>2. v = [t EXCEPT !.child = a, !.node = m, !.over = TRUE]
  OBVIOUS
<1> QED
  BY ONLY <1>1, <1>2

\* the fields of a state of retune's loop
LEMMA StateFields ==
  ASSUME NEW a, NEW m, NEW e, NEW b, NEW v, v = [child |-> a, node |-> m, end |-> e, over |-> b]
  PROVE  v.child = a /\ v.node = m /\ v.end = e /\ v.over = b
OBVIOUS

\* the types of a state of retune's loop
LEMMA StateTypes ==
  ASSUME NEW a \in DChildren, NEW m \in DictKey, NEW e \in [DSide -> DPlace]
  PROVE  /\ [child |-> a, node |-> m, end |-> e, over |-> FALSE] \in RState
         /\ [child |-> a, node |-> m, end |-> e, over |-> TRUE] \in RState
BY DEF RState

\* a turn ends the loop or leaves fewer of the keys M below the node
Progress(c, key, K, t2, M) ==
  \E M2, O2 : /\ Retuning(c, key, K, t2, M2, O2)
              /\ t2.over \/ \E x \in M : M2 \subseteq M \ {x}

\* every turn of retune keeps the three trees, and ends the loop or leaves a key behind
LEMMA TurnStep ==
  ASSUME DictKeyAssumption, NEW d, d.cmp \in DOrder, NEW key \in DictKey, NEW K \in SUBSET DictKey,
         NEW t \in RState, NEW M, NEW O, Retuning(d.cmp, key, K, t, M, O)
  PROVE  LET t2 == DTurn(d, key, t)
         IN  t2 \in RState /\ Progress(d.cmp, key, K, t2, M)
<1> DEFINE c == d.cmp
           n == t.node
           s == DSideOf(d, key, n)
           m == t.child[s][n]
           ch == [t.child EXCEPT ![s][n] = t.child[DOther(s)][m], ![DOther(s)][m] = n]
           rotate == m # key /\ DSideOf(d, key, m) = s
           t2 == DTurn(d, key, t)
<1>0. /\ Ordered(c) /\ DictKeyAssumption /\ key \in DictKey /\ K \in SUBSET DictKey
      /\ Retuning(c, key, K, t, M, O)
  BY Order
<1>1. n \in DictKey /\ s \in DSide /\ (key # n => Lies(c, s, key, n))
  <2>1. n \in DictKey
    BY DEF RState
  <2> QED
    BY <2>1, SideLies
<1>2. t.node \in M
  <2>1. Separate(K, t, M, O)
    BY ONLY <1>0, RetuningApart
  <2> QED
    BY <2>1 DEF Separate
<1>3. m \in DPointer
  BY <1>1 DEF RState, DChildren, DPlace
<1>4. CASE t.over \/ key = n \/ m = DNull
  <2>1. t2 = [t EXCEPT !.over = TRUE]
    BY <1>4 DEF DTurn
  <2> HIDE DEF t2
  <2>2. t2 \in RState /\ t2.child = t.child /\ t2.node = t.node /\ t2.end = t.end /\ t2.over
    BY <2>1 DEF RState
  <2>3. \/ t.over
        \/ t.node = key
        \/ \E u \in DSide : Lies(c, u, key, t.node) /\ t.child[u][t.node] = DNull
    BY <1>1, <1>4
  <2> HIDE DEF c
  <2>4. Retuning(c, key, K, t2, M, O)
    BY ONLY <1>0, <2>2, <2>3, StopStep
  <2> QED
    BY <2>2, <2>4 DEF c, t2, Progress
<1>5. CASE ~(t.over \/ key = n \/ m = DNull) /\ ~rotate
  <2>1. PICK cc, e : cc = [t.child EXCEPT ![s][t.end[s]] = n] /\ e = [t.end EXCEPT ![s] = n]
    OBVIOUS
  <2>2. PICK v : v = [child |-> cc, node |-> m, end |-> e, over |-> FALSE]
    OBVIOUS
  <2>3. t2 = v
    BY <1>5, <2>1, <2>2 DEF DTurn
  <2>4. v.child = cc /\ v.node = m /\ v.end = e /\ v.over = FALSE
    BY ONLY <2>2, StateFields
  <2>5. Advanced(t, v, s)
    BY <2>1, <2>4 DEF Advanced
  <2>6. t \in RState /\ s \in DSide /\ Lies(c, s, key, t.node) /\ t.child[s][t.node] # DNull
    BY <1>1, <1>5
  <2> HIDE DEF c, s, m
  <2>7. /\ v.child \in DChildren /\ v.end \in [DSide -> DPlace] /\ v.node \in DictKey
        /\ Left(c, key, K, v, M, t.node)
    BY ONLY <1>0, <2>5, <2>6, AdvanceStep
  <2>8. v \in RState
    BY <2>2, <2>4, <2>7, StateTypes
  <2> HIDE DEF t2
  <2> QED
    BY <1>2, <2>3, <2>7, <2>8 DEF t2, c, Left, Progress
<1>6. CASE ~(t.over \/ key = n \/ m = DNull) /\ rotate
  <2>1. PICK c2 : c2 = ch
    OBVIOUS
  <2>2. PICK w : w = [child |-> c2, node |-> m, end |-> t.end, over |-> FALSE]
    OBVIOUS
  <2>3. PICK vs : vs = [child |-> c2, node |-> m, end |-> t.end, over |-> TRUE]
    OBVIOUS
  <2>4. PICK c3, e : c3 = [c2 EXCEPT ![s][t.end[s]] = m] /\ e = [t.end EXCEPT ![s] = m]
    OBVIOUS
  <2>5. PICK va : va = [child |-> c3, node |-> c2[s][m], end |-> e, over |-> FALSE]
    OBVIOUS
  <2>6. t2 = IF c2[s][m] = DNull THEN [t EXCEPT !.child = c2, !.node = m, !.over = TRUE] ELSE va
    BY <1>6, <2>1, <2>4, <2>5 DEF DTurn
  <2>7. /\ m \in DictKey /\ Lies(c, s, key, m)
    <3>1. m \in DictKey /\ m # key /\ DSideOf(d, key, m) = s
      BY <1>3, <1>6 DEF DPointer
    <3> QED
      BY <1>1, <3>1, SideLies
  <2>8. t \in RState /\ s \in DSide /\ m = t.child[s][t.node] /\ m # DNull
    BY <1>1, <1>6
  <2>9. c2 = [t.child EXCEPT ![s][t.node] = t.child[DOther(s)][m], ![DOther(s)][m] = t.node]
    BY <2>1
  <2> HIDE DEF c, s, m, ch, t2
  <2>10. /\ w.child = c2 /\ w.node = m /\ w.end = t.end /\ w.over = FALSE
         /\ vs.child = c2 /\ vs.node = m /\ vs.end = t.end /\ vs.over
         /\ va.child = c3 /\ va.node = c2[s][m] /\ va.end = e /\ va.over = FALSE
    BY ONLY <2>2, <2>3, <2>5, StateFields
  <2>11. t2 = IF c2[s][m] = DNull THEN vs ELSE va
    <3>1. PICK u : u = [t EXCEPT !.child = c2, !.node = m, !.over = TRUE]
      OBVIOUS
    <3>2. u = [child |-> c2, node |-> m, end |-> t.end, over |-> TRUE]
      BY ONLY <2>8, <3>1, RotateFields
    <3> QED
      BY ONLY <2>3, <2>6, <3>1, <3>2
  <2>12. RotatedUp(t, w, s)
    BY <2>8, <2>9, <2>10 DEF RotatedUp
  <2>13. Retuning(c, key, K, w, M, O) /\ w.node \in M /\ w.child \in DChildren
    <3>1. t \in RState /\ s \in DSide /\ t.child[s][t.node] # DNull
      BY <2>8
    <3> QED
      BY ONLY <1>0, <2>12, <3>1, RotateStep
  <2>14. w \in RState /\ vs \in RState
    <3>1. t.end \in [DSide -> DPlace]
      BY DEF RState
    <3> QED
      BY <2>2, <2>3, <2>7, <2>10, <2>13, <3>1, StateTypes
  <2>15. CASE c2[s][m] = DNull
    <3>1. /\ \/ w.over
             \/ w.node = key
             \/ \E u \in DSide : Lies(c, u, key, w.node) /\ w.child[u][w.node] = DNull
          /\ vs.child = w.child /\ vs.node = w.node /\ vs.end = w.end
      BY <2>7, <2>8, <2>10, <2>15
    <3>2. Retuning(c, key, K, vs, M, O)
      BY ONLY <1>0, <2>13, <3>1, StopStep
    <3>3. t2 = vs
      BY <2>11, <2>15
    <3> QED
      BY <2>10, <2>14, <3>2, <3>3 DEF t2, c, Progress
  <2>16. CASE c2[s][m] # DNull
    <3>1. Advanced(w, va, s)
      BY <2>4, <2>10 DEF Advanced
    <3>2. w \in RState /\ s \in DSide /\ Lies(c, s, key, w.node) /\ w.child[s][w.node] # DNull
      BY <2>7, <2>8, <2>10, <2>14, <2>16
    <3>3. /\ va.child \in DChildren /\ va.end \in [DSide -> DPlace] /\ va.node \in DictKey
          /\ Left(c, key, K, va, M, w.node)
      BY ONLY <1>0, <2>13, <3>1, <3>2, AdvanceStep
    <3>4. va \in RState
      BY <2>5, <2>10, <3>3, StateTypes
    <3>5. t2 = va
      BY <2>11, <2>16
    <3> QED
      BY <2>13, <3>3, <3>4, <3>5 DEF t2, c, Left, Progress
  <2> QED
    BY <2>15, <2>16
<1> QED
  BY <1>4, <1>5, <1>6

\* a turn after the loop has ended changes nothing
LEMMA OverFields ==
  ASSUME NEW t \in RState, t.over, NEW v, v = [t EXCEPT !.over = TRUE]
  PROVE  v = t
<1>1. t = [child |-> t.child, node |-> t.node, end |-> t.end, over |-> t.over] /\ t.over = TRUE
  BY DEF RState
<1>2. v = [t EXCEPT !.over = TRUE]
  OBVIOUS
<1> QED
  BY ONLY <1>1, <1>2

\* the loop of retune comes to an end, with the key at the node or beside it
LEMMA DescendEnds ==
  ASSUME DictKeyAssumption, NEW d, d.cmp \in DOrder, NEW key \in DictKey,
         NEW K \in SUBSET DictKey, K # {}, d.child \in DChildren,
         Tree(d.cmp, d.child, d.root, K)
  PROVE  LET t == DDescend(d, key)
         IN  t \in RState /\ t.over /\ \E M, O : Retuning(d.cmp, key, K, t, M, O)
<1> DEFINE c == d.cmp
           S == {t \in RState : \E M, O : Retuning(c, key, K, t, M, O)}
           a == [child |-> d.child, node |-> d.root, end |-> [s \in DSide |-> DTmp], over |-> FALSE]
           F == [t \in S |-> DTurn(d, key, t)]
           End == {t \in S : t.over}
           Within(t, b) == \E M, O : Retuning(c, key, K, t, M, O) /\ Cardinality(M) <= b
           Enough == [t \in S |-> {b \in Nat : t.over \/ Within(t, b)}]
           C == Cardinality(DictKey)
           turn[k \in Nat] == IF k = 0 THEN a ELSE DTurn(d, key, turn[k - 1])
<1>1. IsFiniteSet(DictKey) /\ C \in Nat
  BY FS_CardinalityType DEF DictKeyAssumption
<1>2. \A M \in SUBSET DictKey : IsFiniteSet(M) /\ Cardinality(M) \in Nat /\ Cardinality(M) <= C
  BY <1>1, FS_Subset, FS_CardinalityType
<1>3. a \in S /\ Within(a, C)
  <2> DEFINE O == [s \in DSide |-> {}]
             e == [s \in DSide |-> DTmp]
  <2>1. d.root \in DictKey
    BY TreeRoot
  <2>2. e \in [DSide -> DPlace]
    BY DEF DPlace
  <2>3. a \in RState /\ a.child = d.child /\ a.node = d.root /\ a.end = e /\ ~a.over
    <3>1. a = [child |-> d.child, node |-> d.root, end |-> e, over |-> FALSE]
      OBVIOUS
    <3> HIDE DEF a, e
    <3>2. a.child = d.child /\ a.node = d.root /\ a.end = e /\ a.over = FALSE
      BY ONLY <3>1, StateFields
    <3>3. a \in RState
      BY <2>1, <2>2, <3>1, StateTypes
    <3> QED
      BY <3>2, <3>3
  <2>4. O \in [DSide -> SUBSET K] /\ \A s \in DSide : O[s] = {} /\ e[s] = DTmp
    OBVIOUS
  <2> HIDE DEF a, O, e
  <2>5. Retuning(c, key, K, a, K, O)
    BY <2>3, <2>4, Sides DEF Retuning, Hanging
  <2> QED
    BY <1>2, <2>3, <2>5
<1> HIDE DEF a, C
<1>4. ASSUME NEW t \in S, NEW M, NEW O, Retuning(c, key, K, t, M, O)
      PROVE  F[t] \in RState /\ Progress(c, key, K, F[t], M)
  <2>1. F[t] = DTurn(d, key, t)
    OBVIOUS
  <2>2. t \in RState
    OBVIOUS
  <2> HIDE DEF F, S
  <2>3. /\ DictKeyAssumption /\ d.cmp \in DOrder /\ key \in DictKey /\ K \in SUBSET DictKey
        /\ Retuning(d.cmp, key, K, t, M, O)
    BY <1>4
  <2>4. DTurn(d, key, t) \in RState /\ Progress(d.cmp, key, K, DTurn(d, key, t), M)
    BY ONLY <2>2, <2>3, TurnStep
  <2> QED
    BY <2>1, <2>4
<1>5. StepOn(S, F)
  <2>1. \A t \in S : F[t] \in S
    BY <1>4 DEF Progress
  <2> QED
    BY <2>1 DEF StepOn
<1>6. PICK g \in [Nat -> S] : LoopStates(a, F, g)
  <2> HIDE DEF F, S
  <2>1. LoopDefined(S, a, F)
    BY <1>3, <1>5, Loops
  <2> QED
    BY <2>1 DEF LoopDefined
<1>7. g = [k \in Nat |-> IF k = 0 THEN a ELSE DTurn(d, key, g[k - 1])]
  <2>1. \A k \in Nat : k # 0 => F[g[k - 1]] = DTurn(d, key, g[k - 1])
    BY <1>6
  <2> HIDE DEF F, S
  <2> QED
    BY <1>6, <2>1 DEF LoopStates
<1>8. turn = [k \in Nat |-> IF k = 0 THEN a ELSE DTurn(d, key, turn[k - 1])]
  BY <1>7
<1>9. DDescend(d, key) = turn[C]
  BY DEF DDescend, a, C
<1>10. \A t \in S : t \in End => F[t] = t
  <2> SUFFICES ASSUME NEW t \in S, t.over PROVE F[t] = t
    OBVIOUS
  <2>1. F[t] = DTurn(d, key, t) /\ t \in RState
    OBVIOUS
  <2> HIDE DEF F, S
  <2>2. F[t] = [t EXCEPT !.over = TRUE]
    BY <2>1 DEF DTurn
  <2> QED
    BY <2>1, <2>2, OverFields
<1>11. \A t \in S : t \notin End => \A b \in Enough[t] : b - 1 \in Enough[F[t]]
  <2> SUFFICES ASSUME NEW t \in S, ~t.over, NEW b \in Enough[t] PROVE b - 1 \in Enough[F[t]]
    OBVIOUS
  <2>1. b \in Nat /\ Within(t, b)
    OBVIOUS
  <2>2. PICK M, O : Retuning(c, key, K, t, M, O) /\ Cardinality(M) <= b
    BY <2>1
  <2>3. PICK M2, O2 : /\ Retuning(c, key, K, F[t], M2, O2)
                      /\ F[t].over \/ \E x \in M : M2 \subseteq M \ {x}
    <3> HIDE DEF F
    <3> QED
      BY <1>4, <2>2 DEF Progress
  <2>4. F[t] \in S /\ M \in SUBSET DictKey /\ M2 \in SUBSET DictKey /\ M # {}
    <3> HIDE DEF F, S
    <3> QED
      BY <1>5, <2>2, <2>3 DEF Retuning, StepOn
  <2> HIDE DEF F
  <2>5. b - 1 \in Nat /\ (F[t].over \/ Cardinality(M2) <= b - 1)
    <3>1. /\ IsFiniteSet(M) /\ Cardinality(M) \in Nat
          /\ IsFiniteSet(M2) /\ Cardinality(M2) \in Nat
      BY <1>2, <2>4
    <3>2. PICK x : x \in M /\ (F[t].over \/ M2 \subseteq M \ {x})
      BY <2>3, <2>4
    <3>3. /\ Cardinality(M \ {x}) = Cardinality(M) - 1 /\ IsFiniteSet(M \ {x})
          /\ Cardinality(M \ {x}) \in Nat
      BY <3>1, <3>2, FS_RemoveElement, FS_CardinalityType
    <3>4. M2 \subseteq M \ {x} => Cardinality(M2) <= Cardinality(M \ {x})
      BY <3>3, FS_Subset
    <3> QED
      BY ONLY <2>1, <2>2, <3>1, <3>2, <3>3, <3>4
  <2>6. F[t].over \/ Within(F[t], b - 1)
    BY <2>3, <2>5
  <2> HIDE DEF Within, S
  <2> QED
    BY <2>4, <2>5, <2>6
<1>12. C \in Enough[a] /\ Enough \in [S -> SUBSET Nat]
  <2> HIDE DEF S, Within
  <2> QED
    BY <1>1, <1>3
<1>13. g[C] \in End
  <2> HIDE DEF S, F, Enough, End
  <2> QED
    BY <1>3, <1>5, <1>6, <1>10, <1>11, <1>12, LoopEnds
<1>14. turn[C] = g[C]
  <2>1. turn[0] = a /\ \A k \in Nat : turn[k + 1] = DTurn(d, key, turn[k])
    <3>1. \A k \in Nat : k + 1 \in Nat /\ k + 1 # 0 /\ (k + 1) - 1 = k
      OBVIOUS
    <3> HIDE DEF turn
    <3> QED
      BY <1>8, <3>1
  <2> HIDE DEF turn
  <2>2. \A k \in Nat : turn[k] \in S => turn[k + 1] = F[turn[k]]
    <3> HIDE DEF S
    <3> QED
      BY <2>1
  <2> HIDE DEF F, S
  <2>3. PICK f : f = turn
    OBVIOUS
  <2>4. g \in [Nat -> S] /\ Follows(f, S, a, F)
    BY <2>1, <2>2, <2>3 DEF Follows
  <2>5. \A k \in Nat : f[k] = g[k]
    BY ONLY <1>6, <2>4, LoopUnique
  <2> QED
    BY <1>1, <2>3, <2>5
<1> HIDE DEF turn
<1> QED
  BY <1>9, <1>13, <1>14

-----------------------------------------------------------------------------
(* What retune makes of the tree.                                          *)

\* ch2 differs from ch at most where one side is reassembled
Only(ch, ch2, s, e, n) ==
  \A t \in DSide : \A x \in DPlace :
    ch2[t][x] = ch[t][x] \/ (t = s /\ x = e) \/ (t = DOther(s) /\ x = n)

\* after the loop, for one side: what hung there is that side of the root
LEMMA SideReassembled ==
  ASSUME NEW c, Ordered(c), DictKeyAssumption, NEW ch \in DChildren, NEW n \in DictKey,
         NEW s \in DSide, NEW end, end[s] \in DPlace, end[s] # n,
         NEW X \in SUBSET DictKey, NEW Z \in SUBSET DictKey, n \notin X, n \notin Z,
         Hanging(c, ch, end[s], s, X), Tree(c, ch, ch[DOther(s)][n], Z),
         \A x \in X : \A z \in Z : Lies(c, s, z, x),
         NEW ch2, ch2 = DReassemble(ch, n, end, s)
  PROVE  /\ ch2 \in DChildren
         /\ Tree(c, ch2, ch2[DOther(s)][n], X \cup Z)
         /\ Only(ch, ch2, s, end[s], n)
<1> PICK o, e : o = DOther(s) /\ e = end[s]
  OBVIOUS
<1> PICK v : v = ch[o][n]
  OBVIOUS
<1> PICK ch1 : ch1 = [ch EXCEPT ![s][e] = v]
  OBVIOUS
<1> PICK w : w = ch1[s][DTmp]
  OBVIOUS
<1>1. /\ o \in DSide /\ o # s /\ e \in DPlace /\ n \in DPlace /\ DTmp \in DPlace /\ e # n
      /\ DTmp # n /\ DTmp \notin DictKey
  BY Sides, Apart DEF DPlace
<1>2. v \in DPointer
  BY <1>1 DEF DChildren
<1>3. ch1 \in DChildren /\ Stored(ch, ch1, s, e, v)
  <2>1. ch \in DChildren /\ s \in DSide /\ e \in DPlace /\ v \in DPointer /\ ch1 = [ch EXCEPT ![s][e] = v]
    BY <1>1, <1>2
  <2> QED
    BY ONLY <2>1, PutChild
<1>4. w \in DPointer
  BY <1>1, <1>3 DEF DChildren
<1>5. ch2 \in DChildren /\ Stored(ch1, ch2, o, n, w)
  <2>1. ch2 = [ch1 EXCEPT ![o][n] = w]
    BY DEF DReassemble
  <2>2. ch1 \in DChildren /\ o \in DSide /\ n \in DPlace /\ w \in DPointer
    BY <1>1, <1>3, <1>4
  <2> QED
    BY ONLY <2>1, <2>2, PutChild
<1>6. \A t \in DSide : \A x \in DPlace :
        ch2[t][x] = IF t = o /\ x = n THEN w ELSE IF t = s /\ x = e THEN v ELSE ch[t][x]
  BY ONLY <1>1, <1>3, <1>5 DEF Stored
<1>7. Only(ch, ch2, s, end[s], n)
  BY <1>6 DEF Only
<1>8. ch2[o][n] = w
  BY <1>1, <1>6
<1>9. X \subseteq DPlace /\ Z \subseteq DPlace /\ DTmp \notin Z /\ DTmp \notin X
  BY <1>1 DEF DPlace
<1>10. Tree(c, ch2, w, X \cup Z)
  <2>1. CASE X = {}
    <3>1. e = DTmp
      BY <2>1 DEF Hanging
    <3>2. w = v
      BY <1>1, <1>3, <3>1 DEF Stored
    <3>3. Alike(ch, ch2, Z)
      BY <1>6, <1>9, <3>1 DEF Alike
    <3>4. Tree(c, ch2, v, Z)
      BY <3>3, TreeAlike
    <3> QED
      BY <2>1, <3>2, <3>4
  <2>2. CASE X # {}
    <3> PICK cut : cut = Cut(ch, s, e)
      OBVIOUS
    <3>1. Extreme(c, X, s, e) /\ Tree(c, cut, ch[s][DTmp], X) /\ e \in X
      BY <2>2 DEF Hanging, Extreme
    <3>2. w = ch[s][DTmp]
      BY <1>1, <1>3, <1>9, <3>1 DEF Stored
    <3>3. \A t \in DSide : \A x \in DPlace : cut[t][x] = IF t = s /\ x = e THEN DNull ELSE ch[t][x]
      BY DEF Cut
    <3>4. \A x \in Z : x \notin X
      BY DEF Ordered
    <3>5. Alike(ch, cut, Z)
      BY <1>9, <3>1, <3>3, <3>4 DEF Alike
    <3>6. Tree(c, cut, v, Z)
      BY <3>5, TreeAlike
    <3>7. \A x \in X \cup Z : x # n /\ x \in DPlace
      BY <1>9
    <3>8. Attached(cut, ch2, X \cup Z, s, e, v)
      BY ONLY <1>6, <3>3, <3>7 DEF Attached
    <3>9. /\ Ordered(c) /\ s \in DSide /\ X \in SUBSET DictKey /\ Z \in SUBSET DictKey
          /\ Tree(c, cut, w, X) /\ \A y \in Z : \A x \in X : Lies(c, s, y, x)
      BY <3>1, <3>2
    <3> QED
      BY ONLY <3>1, <3>6, <3>8, <3>9, TreeAttach
  <2> QED
    BY <2>1, <2>2
<1> QED
  BY <1>5, <1>7, <1>8, <1>10

\* the key is the root r, or it is missing and would be next to it
Beside(c, K, key, r) ==
  \/ r = key
  \/ /\ key \notin K
     /\ \E s \in DSide : /\ Lies(c, s, key, r)
                         /\ \A x \in K : Lies(c, s, x, r) => Lies(c, s, x, key)

\* ch2 is a tree of the keys K with the root r
Reshaped(c, K, key, ch2, r) ==
  ch2 \in DChildren /\ Tree(c, ch2, r, K) /\ r \in K /\ Beside(c, K, key, r)

\* the element where the loop ends is the key, or next to where it belongs
LEMMA RetuningBeside ==
  ASSUME NEW c, Ordered(c), DictKeyAssumption, NEW key \in DictKey, NEW K \in SUBSET DictKey,
         NEW t \in RState, NEW M, NEW O, Retuning(c, key, K, t, M, O), t.over
  PROVE  Beside(c, K, key, t.node)
<1>1. Separate(K, t, M, O)
  BY RetuningApart
<1> SUFFICES ASSUME t.node # key PROVE Beside(c, K, key, t.node)
  BY DEF Beside
<1>2. PICK s \in DSide : Lies(c, s, key, t.node) /\ Part(c, M, s, t.node) = {}
  BY DEF Retuning
<1> PICK o, n : o = DOther(s) /\ n = t.node
  OBVIOUS
<1>3. o \in DSide /\ DOther(o) = s /\ n \in M /\ n \in DictKey /\ K = M \cup O[s] \cup O[o]
  BY <1>1, Sides DEF Separate
<1>4. /\ \A x \in O[s] : Lies(c, o, x, key) /\ \A y \in M : Lies(c, o, x, y)
      /\ \A x \in O[o] : Lies(c, s, x, key) /\ \A y \in M : Lies(c, s, x, y)
  BY <1>3 DEF Retuning
<1>5. key \notin K
  BY <1>2, <1>3, <1>4 DEF Part, Ordered
<1>6. ASSUME NEW x \in K, Lies(c, s, x, n) PROVE Lies(c, s, x, key)
  <2>1. x \notin M
    BY <1>2, <1>6 DEF Part
  <2>2. x \notin O[s]
    BY <1>3, <1>4, <1>6 DEF Ordered
  <2> QED
    BY <1>3, <1>4, <2>1, <2>2
<1> QED
  BY <1>2, <1>5, <1>6 DEF Beside

\* after both sides are reassembled, the keys are one tree again
LEMMA RetunedTree ==
  ASSUME NEW c, Ordered(c), DictKeyAssumption, NEW key \in DictKey, NEW K \in SUBSET DictKey,
         NEW t \in RState, NEW M, NEW O, Retuning(c, key, K, t, M, O), t.over,
         NEW ch1, ch1 = DReassemble(t.child, t.node, t.end, "r"),
         NEW ch2, ch2 = DReassemble(ch1, t.node, t.end, "l"),
         NEW ch3, ch3 = [s \in DSide |-> [ch2[s] EXCEPT ![DTmp] = DNull]]
  PROVE  Reshaped(c, K, key, ch3, t.node)
<1> PICK ch, n, end, l, r : ch = t.child /\ n = t.node /\ end = t.end /\ l = "l" /\ r = "r"
  OBVIOUS
<1>1. Separate(K, t, M, O) /\ Beside(c, K, key, n)
  <2>1. /\ Ordered(c) /\ DictKeyAssumption /\ key \in DictKey /\ K \in SUBSET DictKey
        /\ t \in RState /\ Retuning(c, key, K, t, M, O) /\ t.over
    OBVIOUS
  <2>2. Separate(K, t, M, O)
    BY ONLY <2>1, RetuningApart
  <2>3. Beside(c, K, key, t.node)
    BY ONLY <2>1, RetuningBeside
  <2> QED
    BY <2>2, <2>3
<1>2. /\ l \in DSide /\ r \in DSide /\ l # r /\ DOther(l) = r /\ DOther(r) = l
      /\ \A s \in DSide : s = l \/ s = r
  BY Sides
<1>3. ch \in DChildren /\ n \in DictKey /\ end \in [DSide -> DPlace]
  BY DEF RState
<1> DEFINE ZL == Part(c, M, l, n)
           ZR == Part(c, M, r, n)
           A == O[r] \cup ZL
           B == O[l] \cup ZR
<1>4. /\ n \in M /\ M \in SUBSET DictKey /\ M \subseteq K
      /\ O[l] \in SUBSET DictKey /\ O[r] \in SUBSET DictKey
      /\ K = M \cup O[l] \cup O[r]
      /\ \A x \in O[l] : x \notin M /\ x \notin O[r]
      /\ \A x \in O[r] : x \notin M /\ x \notin O[l]
      /\ end[l] \in O[l] \cup {DTmp} /\ end[r] \in O[r] \cup {DTmp}
  BY <1>1, <1>2 DEF Separate
<1>5. /\ Hanging(c, ch, end[l], l, O[l]) /\ Hanging(c, ch, end[r], r, O[r])
      /\ \A x \in O[l] : \A y \in M : Lies(c, r, x, y)
      /\ \A x \in O[r] : \A y \in M : Lies(c, l, x, y)
      /\ Tree(c, ch, n, M) /\ M # {}
  BY <1>2 DEF Retuning
<1>6. Tree(c, ch, ch[l][n], ZL) /\ Tree(c, ch, ch[r][n], ZR)
  BY <1>2, <1>5, TreeSplit
<1>7. /\ ZL \in SUBSET DictKey /\ ZR \in SUBSET DictKey /\ ZL \subseteq M /\ ZR \subseteq M
      /\ n \notin ZL /\ n \notin ZR
      /\ \A x \in ZL : Lies(c, l, x, n)
      /\ \A x \in ZR : Lies(c, r, x, n)
      /\ \A x \in M : x = n \/ x \in ZL \/ x \in ZR
      /\ \A x \in ZL : x \notin ZR
  <2>1. /\ \A x : x \in ZL <=> x \in M /\ Lies(c, l, x, n)
        /\ \A x : x \in ZR <=> x \in M /\ Lies(c, r, x, n)
    BY DEF Part
  <2>2. /\ ~Lies(c, l, n, n) /\ ~Lies(c, r, n, n)
        /\ \A x \in DictKey : x # n => Lies(c, l, x, n) \/ Lies(c, r, x, n)
        /\ \A x \in DictKey : ~(Lies(c, l, x, n) /\ Lies(c, r, x, n))
    <3>1. Ordered(c) /\ n \in DictKey
      BY <1>3
    <3> QED
      BY ONLY <1>2, <3>1 DEF Ordered
  <2>3. /\ M \in SUBSET DictKey
        /\ ZL \subseteq M /\ ZR \subseteq M
    BY <1>4 DEF Part
  <2> HIDE DEF ZL, ZR
  <2> QED
    BY ONLY <2>1, <2>2, <2>3
<1>8. /\ DTmp \notin DictKey /\ DTmp \in DPlace /\ n \in DPlace /\ DTmp # n
      /\ end[l] # n /\ end[r] # n /\ end[l] \in DPlace /\ end[r] \in DPlace
      /\ DictKey \subseteq DPlace
  BY <1>2, <1>3, <1>4, Apart DEF DPlace
<1>9. ch1 = DReassemble(ch, n, end, r) /\ ch2 = DReassemble(ch1, n, end, l)
  OBVIOUS
<1> HIDE DEF ZL, ZR
<1>10. /\ ch1 \in DChildren /\ Tree(c, ch1, ch1[l][n], A) /\ Only(ch, ch1, r, end[r], n)
  <2>1. /\ Ordered(c) /\ DictKeyAssumption /\ ch \in DChildren /\ n \in DictKey
        /\ r \in DSide /\ end[r] \in DPlace /\ end[r] # n
        /\ O[r] \in SUBSET DictKey /\ ZL \in SUBSET DictKey /\ n \notin O[r] /\ n \notin ZL
        /\ Hanging(c, ch, end[r], r, O[r]) /\ Tree(c, ch, ch[DOther(r)][n], ZL)
        /\ \A x \in O[r] : \A z \in ZL : Lies(c, r, z, x)
        /\ ch1 = DReassemble(ch, n, end, r)
    <3>1. \A x \in O[r] : \A z \in ZL : Lies(c, r, z, x)
      <4>1. \A x \in O[r] : \A z \in ZL : Lies(c, l, x, z) /\ x \in DictKey /\ z \in DictKey
        BY <1>4, <1>5, <1>7
      <4> QED
        BY ONLY <1>2, <4>1, Ordered(c) DEF Ordered
    <3> QED
      BY <1>2, <1>3, <1>4, <1>5, <1>6, <1>7, <1>8, <1>9, <3>1
  <2>2. /\ ch1 \in DChildren /\ Tree(c, ch1, ch1[DOther(r)][n], O[r] \cup ZL)
        /\ Only(ch, ch1, r, end[r], n)
    BY ONLY <2>1, SideReassembled
  <2> QED
    BY <1>2, <2>2
<1>11. \A t1 \in DSide : \A x \in DPlace :
         ch1[t1][x] = ch[t1][x] \/ (t1 = r /\ x = end[r]) \/ (t1 = l /\ x = n)
  BY <1>2, <1>10 DEF Only
<1>12. Alike(ch, ch1, O[l]) /\ Alike(ch, ch1, ZR) /\ ch1[l][DTmp] = ch[l][DTmp] /\ ch1[r][n] = ch[r][n]
  <2>1. Alike(ch, ch1, O[l])
    <3>1. \A x \in O[l] : x \in DPlace /\ x # end[r] /\ x # n
      BY <1>4, <1>8
    <3> QED
      BY ONLY <1>11, <3>1 DEF Alike
  <2>2. Alike(ch, ch1, ZR)
    <3>1. \A x \in ZR : x \in DPlace /\ x # end[r] /\ x # n
      BY <1>4, <1>7, <1>8
    <3> QED
      BY ONLY <1>11, <3>1 DEF Alike
  <2>3. ch1[l][DTmp] = ch[l][DTmp] /\ ch1[r][n] = ch[r][n]
    BY ONLY <1>2, <1>8, <1>11
  <2> QED
    BY <2>1, <2>2, <2>3
<1>13. /\ ch2 \in DChildren /\ Tree(c, ch2, ch2[r][n], B) /\ Only(ch1, ch2, l, end[l], n)
  <2>1. /\ Ordered(c) /\ DictKeyAssumption /\ ch1 \in DChildren /\ n \in DictKey
        /\ l \in DSide /\ end[l] \in DPlace /\ end[l] # n
        /\ O[l] \in SUBSET DictKey /\ ZR \in SUBSET DictKey /\ n \notin O[l] /\ n \notin ZR
        /\ Hanging(c, ch1, end[l], l, O[l]) /\ Tree(c, ch1, ch1[DOther(l)][n], ZR)
        /\ \A x \in O[l] : \A z \in ZR : Lies(c, l, z, x)
        /\ ch2 = DReassemble(ch1, n, end, l)
    <3>1. \A x \in O[l] : \A z \in ZR : Lies(c, l, z, x)
      <4>1. \A x \in O[l] : \A z \in ZR : Lies(c, r, x, z) /\ x \in DictKey /\ z \in DictKey
        BY <1>4, <1>5, <1>7
      <4> QED
        BY ONLY <1>2, <4>1, Ordered(c) DEF Ordered
    <3>2. Tree(c, ch1, ch1[r][n], ZR)
      BY <1>6, <1>12, TreeAlike
    <3>3. Hanging(c, ch1, end[l], l, O[l])
      BY <1>2, <1>4, <1>5, <1>12, HangingAlike
    <3> QED
      BY <1>2, <1>3, <1>4, <1>7, <1>8, <1>9, <1>10, <3>1, <3>2, <3>3
  <2>2. /\ ch2 \in DChildren /\ Tree(c, ch2, ch2[DOther(l)][n], O[l] \cup ZR)
        /\ Only(ch1, ch2, l, end[l], n)
    BY ONLY <2>1, SideReassembled
  <2> QED
    BY <1>2, <2>2
<1>14. \A t1 \in DSide : \A x \in DPlace :
         ch2[t1][x] = ch1[t1][x] \/ (t1 = l /\ x = end[l]) \/ (t1 = r /\ x = n)
  BY <1>2, <1>13 DEF Only
<1>15. Tree(c, ch2, ch2[l][n], A)
  <2>1. Alike(ch1, ch2, A)
    <3>1. \A x \in A : x \in DPlace /\ x # end[l] /\ x # n
      BY <1>4, <1>7, <1>8
    <3> HIDE DEF A
    <3> QED
      BY ONLY <1>14, <3>1 DEF Alike
  <2>2. ch2[l][n] = ch1[l][n]
    BY ONLY <1>2, <1>8, <1>14
  <2> QED
    BY <1>10, <2>1, <2>2, TreeAlike
<1>16. Tree(c, ch2, n, K)
  <2>1. /\ Ordered(c) /\ n \in DictKey /\ l \in DSide /\ A \in SUBSET DictKey /\ B \in SUBSET DictKey
        /\ Tree(c, ch2, ch2[l][n], A) /\ Tree(c, ch2, ch2[DOther(l)][n], B)
        /\ \A x \in A : Lies(c, l, x, n)
        /\ \A x \in B : Lies(c, DOther(l), x, n)
    BY <1>2, <1>3, <1>4, <1>5, <1>7, <1>13, <1>15
  <2> HIDE DEF A, B
  <2>2. Tree(c, ch2, n, A \cup B \cup {n})
    BY ONLY <2>1, TreeJoin
  <2>3. A \cup B \cup {n} = K
    BY <1>4, <1>7 DEF A, B
  <2> QED
    BY <2>2, <2>3
<1>17. ch3 \in DChildren /\ Alike(ch2, ch3, K)
  <2>1. \A u \in DSide : ch2[u] \in [DPlace -> DPointer]
    BY <1>13 DEF DChildren
  <2>2. \A u \in DSide : /\ ch3[u] \in [DPlace -> DPointer]
                         /\ \A x \in DPlace : x # DTmp => ch3[u][x] = ch2[u][x]
    BY <2>1 DEF DPointer
  <2>3. ch3 \in DChildren
    BY <2>2 DEF DChildren
  <2>4. \A x \in K : x \in DPlace /\ x # DTmp
    BY <1>8
  <2> QED
    BY ONLY <2>2, <2>3, <2>4 DEF Alike
<1>18. Tree(c, ch3, n, K)
  BY <1>16, <1>17, TreeAlike
<1> QED
  BY <1>1, <1>4, <1>17, <1>18 DEF Reshaped

-----------------------------------------------------------------------------
(* The dictionary and its tree.                                            *)

DRecord == [cmp : DOrder, root : DPointer, count : Nat, dirty : BOOLEAN,
            child : DChildren, nbr : [DSide -> [DictKey -> DPointer]],
            end : [DSide -> DPointer], position : [DictKey -> Nat]]

\* d2 is d but for the shape of its tree
SameButTree(d, d2) ==
  /\ d2.cmp = d.cmp /\ d2.count = d.count /\ d2.dirty = d.dirty
  /\ d2.nbr = d.nbr /\ d2.end = d.end /\ d2.position = d.position

\* what retune makes of d, whose keys are K
Retuned(d, d2, K, key) ==
  /\ d2 \in DRecord /\ SameButTree(d, d2)
  /\ Tree(d2.cmp, d2.child, d2.root, K)
  /\ K = {} => d2 = d
  /\ K # {} => d2.root \in K /\ Beside(d2.cmp, K, key, d2.root)
  /\ DFound(d2, key) <=> key \in K

Reshape(d, r, ch) == [d EXCEPT !.root = r, !.child = ch]

\* a lookup changes the shape of the tree and no other field
LEMMA ReshapeFields ==
  ASSUME NEW d \in DRecord, NEW r \in DPointer, NEW ch \in DChildren,
         NEW d2, d2 = Reshape(d, r, ch)
  PROVE  d2 \in DRecord /\ d2.root = r /\ d2.child = ch /\ SameButTree(d, d2)
BY DEF DRecord, SameButTree, Reshape

\* mowgli_dictionary_retune keeps the tree and finds a key exactly when it is there
LEMMA RetuneKeeps ==
  ASSUME DictKeyAssumption, NEW d \in DRecord, NEW key \in DictKey, NEW K \in SUBSET DictKey,
         Tree(d.cmp, d.child, d.root, K), NEW d2, d2 = mowgli_dictionary_retune(d, key)
  PROVE  Retuned(d, d2, K, key)
<1> PICK c : c = d.cmp
  OBVIOUS
<1>1. c \in DOrder /\ d.child \in DChildren /\ Ordered(c) /\ DNull \notin DictKey
  BY Order, Apart DEF DRecord
<1>2. d.root = DNull <=> K = {}
  BY TreeRoot
<1>3. CASE K = {}
  <2>1. d2 = d
    BY <1>2, <1>3 DEF mowgli_dictionary_retune
  <2>2. d.root # key
    BY <1>1, <1>2, <1>3
  <2> QED
    BY <1>3, <2>1, <2>2 DEF Retuned, SameButTree, DFound
<1>4. CASE K # {}
  <2> PICK t : t = DDescend(d, key)
    OBVIOUS
  <2> PICK ch1 : ch1 = DReassemble(t.child, t.node, t.end, "r")
    OBVIOUS
  <2> PICK ch2 : ch2 = DReassemble(ch1, t.node, t.end, "l")
    OBVIOUS
  <2> PICK ch3 : ch3 = [s \in DSide |-> [ch2[s] EXCEPT ![DTmp] = DNull]]
    OBVIOUS
  <2>1. d2 = Reshape(d, t.node, ch3)
    BY <1>2, <1>4 DEF mowgli_dictionary_retune, Reshape
  <2>2. t \in RState /\ t.over /\ \E M, O : Retuning(c, key, K, t, M, O)
    BY <1>1, <1>4, DescendEnds
  <2>3. PICK M, O : Retuning(c, key, K, t, M, O)
    BY <2>2
  <2>4. Reshaped(c, K, key, ch3, t.node)
    BY <1>1, <2>2, <2>3, RetunedTree
  <2>5. t.node \in K /\ ch3 \in DChildren /\ t.node \in DPointer
    BY <2>4 DEF Reshaped, DPointer
  <2>6. d2 \in DRecord /\ d2.root = t.node /\ d2.child = ch3 /\ SameButTree(d, d2)
    <3>1. d \in DRecord /\ t.node \in DPointer /\ ch3 \in DChildren
          /\ d2 = Reshape(d, t.node, ch3)
      BY <2>1, <2>5
    <3> QED
      BY ONLY <3>1, ReshapeFields
  <2>7. t.node = key <=> key \in K
    BY <2>4, <2>5 DEF Reshaped, Beside
  <2>8. /\ Tree(d2.cmp, d2.child, d2.root, K) /\ Beside(d2.cmp, K, key, d2.root)
        /\ DFound(d2, key) <=> key \in K
    <3>1. d2.cmp = c
      BY <2>6 DEF SameButTree
    <3>2. Tree(c, ch3, t.node, K) /\ Beside(c, K, key, t.node)
      BY <2>4 DEF Reshaped
    <3> QED
      BY <2>6, <2>7, <3>1, <3>2 DEF DFound
  <2> QED
    BY ONLY <1>4, <2>5, <2>6, <2>8 DEF Retuned
<1> QED
  BY <1>3, <1>4

-----------------------------------------------------------------------------
(* The list.                                                               *)

\* n is the key of X that comes first on the way to side s
Nearest(c, X, s, n) ==
  IF X = {} THEN n = DNull ELSE n \in X /\ \A x \in X : x = n \/ Lies(c, s, x, n)

Chained(c, K, nbr, end) ==
  \A s \in DSide : /\ Nearest(c, K, DOther(s), end[s])
                   /\ \A e \in K : Nearest(c, Part(c, K, s, e), s, nbr[s][e])

\* the neighbour on one side has the element as neighbour on the other
LEMMA Mutual ==
  ASSUME NEW c, Ordered(c), DictKeyAssumption, NEW K \in SUBSET DictKey, NEW nbr, NEW end,
         Chained(c, K, nbr, end), NEW s \in DSide, NEW x \in K
  PROVE  nbr[s][x] \in K => nbr[DOther(s)][nbr[s][x]] = x
<1> SUFFICES ASSUME NEW y \in K, nbr[s][x] = y PROVE nbr[DOther(s)][y] = x
  OBVIOUS
<1> PICK o, z : o = DOther(s) /\ z = nbr[o][y]
  OBVIOUS
<1>1. o \in DSide /\ DOther(o) = s /\ DNull \notin DictKey
  BY Sides, Apart
<1>2. /\ Nearest(c, Part(c, K, s, x), s, y)
      /\ Nearest(c, Part(c, K, o, y), o, z)
  BY <1>1 DEF Chained
<1>3. Lies(c, s, y, x) /\ \A w \in K : Lies(c, s, w, x) => w = y \/ Lies(c, s, w, y)
  BY <1>1, <1>2 DEF Nearest, Part
<1>4. Lies(c, o, x, y)
  BY <1>1, <1>3 DEF Ordered
<1>5. z \in K /\ Lies(c, o, z, y) /\ (x = z \/ Lies(c, o, x, z))
  BY <1>2, <1>4 DEF Nearest, Part
<1>6. ASSUME Lies(c, o, x, z) PROVE FALSE
  <2>1. Lies(c, s, z, x)
    BY <1>1, <1>5, <1>6 DEF Ordered
  <2>2. z # y /\ ~Lies(c, s, z, y)
    BY <1>1, <1>5 DEF Ordered
  <2> QED
    BY <1>3, <1>5, <2>1, <2>2
<1> QED
  BY <1>5, <1>6

\* the neighbours when e is unchained
Unchained(K, e, nbr, end, nbr2, end2) ==
  \A s \in DSide :
    /\ end2[s] = IF end[s] = e THEN nbr[DOther(s)][e] ELSE end[s]
    /\ \A x \in K \ {e} : nbr2[s][x] = IF x = nbr[DOther(s)][e] THEN nbr[s][e] ELSE nbr[s][x]

\* the list when an element is unchained is the list of the other keys
LEMMA ChainWithout ==
  ASSUME NEW c, Ordered(c), DictKeyAssumption, NEW K \in SUBSET DictKey, NEW nbr, NEW end,
         Chained(c, K, nbr, end), NEW e \in K, NEW nbr2, NEW end2,
         Unchained(K, e, nbr, end, nbr2, end2)
  PROVE  Chained(c, K \ {e}, nbr2, end2)
<1> DEFINE H == K \ {e}
<1> SUFFICES ASSUME NEW s \in DSide
             PROVE  /\ Nearest(c, H, DOther(s), end2[s])
                    /\ \A x \in H : Nearest(c, Part(c, H, s, x), s, nbr2[s][x])
  BY DEF Chained
<1> PICK o : o = DOther(s)
  OBVIOUS
<1>1. o \in DSide /\ DOther(o) = s /\ DNull \notin DictKey
  BY Sides, Apart
<1>2. Nearest(c, H, o, end2[s])
  <2>1. Nearest(c, K, o, end[s])
    BY DEF Chained
  <2>2. CASE end[s] # e
    <3>1. end2[s] = end[s]
      BY <2>2 DEF Unchained
    <3> QED
      BY <2>1, <2>2, <3>1 DEF Nearest
  <2>3. CASE end[s] = e
    <3>1. end2[s] = nbr[o][e] /\ Nearest(c, Part(c, K, o, e), o, nbr[o][e])
      BY <1>1, <2>3 DEF Unchained, Chained
    <3>2. Part(c, K, o, e) = H
      <4>1. \A x \in K : x = e \/ Lies(c, o, x, e)
        BY <1>1, <2>1, <2>3 DEF Nearest
      <4>2. ~Lies(c, o, e, e)
        BY <1>1 DEF Ordered
      <4> QED
        BY ONLY <4>1, <4>2 DEF Part
    <3> QED
      BY <3>1, <3>2
  <2> QED
    BY <2>2, <2>3
<1>3. ASSUME NEW x \in H PROVE Nearest(c, Part(c, H, s, x), s, nbr2[s][x])
  <2> PICK m : m = nbr[s][x]
    OBVIOUS
  <2>1. Nearest(c, Part(c, K, s, x), s, m) /\ Part(c, H, s, x) = Part(c, K, s, x) \ {e}
    BY DEF Chained, Part
  <2>2. CASE m # e
    <3>1. x # nbr[o][e]
      <4>1. /\ Ordered(c) /\ DictKeyAssumption /\ K \in SUBSET DictKey
            /\ Chained(c, K, nbr, end) /\ o \in DSide /\ e \in K
        BY <1>1
      <4>2. nbr[o][e] \in K => nbr[DOther(o)][nbr[o][e]] = e
        BY ONLY <4>1, Mutual
      <4> QED
        BY <1>1, <2>2, <4>2
    <3>2. nbr2[s][x] = m
      BY <3>1 DEF Unchained
    <3> QED
      BY <2>1, <2>2, <3>2 DEF Nearest
  <2>3. CASE m = e
    <3>1. x = nbr[o][e]
      <4>1. /\ Ordered(c) /\ DictKeyAssumption /\ K \in SUBSET DictKey
            /\ Chained(c, K, nbr, end) /\ s \in DSide /\ x \in K
        OBVIOUS
      <4>2. nbr[s][x] \in K => nbr[DOther(s)][nbr[s][x]] = x
        BY ONLY <4>1, Mutual
      <4> QED
        BY <2>3, <4>2
    <3>2. nbr2[s][x] = nbr[s][e] /\ Nearest(c, Part(c, K, s, e), s, nbr[s][e])
      BY <3>1 DEF Unchained, Chained
    <3>3. e \in Part(c, K, s, x) /\ \A w \in Part(c, K, s, x) : w = e \/ Lies(c, s, w, e)
      BY <1>1, <2>1, <2>3 DEF Nearest
    <3>4. Part(c, K, s, x) \ {e} = Part(c, K, s, e)
      <4>1. \A w \in K : Lies(c, s, w, x) => w = e \/ Lies(c, s, w, e)
        BY <3>3 DEF Part
      <4>2. /\ Lies(c, s, e, x) /\ ~Lies(c, s, e, e)
            /\ \A w \in K : Lies(c, s, w, e) => Lies(c, s, w, x)
        BY <3>3 DEF Part, Ordered
      <4> QED
        BY ONLY <4>1, <4>2 DEF Part
    <3> QED
      BY <2>1, <3>2, <3>4
  <2> QED
    BY <2>2, <2>3
<1> QED
  BY <1>2, <1>3

-----------------------------------------------------------------------------
(* A new element.                                                          *)

\* the neighbours when e is put in beside r, on side s
Linked(K, e, r, s, nbr, end, nbr2, end2) ==
  LET o == DOther(s)
      p == nbr[s][r]
  IN  /\ end2[s] = IF p = DNull THEN e ELSE end[s]
      /\ end2[o] = end[o]
      /\ \A x \in K \cup {e} :
           /\ nbr2[s][x] = IF x = r THEN e ELSE IF x = e THEN p ELSE nbr[s][x]
           /\ nbr2[o][x] = IF x = e THEN r ELSE IF x = p THEN e ELSE nbr[o][x]

\* e is the nearest to r among the keys K and e, on side s
Next(c, K, e, r, s) ==
  Lies(c, s, e, r) /\ \A x \in K : Lies(c, s, x, r) => Lies(c, s, x, e)

\* which keys are on which side of e
LEMMA NextParts ==
  ASSUME NEW c, Ordered(c), NEW K \in SUBSET DictKey, NEW e \in DictKey, e \notin K,
         NEW r \in K, NEW s \in DSide, Next(c, K, e, r, s)
  PROVE  /\ \A x \in K : Lies(c, s, x, e) <=> Lies(c, s, x, r)
         /\ \A x \in K : Lies(c, DOther(s), x, e) <=> x = r \/ Lies(c, DOther(s), x, r)
         /\ Lies(c, DOther(s), r, e)
         /\ \A x \in K : Lies(c, s, x, r) \/ x = r \/ Lies(c, DOther(s), x, r)
<1> PICK o : o = DOther(s)
  OBVIOUS
<1>1. o \in DSide /\ DOther(o) = s
  BY Sides
<1>2. Lies(c, o, r, e)
  BY <1>1 DEF Ordered, Next
<1>3. \A x \in K : Lies(c, s, x, r) \/ x = r \/ Lies(c, o, x, r)
  BY <1>1 DEF Ordered
<1>4. \A x \in K : Lies(c, s, x, r) => Lies(c, s, x, e) /\ ~Lies(c, o, x, e)
  BY <1>1 DEF Ordered, Next
<1>5. \A x \in K : Lies(c, o, x, r) => Lies(c, o, x, e) /\ ~Lies(c, s, x, e)
  BY <1>1, <1>2 DEF Ordered
<1>6. ~Lies(c, s, r, e) /\ ~Lies(c, s, r, r) /\ ~Lies(c, o, r, r)
  BY <1>1, <1>2 DEF Ordered
<1>7. \A x \in K : ~(Lies(c, s, x, r) /\ Lies(c, o, x, r))
  BY <1>1 DEF Ordered
<1> QED
  BY ONLY <1>2, <1>3, <1>4, <1>5, <1>6, <1>7, o = DOther(s)

\* a key farther away does not change which one is nearest
LEMMA NearestMore ==
  ASSUME NEW c, Ordered(c), NEW X \in SUBSET DictKey, NEW e \in DictKey, NEW s \in DSide, NEW m,
         Nearest(c, X, s, m), NEW q \in X, Lies(c, s, e, q)
  PROVE  Nearest(c, X \cup {e}, s, m)
<1>1. m \in X /\ \A x \in X : x = m \/ Lies(c, s, x, m)
  BY DEF Nearest
<1>2. Lies(c, s, e, m)
  BY <1>1 DEF Ordered
<1> QED
  BY <1>1, <1>2 DEF Nearest

\* the list when a new element is linked beside r is the list of all the keys
LEMMA ChainWith ==
  ASSUME NEW c, Ordered(c), DictKeyAssumption, NEW K \in SUBSET DictKey, NEW nbr, NEW end,
         Chained(c, K, nbr, end), NEW e \in DictKey, e \notin K, NEW r \in K, NEW s \in DSide,
         Next(c, K, e, r, s), NEW nbr2, NEW end2, Linked(K, e, r, s, nbr, end, nbr2, end2)
  PROVE  Chained(c, K \cup {e}, nbr2, end2)
<1> DEFINE H == K \cup {e}
<1> PICK o, p : o = DOther(s) /\ p = nbr[s][r]
  OBVIOUS
<1>1. o \in DSide /\ DOther(o) = s /\ o # s /\ DNull \notin DictKey /\ \A t \in DSide : t = s \/ t = o
  BY Sides, Apart
<1>2. /\ \A x \in K : Lies(c, s, x, e) <=> Lies(c, s, x, r)
      /\ \A x \in K : Lies(c, o, x, e) <=> x = r \/ Lies(c, o, x, r)
      /\ Lies(c, o, r, e)
      /\ \A x \in K : Lies(c, s, x, r) \/ x = r \/ Lies(c, o, x, r)
  BY NextParts
<1>3. /\ Part(c, H, s, e) = Part(c, K, s, r)
      /\ Part(c, H, o, e) = Part(c, K, o, r) \cup {r}
      /\ Part(c, H, s, r) = Part(c, K, s, r) \cup {e}
  <2>1. /\ \A x : x \in H <=> x \in K \/ x = e
        /\ ~Lies(c, s, e, e) /\ ~Lies(c, o, e, e) /\ Lies(c, s, e, r)
    BY <1>1 DEF Ordered, Next
  <2> HIDE DEF H
  <2> QED
    BY ONLY <1>2, <2>1, r \in K DEF Part
<1>4. /\ end2[s] = IF p = DNull THEN e ELSE end[s]
      /\ end2[o] = end[o]
      /\ \A x \in H : /\ nbr2[s][x] = IF x = r THEN e ELSE IF x = e THEN p ELSE nbr[s][x]
                      /\ nbr2[o][x] = IF x = e THEN r ELSE IF x = p THEN e ELSE nbr[o][x]
  BY DEF Linked
<1>5. Nearest(c, Part(c, K, s, r), s, p)
  BY DEF Chained
<1>6. Lies(c, s, e, r)
  BY DEF Next
<1>7. p # DNull => p \in K /\ Lies(c, s, p, r) /\ Lies(c, o, e, p)
                   /\ \A x \in K : Lies(c, s, x, r) => x = p \/ Lies(c, s, x, p)
  <2>1. p # DNull => p \in K /\ Lies(c, s, p, r)
                     /\ \A x \in K : Lies(c, s, x, r) => x = p \/ Lies(c, s, x, p)
    BY <1>5 DEF Nearest, Part
  <2>2. p # DNull => Lies(c, o, e, p)
    BY <1>1, <1>2, <2>1 DEF Ordered
  <2> QED
    BY <2>1, <2>2
<1>8. p = DNull => \A x \in K : ~Lies(c, s, x, r)
  BY <1>1, <1>5 DEF Nearest, Part
<1>9. \A x \in K : /\ Nearest(c, Part(c, K, s, x), s, nbr[s][x])
                   /\ Nearest(c, Part(c, K, o, x), o, nbr[o][x])
  BY <1>1 DEF Chained
<1>10. ASSUME NEW x \in K, NEW t \in DSide
       PROVE Part(c, H, t, x) = IF Lies(c, t, e, x) THEN Part(c, K, t, x) \cup {e} ELSE Part(c, K, t, x)
  BY DEF Part
<1> HIDE DEF H
<1>11. ASSUME NEW x \in H PROVE Nearest(c, Part(c, H, s, x), s, nbr2[s][x])
  <2>1. CASE x = e
    <3>1. nbr2[s][e] = p
      BY <1>4, <2>1 DEF H
    <3> QED
      BY <1>3, <1>5, <2>1, <3>1
  <2>2. CASE x = r
    <3>1. nbr2[s][r] = e
      BY <1>4, <2>2
    <3>2. \A y \in Part(c, K, s, r) : Lies(c, s, y, e)
      BY DEF Part, Next
    <3>3. Nearest(c, Part(c, K, s, r) \cup {e}, s, e)
      BY <3>2 DEF Nearest
    <3> QED
      BY <1>3, <2>2, <3>1, <3>3
  <2>3. CASE x # e /\ x # r
    <3>1. x \in K /\ nbr2[s][x] = nbr[s][x]
      BY <1>4, <2>3 DEF H
    <3>2. CASE Lies(c, s, x, r)
      <4>1. ~Lies(c, s, e, x)
        BY <1>1, <1>2, <3>1, <3>2 DEF Ordered
      <4> QED
        BY <1>9, <1>10, <3>1, <4>1
    <3>3. CASE Lies(c, o, x, r)
      <4>1. r \in Part(c, K, s, x) /\ Lies(c, s, e, x)
        BY <1>1, <1>2, <1>6, <3>1, <3>3 DEF Part, Ordered
      <4>2. /\ Ordered(c) /\ Part(c, K, s, x) \in SUBSET DictKey /\ e \in DictKey /\ s \in DSide
            /\ Nearest(c, Part(c, K, s, x), s, nbr[s][x]) /\ r \in Part(c, K, s, x)
            /\ Lies(c, s, e, r)
        BY <1>6, <1>9, <3>1, <4>1 DEF Part
      <4>3. Nearest(c, Part(c, K, s, x) \cup {e}, s, nbr[s][x])
        BY ONLY <4>2, NearestMore
      <4> QED
        BY <1>10, <3>1, <4>1, <4>3
    <3> QED
      BY <1>2, <2>3, <3>1, <3>2, <3>3
  <2> QED
    BY <2>1, <2>2, <2>3
<1>12. ASSUME NEW x \in H PROVE Nearest(c, Part(c, H, o, x), o, nbr2[o][x])
  <2>1. CASE x = e
    <3>1. nbr2[o][e] = r
      BY <1>4, <2>1 DEF H
    <3>2. Nearest(c, Part(c, K, o, r) \cup {r}, o, r)
      BY DEF Nearest, Part
    <3> QED
      BY <1>3, <2>1, <3>1, <3>2
  <2>2. CASE x # e /\ x = p
    <3>1. x \in K /\ nbr2[o][x] = e /\ p # DNull
      BY <1>1, <1>4, <2>2 DEF H
    <3>2. \A y \in K : Lies(c, o, y, x) => Lies(c, o, y, e)
      BY <1>1, <1>2, <1>7, <2>2, <3>1 DEF Ordered
    <3>3. Nearest(c, Part(c, K, o, x) \cup {e}, o, e)
      BY <3>2 DEF Nearest, Part
    <3> QED
      BY <1>1, <1>7, <1>10, <2>2, <3>1, <3>3
  <2>3. CASE x # e /\ x # p
    <3>1. x \in K /\ nbr2[o][x] = nbr[o][x]
      BY <1>4, <2>3 DEF H
    <3>2. CASE ~Lies(c, s, x, r)
      <4>1. ~Lies(c, o, e, x)
        BY <1>1, <1>2, <3>1, <3>2 DEF Ordered
      <4> QED
        BY <1>1, <1>9, <1>10, <3>1, <4>1
    <3>3. CASE Lies(c, s, x, r)
      <4>1. p # DNull /\ p \in Part(c, K, o, x) /\ Lies(c, o, e, p) /\ Lies(c, o, e, x)
        <5>1. p # DNull /\ p \in K /\ Lies(c, s, x, p) /\ Lies(c, o, e, p)
          BY <1>7, <1>8, <2>3, <3>1, <3>3
        <5>2. Lies(c, o, p, x)
          BY <1>1, <3>1, <5>1 DEF Ordered
        <5>3. Lies(c, o, e, x)
          BY <1>1, <1>2, <3>1, <3>3 DEF Ordered
        <5> QED
          BY <5>1, <5>2, <5>3 DEF Part
      <4>2. /\ Ordered(c) /\ Part(c, K, o, x) \in SUBSET DictKey /\ e \in DictKey /\ o \in DSide
            /\ Nearest(c, Part(c, K, o, x), o, nbr[o][x]) /\ p \in Part(c, K, o, x)
            /\ Lies(c, o, e, p)
        BY <1>1, <1>9, <3>1, <4>1 DEF Part
      <4>3. Nearest(c, Part(c, K, o, x) \cup {e}, o, nbr[o][x])
        BY ONLY <4>2, NearestMore
      <4> QED
        BY <1>1, <1>10, <3>1, <4>1, <4>3
    <3> QED
      BY <3>2, <3>3
  <2> QED
    BY <2>1, <2>2, <2>3
<1>13. Nearest(c, H, o, end2[s])
  <2>1. Nearest(c, K, o, end[s])
    BY DEF Chained
  <2>2. CASE p = DNull
    <3>1. end2[s] = e /\ \A x \in K : Lies(c, o, x, e)
      BY <1>2, <1>4, <1>8, <2>2
    <3> QED
      BY <3>1 DEF Nearest, H
  <2>3. CASE p # DNull
    <3>1. /\ Ordered(c) /\ K \in SUBSET DictKey /\ e \in DictKey /\ o \in DSide
          /\ Nearest(c, K, o, end[s]) /\ p \in K /\ Lies(c, o, e, p) /\ end2[s] = end[s]
      BY <1>1, <1>4, <1>7, <2>1, <2>3
    <3>2. Nearest(c, K \cup {e}, o, end[s])
      BY ONLY <3>1, NearestMore
    <3> QED
      BY <3>1, <3>2 DEF H
  <2> QED
    BY <2>2, <2>3
<1>14. Nearest(c, H, s, end2[o])
  <2>1. /\ Ordered(c) /\ K \in SUBSET DictKey /\ e \in DictKey /\ s \in DSide
        /\ Nearest(c, K, s, end[o]) /\ r \in K /\ Lies(c, s, e, r) /\ end2[o] = end[o]
    BY <1>1, <1>4, <1>6 DEF Chained
  <2>2. Nearest(c, K \cup {e}, s, end[o])
    BY ONLY <2>1, NearestMore
  <2> QED
    BY <2>1, <2>2 DEF H
<1>15. \A t \in DSide : /\ Nearest(c, H, DOther(t), end2[t])
                        /\ \A x \in H : Nearest(c, Part(c, H, t, x), t, nbr2[t][x])
  BY <1>1, <1>11, <1>12, <1>13, <1>14
<1> QED
  BY ONLY <1>15 DEF Chained, H

\* the children when e is put in above r, with what is on side s of r
Raised(K, e, r, s, ch, ch2) ==
  \A x \in K \cup {e} :
    /\ ch2[s][x] = IF x = r THEN DNull ELSE IF x = e THEN ch[s][r] ELSE ch[s][x]
    /\ ch2[DOther(s)][x] = IF x = e THEN r ELSE ch[DOther(s)][x]

\* the tree when a new element is put on top, between the subtrees of the old root
LEMMA TreeLink ==
  ASSUME NEW c, Ordered(c), DictKeyAssumption, NEW K \in SUBSET DictKey, NEW e \in DictKey, e \notin K,
         NEW r \in K, NEW s \in DSide, Next(c, K, e, r, s), NEW ch, Tree(c, ch, r, K),
         NEW ch2, Raised(K, e, r, s, ch, ch2)
  PROVE  Tree(c, ch2, e, K \cup {e})
<1> PICK o, A, B : o = DOther(s) /\ A = Part(c, K, s, r) /\ B = Part(c, K, o, r)
  OBVIOUS
<1>1. o \in DSide /\ DOther(o) = s /\ o # s /\ \A t \in DSide : t = s \/ t = o
  BY Sides
<1>2. /\ \A x \in K : Lies(c, s, x, e) <=> Lies(c, s, x, r)
      /\ \A x \in K : Lies(c, o, x, e) <=> x = r \/ Lies(c, o, x, r)
      /\ Lies(c, o, r, e)
      /\ \A x \in K : Lies(c, s, x, r) \/ x = r \/ Lies(c, o, x, r)
  BY NextParts
<1>3. Tree(c, ch, ch[s][r], A) /\ Tree(c, ch, ch[o][r], B)
  BY <1>1, TreeSplit
<1>4. /\ A \in SUBSET DictKey /\ B \in SUBSET DictKey /\ A \subseteq K /\ B \subseteq K
      /\ r \notin A /\ r \notin B /\ e \notin A /\ e \notin B
      /\ \A x \in A : Lies(c, s, x, r) /\ Lies(c, s, x, e)
      /\ \A x \in B : Lies(c, o, x, r) /\ Lies(c, o, x, e)
  <2>1. ~Lies(c, s, r, r) /\ ~Lies(c, o, r, r)
    BY <1>1 DEF Ordered
  <2> QED
    BY <1>2, <2>1 DEF Part
<1>5. /\ \A x \in K : x # r => ch2[s][x] = ch[s][x]
      /\ \A x \in K : ch2[o][x] = ch[o][x]
      /\ ch2[s][r] = DNull /\ ch2[s][e] = ch[s][r] /\ ch2[o][e] = r
  BY DEF Raised
<1>6. Alike(ch, ch2, A) /\ Alike(ch, ch2, B)
  BY <1>1, <1>4, <1>5 DEF Alike
<1>7. Tree(c, ch2, ch[s][r], A) /\ Tree(c, ch2, ch[o][r], B)
  BY <1>3, <1>6, TreeAlike
<1>8. Tree(c, ch2, r, B \cup {r})
  <2> PICK E : E = {}
    OBVIOUS
  <2>1. /\ Ordered(c) /\ r \in DictKey /\ s \in DSide /\ E \in SUBSET DictKey /\ B \in SUBSET DictKey
        /\ Tree(c, ch2, ch2[s][r], E) /\ Tree(c, ch2, ch2[DOther(s)][r], B)
        /\ \A x \in E : Lies(c, s, x, r)
        /\ \A x \in B : Lies(c, DOther(s), x, r)
    BY <1>4, <1>5, <1>7, TreeEmpty
  <2>2. Tree(c, ch2, r, E \cup B \cup {r})
    BY ONLY <2>1, TreeJoin
  <2> QED
    BY <2>2
<1>9. Tree(c, ch2, e, A \cup (B \cup {r}) \cup {e})
  <2> PICK H : H = B \cup {r}
    OBVIOUS
  <2>1. /\ Ordered(c) /\ e \in DictKey /\ s \in DSide /\ A \in SUBSET DictKey /\ H \in SUBSET DictKey
        /\ Tree(c, ch2, ch2[s][e], A) /\ Tree(c, ch2, ch2[DOther(s)][e], H)
        /\ \A x \in A : Lies(c, s, x, e)
        /\ \A x \in H : Lies(c, DOther(s), x, e)
    BY <1>2, <1>4, <1>5, <1>7, <1>8
  <2>2. Tree(c, ch2, e, A \cup H \cup {e})
    BY ONLY <2>1, TreeJoin
  <2> QED
    BY <2>2
<1>10. A \cup (B \cup {r}) \cup {e} = K \cup {e}
  BY <1>2, <1>4 DEF Part
<1> QED
  BY <1>9, <1>10

\* a function changed at one point keeps its type
LEMMA PutOne ==
  ASSUME NEW D, NEW V, NEW f \in [D -> V], NEW a \in D, NEW v \in V, NEW g, g = [f EXCEPT ![a] = v]
  PROVE  g \in [D -> V] /\ \A x \in D : g[x] = IF x = a THEN v ELSE f[x]
OBVIOUS

\* a function changed at two points keeps its type
LEMMA PutTwo ==
  ASSUME NEW D, NEW V, NEW f \in [D -> V], NEW a \in D, NEW v \in V, NEW b \in D, NEW w \in V,
         NEW g, g = [f EXCEPT ![a] = v, ![b] = w]
  PROVE  /\ g \in [D -> V]
         /\ \A x \in D : g[x] = IF x = b THEN w ELSE IF x = a THEN v ELSE f[x]
OBVIOUS

Raise(d, e, r, s, o, cs, ns, no, en) ==
  [d EXCEPT !.child[s] = cs, !.child[o][e] = r, !.nbr[s] = ns, !.nbr[o] = no,
            !.end[s] = en, !.root = e, !.count = @ + 1, !.dirty = TRUE]

\* d has the fields of a dictionary
IsDict(d, cmp, root, count, dirty, child, nbr, end, position) ==
  d = [cmp |-> cmp, root |-> root, count |-> count, dirty |-> dirty, child |-> child,
       nbr |-> nbr, end |-> end, position |-> position]

Whole(d) == \E cmp, root, count, dirty, child, nbr, end, position :
              IsDict(d, cmp, root, count, dirty, child, nbr, end, position)

\* a dictionary has its fields and no other
LEMMA WholeRecord ==
  ASSUME NEW d \in DRecord PROVE Whole(d)
<1>1. IsDict(d, d.cmp, d.root, d.count, d.dirty, d.child, d.nbr, d.end, d.position)
  BY DEF DRecord, IsDict
<1> QED
  BY ONLY <1>1 DEF Whole

\* its fields have their types
Typed(d) ==
  /\ d.cmp \in DOrder /\ d.root \in DPointer /\ d.count \in Nat /\ d.dirty \in BOOLEAN
  /\ d.child \in DChildren /\ d.nbr \in [DSide -> [DictKey -> DPointer]]
  /\ d.end \in [DSide -> DPointer] /\ d.position \in [DictKey -> Nat]

\* a record with the fields of a dictionary, of their types, is one
LEMMA WholeTyped ==
  ASSUME NEW d, Whole(d), Typed(d)
  PROVE  d \in DRecord
<1>1. PICK cmp, root, count, dirty, child, nbr, end, position :
        IsDict(d, cmp, root, count, dirty, child, nbr, end, position)
  BY DEF Whole
<1> QED
  BY <1>1 DEF DRecord, IsDict, Typed

\* a new root is a change of the fields of a dictionary
LEMMA RaiseWhole ==
  ASSUME NEW d, Whole(d), NEW e, NEW r, NEW s, NEW o, NEW cs, NEW ns, NEW no, NEW en
  PROVE  Whole(Raise(d, e, r, s, o, cs, ns, no, en))
<1>1. PICK cmp, root, count, dirty, child, nbr, end, position :
        IsDict(d, cmp, root, count, dirty, child, nbr, end, position)
  BY DEF Whole
<1> PICK v : v = Raise(d, e, r, s, o, cs, ns, no, en)
  OBVIOUS
<1>2. v = [cmp |-> cmp, root |-> e, count |-> count + 1, dirty |-> TRUE, child |-> v.child,
           nbr |-> v.nbr, end |-> v.end, position |-> position]
  BY <1>1, ZenonT(30) DEF Raise, IsDict
<1>3. IsDict(v, cmp, e, count + 1, TRUE, v.child, v.nbr, v.end, position)
  BY <1>2 DEF IsDict
<1> QED
  BY ONLY <1>3, v = Raise(d, e, r, s, o, cs, ns, no, en) DEF Whole

\* what mowgli_dictionary_link does to each field, beside the old root
LEMMA LinkAtFields ==
  ASSUME DictKeyAssumption, NEW d \in DRecord, NEW e \in DictKey, d.root \in DictKey,
         e # d.root, NEW s \in DSide, NEW d2, d2 = DLinkAt(d, e, s)
  PROVE  /\ d2 \in DRecord /\ d2.cmp = d.cmp /\ d2.root = e
         /\ d2.count = d.count + 1 /\ d2.dirty
         /\ Raised(DictKey, e, d.root, s, d.child, d2.child)
         /\ Linked(DictKey, e, d.root, s, d.nbr, d.end, d2.nbr, d2.end)
<1> PICK r : r = d.root
  OBVIOUS
<1> PICK o, p : o = DOther(s) /\ p = d.nbr[s][r]
  OBVIOUS
<1>1. o \in DSide /\ s # o /\ DSide = {s, o} /\ DNull \notin DictKey
  BY Sides, Apart
<1>2. /\ d.child \in DChildren /\ d.nbr \in [DSide -> [DictKey -> DPointer]]
      /\ d.end \in [DSide -> DPointer] /\ d.count \in Nat /\ p \in DPointer
      /\ DictKey \subseteq DPlace /\ DictKey \subseteq DPointer /\ DNull \in DPointer
  BY DEF DRecord, DPlace, DPointer
<1> PICK cs : cs = [d.child[s] EXCEPT ![e] = d.child[s][r], ![r] = DNull]
  OBVIOUS
<1> PICK co : co = [d.child[o] EXCEPT ![e] = r]
  OBVIOUS
<1> PICK ns : ns = [d.nbr[s] EXCEPT ![e] = p, ![r] = e]
  OBVIOUS
<1> PICK far : far = [d.nbr[o] EXCEPT ![e] = r]
  OBVIOUS
<1> PICK no : no = IF p = DNull THEN far ELSE [far EXCEPT ![p] = e]
  OBVIOUS
<1> PICK en : en = IF p = DNull THEN e ELSE d.end[s]
  OBVIOUS
<1>3. /\ cs \in [DPlace -> DPointer] /\ co \in [DPlace -> DPointer]
      /\ \A x \in DictKey : /\ cs[x] = IF x = r THEN DNull ELSE IF x = e THEN d.child[s][r] ELSE d.child[s][x]
                            /\ co[x] = IF x = e THEN r ELSE d.child[o][x]
  <2>1. d.child[s] \in [DPlace -> DPointer] /\ d.child[o] \in [DPlace -> DPointer]
    BY <1>1, <1>2 DEF DChildren
  <2>2. e \in DPlace /\ r \in DPlace /\ d.child[s][r] \in DPointer /\ r \in DPointer
    BY <1>2, <2>1
  <2>3. cs \in [DPlace -> DPointer]
        /\ \A x \in DPlace : cs[x] = IF x = r THEN DNull ELSE IF x = e THEN d.child[s][r] ELSE d.child[s][x]
    BY <1>2, <2>1, <2>2, PutTwo
  <2>4. co \in [DPlace -> DPointer] /\ \A x \in DPlace : co[x] = IF x = e THEN r ELSE d.child[o][x]
    BY <2>1, <2>2, PutOne
  <2> QED
    BY <1>2, <2>3, <2>4
<1>4. /\ ns \in [DictKey -> DPointer] /\ far \in [DictKey -> DPointer] /\ en \in DPointer
      /\ \A x \in DictKey : ns[x] = IF x = r THEN e ELSE IF x = e THEN p ELSE d.nbr[s][x]
      /\ \A x \in DictKey : far[x] = IF x = e THEN r ELSE d.nbr[o][x]
  <2>1. d.nbr[s] \in [DictKey -> DPointer] /\ d.nbr[o] \in [DictKey -> DPointer] /\ e \in DPointer /\ r \in DPointer
    BY <1>1, <1>2
  <2>2. ns \in [DictKey -> DPointer]
        /\ \A x \in DictKey : ns[x] = IF x = r THEN e ELSE IF x = e THEN p ELSE d.nbr[s][x]
    BY <1>2, <2>1, PutTwo
  <2>3. far \in [DictKey -> DPointer] /\ \A x \in DictKey : far[x] = IF x = e THEN r ELSE d.nbr[o][x]
    BY <2>1, PutOne
  <2>4. en \in DPointer
    BY <1>2, <2>1
  <2> QED
    BY <2>2, <2>3, <2>4
<1>5. /\ no \in [DictKey -> DPointer]
      /\ \A x \in DictKey : no[x] = IF x = p THEN e ELSE far[x]
  <2>1. CASE p = DNull
    BY <1>1, <1>4, <2>1
  <2>2. CASE p # DNull
    <3>1. p \in DictKey /\ e \in DPointer /\ far \in [DictKey -> DPointer] /\ no = [far EXCEPT ![p] = e]
      BY <1>2, <1>4, <2>2 DEF DPointer
    <3> QED
      BY ONLY <3>1, PutOne
  <2> QED
    BY <2>1, <2>2
<1>6. /\ d2.cmp = d.cmp /\ d2.root = e /\ d2.count = d.count + 1 /\ d2.dirty = TRUE
      /\ d2.position = d.position
      /\ d2.child \in [DSide -> [DPlace -> DPointer]] /\ d2.child[s] = cs /\ d2.child[o] = co
      /\ d2.nbr \in [DSide -> [DictKey -> DPointer]] /\ d2.nbr[s] = ns /\ d2.nbr[o] = no
      /\ d2.end \in [DSide -> DPointer] /\ d2.end[s] = en /\ d2.end[o] = d.end[o]
  <2>1. d2.cmp = d.cmp /\ d2.root = e /\ d2.count = d.count + 1 /\ d2.dirty = TRUE
        /\ d2.position = d.position
    BY DEF DLinkAt, DRecord
  <2>2. d2.child = [[d.child EXCEPT ![s] = cs] EXCEPT ![o] = [@ EXCEPT ![e] = r]]
    BY DEF DLinkAt, DRecord
  <2>3. d2.child \in [DSide -> [DPlace -> DPointer]] /\ d2.child[s] = cs /\ d2.child[o] = co
    <3>1. d.child \in [DSide -> [DPlace -> DPointer]] /\ s \in DSide /\ o \in DSide
          /\ cs \in [DPlace -> DPointer] /\ co \in [DPlace -> DPointer] /\ s # o
      BY <1>1, <1>2, <1>3 DEF DChildren
    <3> PICK f : f = [d.child EXCEPT ![s] = cs]
      OBVIOUS
    <3>2. f[o] = d.child[o]
      BY <3>1
    <3>3. d2.child = [f EXCEPT ![o] = co]
      <4>1. d2.child = [f EXCEPT ![o] = [f[o] EXCEPT ![e] = r]]
        BY <2>2
      <4> QED
        BY <3>2, <4>1
    <3>4. d2.child \in [DSide -> [DPlace -> DPointer]]
          /\ \A t \in DSide : d2.child[t] = IF t = o THEN co ELSE f[t]
      <4>1. f \in [DSide -> [DPlace -> DPointer]]
        BY <3>1
      <4> QED
        BY ONLY <3>1, <3>3, <4>1, PutOne
    <3>5. f[s] = cs
      BY <3>1
    <3> QED
      BY <3>1, <3>4, <3>5
  <2>4. d2.nbr = [[d.nbr EXCEPT ![s] = ns] EXCEPT ![o] = no]
    BY DEF DLinkAt, DRecord
  <2>5. d2.nbr \in [DSide -> [DictKey -> DPointer]] /\ d2.nbr[s] = ns /\ d2.nbr[o] = no
    <3>1. d.nbr \in [DSide -> [DictKey -> DPointer]] /\ s \in DSide /\ o \in DSide /\ s # o
          /\ ns \in [DictKey -> DPointer] /\ no \in [DictKey -> DPointer]
      BY <1>1, <1>2, <1>4, <1>5
    <3> PICK f : f = [d.nbr EXCEPT ![s] = ns]
      OBVIOUS
    <3>2. d2.nbr = [f EXCEPT ![o] = no]
      BY <2>4
    <3>3. f \in [DSide -> [DictKey -> DPointer]] /\ \A t \in DSide : f[t] = IF t = s THEN ns ELSE d.nbr[t]
      BY ONLY <3>1, f = [d.nbr EXCEPT ![s] = ns], PutOne
    <3>4. d2.nbr \in [DSide -> [DictKey -> DPointer]]
          /\ \A t \in DSide : d2.nbr[t] = IF t = o THEN no ELSE f[t]
      BY ONLY <3>1, <3>2, <3>3, PutOne
    <3> QED
      BY ONLY <3>1, <3>3, <3>4
  <2>6. d2.end = [d.end EXCEPT ![s] = en]
    BY DEF DLinkAt, DRecord
  <2>7. d2.end \in [DSide -> DPointer] /\ d2.end[s] = en /\ d2.end[o] = d.end[o]
    BY <1>1, <1>2, <1>4, <2>6
  <2> QED
    BY <2>1, <2>3, <2>5, <2>7
<1>7. d2 \in DRecord
  <2>1. Whole(d2)
    <3>1. d2 = Raise(d, e, r, s, o, cs, ns, no, en)
      BY DEF DLinkAt, Raise
    <3>2. Whole(d)
      BY WholeRecord
    <3>3. Whole(Raise(d, e, r, s, o, cs, ns, no, en))
      BY ONLY <3>2, RaiseWhole
    <3> QED
      BY ONLY <3>1, <3>3
  <2>2. Typed(d2)
    <3>1. d.cmp \in DOrder /\ d.count + 1 \in Nat /\ d.position \in [DictKey -> Nat] /\ e \in DPointer
          /\ TRUE \in BOOLEAN
      BY <1>2 DEF DRecord
    <3> QED
      BY ONLY <1>6, <3>1, e \in DPointer DEF DChildren, Typed
  <2> QED
    BY ONLY <2>1, <2>2, WholeTyped
<1>8. Raised(DictKey, e, r, s, d.child, d2.child)
  <2>1. \A x \in DictKey \cup {e} : x \in DictKey
    OBVIOUS
  <2>2. \A x \in DictKey :
          /\ d2.child[s][x] = IF x = r THEN DNull ELSE IF x = e THEN d.child[s][r] ELSE d.child[s][x]
          /\ d2.child[o][x] = IF x = e THEN r ELSE d.child[o][x]
    <3>1. d2.child[s] = cs /\ d2.child[o] = co
      BY <1>6
    <3>2. \A x \in DictKey : /\ cs[x] = IF x = r THEN DNull ELSE IF x = e THEN d.child[s][r] ELSE d.child[s][x]
                             /\ co[x] = IF x = e THEN r ELSE d.child[o][x]
      BY <1>3
    <3> QED
      BY ONLY <3>1, <3>2
  <2> QED
    BY ONLY <2>1, <2>2, o = DOther(s) DEF Raised
<1>9. Linked(DictKey, e, r, s, d.nbr, d.end, d2.nbr, d2.end)
  BY <1>4, <1>5, <1>6 DEF Linked
<1> QED
  BY <1>6, <1>7, <1>8, <1>9

-----------------------------------------------------------------------------
(* What a dictionary is.                                                   *)

\* d holds the keys K: in its tree, in its list, and counted
Dict(d, K) ==
  /\ d \in DRecord /\ K \in SUBSET DictKey
  /\ Tree(d.cmp, d.child, d.root, K)
  /\ Chained(d.cmp, K, d.nbr, d.end)
  /\ d.count = Cardinality(K)

\* sets of keys are finite, and grow and shrink one by one
LEMMA KeysFinite ==
  ASSUME DictKeyAssumption, NEW K \in SUBSET DictKey
  PROVE  /\ IsFiniteSet(K) /\ Cardinality(K) \in Nat
         /\ \A e : e \notin K => Cardinality(K \cup {e}) = Cardinality(K) + 1
         /\ \A e : e \in K => Cardinality(K \ {e}) = Cardinality(K) - 1
<1>1. IsFiniteSet(K)
  BY FS_Subset DEF DictKeyAssumption
<1> QED
  BY <1>1, FS_CardinalityType, FS_AddElement, FS_RemoveElement

\* the first element
LinkFirst(d, e) ==
  [d EXCEPT !.root = e, !.end = [s \in DSide |-> e], !.count = @ + 1, !.dirty = TRUE,
            !.child = [s \in DSide |-> [@[s] EXCEPT ![e] = DNull]],
            !.nbr = [s \in DSide |-> [@[s] EXCEPT ![e] = DNull]]]

\* the first element is a change of the fields of a dictionary
LEMMA FirstWhole ==
  ASSUME NEW d, Whole(d), NEW e
  PROVE  Whole(LinkFirst(d, e))
<1>1. PICK cmp, root, count, dirty, child, nbr, end, position :
        IsDict(d, cmp, root, count, dirty, child, nbr, end, position)
  BY DEF Whole
<1> PICK v : v = LinkFirst(d, e)
  OBVIOUS
<1>2. v = [cmp |-> cmp, root |-> e, count |-> count + 1, dirty |-> TRUE, child |-> v.child,
           nbr |-> v.nbr, end |-> v.end, position |-> position]
  BY <1>1 DEF LinkFirst, IsDict
<1>3. IsDict(v, cmp, e, count + 1, TRUE, v.child, v.nbr, v.end, position)
  BY <1>2 DEF IsDict
<1> QED
  BY ONLY <1>3, v = LinkFirst(d, e) DEF Whole

\* what mowgli_dictionary_link does to each field of an empty dictionary
LEMMA FirstFields ==
  ASSUME DictKeyAssumption, NEW d \in DRecord, NEW e \in DictKey, NEW d2, d2 = LinkFirst(d, e)
  PROVE  /\ d2 \in DRecord /\ d2.cmp = d.cmp /\ d2.root = e
         /\ d2.count = d.count + 1 /\ d2.dirty
         /\ \A s \in DSide : d2.child[s][e] = DNull /\ d2.nbr[s][e] = DNull /\ d2.end[s] = e
<1>1. /\ d.child \in [DSide -> [DPlace -> DPointer]] /\ d.nbr \in [DSide -> [DictKey -> DPointer]]
      /\ d.end \in [DSide -> DPointer] /\ d.count \in Nat /\ d.cmp \in DOrder
      /\ d.position \in [DictKey -> Nat]
      /\ DictKey \subseteq DPlace /\ e \in DPointer /\ DNull \in DPointer /\ e \in DPlace
  BY DEF DRecord, DPlace, DPointer, DChildren
<1>2. /\ d2.cmp = d.cmp /\ d2.root = e /\ d2.count = d.count + 1 /\ d2.dirty = TRUE
      /\ d2.position = d.position
  BY DEF LinkFirst, DRecord
<1>3. d2.child \in [DSide -> [DPlace -> DPointer]] /\ \A s \in DSide : d2.child[s][e] = DNull
  <2>1. d2.child = [s \in DSide |-> [d.child[s] EXCEPT ![e] = DNull]]
    BY DEF LinkFirst, DRecord
  <2> QED
    BY <1>1, <2>1
<1>4. d2.nbr \in [DSide -> [DictKey -> DPointer]] /\ \A s \in DSide : d2.nbr[s][e] = DNull
  <2>1. d2.nbr = [s \in DSide |-> [d.nbr[s] EXCEPT ![e] = DNull]]
    BY DEF LinkFirst, DRecord
  <2> QED
    BY <1>1, <2>1
<1>5. d2.end \in [DSide -> DPointer] /\ \A s \in DSide : d2.end[s] = e
  <2>1. d2.end = [s \in DSide |-> e]
    BY DEF LinkFirst, DRecord
  <2> QED
    BY <1>1, <2>1
<1>6. d2 \in DRecord
  <2>1. Whole(d)
    BY WholeRecord
  <2>2. Whole(LinkFirst(d, e))
    BY ONLY <2>1, FirstWhole
  <2>3. Typed(d2)
    <3>1. d.count + 1 \in Nat /\ TRUE \in BOOLEAN
      BY <1>1
    <3> QED
      BY ONLY <1>1, <1>2, <1>3, <1>4, <1>5, <3>1 DEF DChildren, Typed
  <2>4. d2 = LinkFirst(d, e)
    OBVIOUS
  <2> QED
    BY ONLY <2>2, <2>3, <2>4, WholeTyped
<1> QED
  BY <1>2, <1>3, <1>4, <1>5, <1>6

\* the first element is linked
LEMMA LinkEmpty ==
  ASSUME DictKeyAssumption, NEW d, NEW K, Dict(d, K), K = {}, NEW e \in DictKey, NEW d2, d2 = LinkFirst(d, e)
  PROVE  Dict(d2, {e}) /\ d2.cmp = d.cmp /\ d2.dirty
<1>0. d \in DRecord
  BY DEF Dict
<1> PICK E, H, c : E = {} /\ H = {e} /\ c = d.cmp
  OBVIOUS
<1>1. /\ d2 \in DRecord /\ d2.cmp = c /\ d2.root = e
      /\ d2.count = d.count + 1 /\ d2.dirty
      /\ \A s \in DSide : d2.child[s][e] = DNull /\ d2.nbr[s][e] = DNull /\ d2.end[s] = e
  BY <1>0, FirstFields
<1>2. Ordered(c)
  BY Order DEF Dict, DRecord
<1>3. Tree(c, d2.child, e, H)
  <2>1. /\ Ordered(c) /\ e \in DictKey /\ "l" \in DSide /\ E \in SUBSET DictKey
        /\ Tree(c, d2.child, d2.child["l"][e], E) /\ Tree(c, d2.child, d2.child[DOther("l")][e], E)
        /\ \A x \in E : Lies(c, "l", x, e)
        /\ \A x \in E : Lies(c, DOther("l"), x, e)
    BY <1>1, <1>2, TreeEmpty, Sides
  <2>2. Tree(c, d2.child, e, E \cup E \cup {e})
    BY ONLY <2>1, TreeJoin
  <2> QED
    BY <2>2
<1>4. Chained(c, H, d2.nbr, d2.end)
  <2>1. \A s \in DSide : Part(c, H, s, e) = {}
    BY <1>2 DEF Part, Ordered
  <2> QED
    BY <1>1, <2>1 DEF Chained, Nearest
<1>5. d2.count = Cardinality(H)
  <2>1. d.count = Cardinality(E) /\ Cardinality(E) = 0
    BY FS_EmptySet DEF Dict
  <2>2. Cardinality(H) = Cardinality(E) + 1
    BY KeysFinite
  <2> QED
    BY <1>1, <2>1, <2>2
<1> QED
  BY <1>1, <1>3, <1>4, <1>5 DEF Dict

\* an element is linked beside the root retune has left there
LEMMA LinkAt ==
  ASSUME DictKeyAssumption, NEW d, NEW K, Dict(d, K), NEW e \in DictKey, e \notin K,
         d.root \in K, NEW s \in DSide, Next(d.cmp, K, e, d.root, s), NEW d2, d2 = DLinkAt(d, e, s)
  PROVE  Dict(d2, K \cup {e}) /\ d2.cmp = d.cmp /\ d2.dirty
<1> PICK c, r, H : c = d.cmp /\ r = d.root /\ H = K \cup {e}
  OBVIOUS
<1>1. d \in DRecord /\ K \in SUBSET DictKey /\ r \in K /\ r \in DictKey /\ e # r
  BY DEF Dict
<1>2. /\ d2 \in DRecord /\ d2.cmp = c /\ d2.root = e
      /\ d2.count = d.count + 1 /\ d2.dirty
      /\ Raised(DictKey, e, r, s, d.child, d2.child)
      /\ Linked(DictKey, e, r, s, d.nbr, d.end, d2.nbr, d2.end)
  <2>1. /\ DictKeyAssumption /\ d \in DRecord /\ e \in DictKey /\ d.root \in DictKey
        /\ e # d.root /\ s \in DSide /\ d2 = DLinkAt(d, e, s)
    BY <1>1
  <2>2. /\ d2 \in DRecord /\ d2.cmp = d.cmp /\ d2.root = e
        /\ d2.count = d.count + 1 /\ d2.dirty
        /\ Raised(DictKey, e, d.root, s, d.child, d2.child)
        /\ Linked(DictKey, e, d.root, s, d.nbr, d.end, d2.nbr, d2.end)
    BY ONLY <2>1, LinkAtFields
  <2> QED
    BY <2>2
<1>3. Raised(K, e, r, s, d.child, d2.child) /\ Linked(K, e, r, s, d.nbr, d.end, d2.nbr, d2.end)
  BY <1>1, <1>2 DEF Raised, Linked
<1>4. Ordered(c) /\ Tree(c, d.child, r, K) /\ Chained(c, K, d.nbr, d.end) /\ Next(c, K, e, r, s)
  BY Order DEF Dict, DRecord
<1>5. Tree(c, d2.child, e, K \cup {e})
  <2>1. /\ Ordered(c) /\ DictKeyAssumption /\ K \in SUBSET DictKey /\ e \in DictKey /\ e \notin K
        /\ r \in K /\ s \in DSide /\ Next(c, K, e, r, s) /\ Tree(c, d.child, r, K)
        /\ Raised(K, e, r, s, d.child, d2.child)
    BY <1>1, <1>3, <1>4
  <2> QED
    BY ONLY <2>1, TreeLink
<1>6. Chained(c, K \cup {e}, d2.nbr, d2.end)
  <2>1. /\ Ordered(c) /\ DictKeyAssumption /\ K \in SUBSET DictKey /\ e \in DictKey /\ e \notin K
        /\ r \in K /\ s \in DSide /\ Next(c, K, e, r, s) /\ Chained(c, K, d.nbr, d.end)
        /\ Linked(K, e, r, s, d.nbr, d.end, d2.nbr, d2.end)
    BY <1>1, <1>3, <1>4
  <2> QED
    BY ONLY <2>1, ChainWith
<1>7. d2.count = Cardinality(K \cup {e})
  <2>1. d.count = Cardinality(K)
    BY DEF Dict
  <2>2. Cardinality(K \cup {e}) = Cardinality(K) + 1
    BY <1>1, KeysFinite
  <2> QED
    BY <1>2, <2>1, <2>2
<1> QED
  BY <1>1, <1>2, <1>5, <1>6, <1>7 DEF Dict

\* mowgli_dictionary_retune keeps a dictionary
LEMMA RetuneHolds ==
  ASSUME DictKeyAssumption, NEW d, NEW K, Dict(d, K), NEW key \in DictKey,
         NEW d2, d2 = mowgli_dictionary_retune(d, key)
  PROVE  Dict(d2, K) /\ Retuned(d, d2, K, key)
<1>1. d \in DRecord /\ K \in SUBSET DictKey /\ Tree(d.cmp, d.child, d.root, K)
  BY DEF Dict
<1>2. Retuned(d, d2, K, key)
  BY <1>1, RetuneKeeps
<1> QED
  BY <1>1, <1>2 DEF Dict, Retuned, SameButTree

\* mowgli_dictionary_link adds a key that is not there
LEMMA LinkHolds ==
  ASSUME DictKeyAssumption, NEW d, NEW K, Dict(d, K), NEW e \in DictKey, e \notin K,
         NEW d2, d2 = mowgli_dictionary_link(d, e)
  PROVE  Dict(d2, K \cup {e}) /\ d2.cmp = d.cmp /\ d2.dirty
<1>1. d.root = DNull <=> K = {}
  <2>1. /\ Tree(d.cmp, d.child, d.root, K) /\ DictKeyAssumption /\ K \subseteq DictKey
    BY DEF Dict
  <2> QED
    BY ONLY <2>1, TreeRoot
<1>2. CASE K = {}
  <2>1. d2 = LinkFirst(d, e)
    BY <1>1, <1>2 DEF mowgli_dictionary_link, LinkFirst
  <2> QED
    BY <1>2, <2>1, LinkEmpty
<1>3. CASE K # {}
  <2> PICK d1 : d1 = mowgli_dictionary_retune(d, e)
    OBVIOUS
  <2>1. Dict(d1, K) /\ Retuned(d, d1, K, e)
    BY RetuneHolds
  <2>2. /\ d1.root \in K /\ Beside(d1.cmp, K, e, d1.root) /\ ~DFound(d1, e)
        /\ d1.cmp = d.cmp /\ d1.cmp \in DOrder /\ K \in SUBSET DictKey
    BY <1>3, <2>1 DEF Retuned, SameButTree, Dict, DRecord
  <2>3. PICK t \in DSide : Lies(d1.cmp, t, e, d1.root)
                           /\ \A x \in K : Lies(d1.cmp, t, x, d1.root) => Lies(d1.cmp, t, x, e)
    BY <2>2 DEF Beside
  <2>4. DSideOf(d1, e, d1.root) = t
    BY <2>2, <2>3, SideLies
  <2>5. d2 = DLinkAt(d1, e, t)
    BY <1>1, <1>3, <2>2, <2>4 DEF mowgli_dictionary_link
  <2>6. Next(d1.cmp, K, e, d1.root, t)
    BY <2>3 DEF Next
  <2>7. /\ DictKeyAssumption /\ Dict(d1, K) /\ e \in DictKey /\ e \notin K
        /\ d1.root \in K /\ t \in DSide /\ Next(d1.cmp, K, e, d1.root, t) /\ d2 = DLinkAt(d1, e, t)
    BY <2>1, <2>2, <2>5, <2>6
  <2>8. Dict(d2, K \cup {e}) /\ d2.cmp = d1.cmp /\ d2.dirty
    BY ONLY <2>7, LinkAt
  <2> QED
    BY <2>2, <2>8
<1> QED
  BY <1>2, <1>3

-----------------------------------------------------------------------------
(* Taking a key out of a tree.                                             *)

\* the subtree on side t of w
LEMMA Beneath ==
  ASSUME NEW c, Ordered(c), DictKeyAssumption, NEW ch, NEW S, NEW K \in SUBSET DictKey,
         Subtrees(c, ch, S, K), NEW w \in K, NEW t \in DSide, NEW x \in Part(c, S[w], t, w)
  PROVE  LET m == ch[t][w]
         IN  /\ m \in K /\ m \in S[w] /\ S[m] = Part(c, S[w], t, w) /\ S[x] \subseteq S[m]
             /\ x \in K /\ w \notin S[m] /\ Cardinality(S[m]) < Cardinality(S[w])
<1> PICK m : m = ch[t][w]
  OBVIOUS
<1>1. S \in [K -> SUBSET K] /\ w \in S[w] /\ Rooted(S, Part(c, S[w], t, w), m)
  BY DEF Subtrees
<1>2. m \in Part(c, S[w], t, w) /\ S[m] = Part(c, S[w], t, w)
  BY <1>1 DEF Rooted
<1>3. m \in S[w] /\ S[w] \subseteq K /\ S[m] \subseteq S[w] /\ x \in S[m] /\ x \in K
  BY <1>1, <1>2 DEF Part
<1>4. S[x] \subseteq S[m]
  BY <1>3 DEF Subtrees
<1>5. w \notin S[m]
  BY <1>2 DEF Part, Ordered
<1>6. Cardinality(S[m]) < Cardinality(S[w])
  <2> PICK A, B : A = S[m] /\ B = S[w]
    OBVIOUS
  <2>1. A \in SUBSET DictKey /\ B \in SUBSET DictKey /\ w \in B /\ w \notin A /\ A \subseteq B
    BY <1>1, <1>3, <1>5
  <2>2. IsFiniteSet(B) /\ Cardinality(B) \in Nat /\ Cardinality(B \ {w}) = Cardinality(B) - 1
        /\ B \ {w} \in SUBSET DictKey /\ A \in SUBSET (B \ {w})
    BY <2>1, KeysFinite
  <2>3. Cardinality(A) <= Cardinality(B \ {w}) /\ Cardinality(A) \in Nat
    BY <2>1, <2>2, KeysFinite, FS_Subset
  <2> QED
    BY <2>2, <2>3
<1> QED
  BY <1>2, <1>3, <1>4, <1>5, <1>6

\* two subtrees are one within the other, or apart
LEMMA Laminar ==
  ASSUME NEW c, Ordered(c), DictKeyAssumption, NEW ch, NEW S, NEW K \in SUBSET DictKey,
         Subtrees(c, ch, S, K), NEW r, Rooted(S, K, r),
         NEW x \in K, NEW y \in K, NEW z \in S[x], z \in S[y]
  PROVE  x \in S[y] \/ y \in S[x]
<1> DEFINE W == {w \in K : x \in S[w] /\ y \in S[w]}
           N == {n \in Nat : \E w \in W : n = Cardinality(S[w])}
<1>1. S \in [K -> SUBSET K] /\ \A w \in K : S[w] \in SUBSET DictKey /\ Cardinality(S[w]) \in Nat
  <2>1. S \in [K -> SUBSET K]
    BY DEF Subtrees
  <2>2. \A w \in K : S[w] \in SUBSET DictKey
    BY <2>1
  <2> QED
    BY <2>1, <2>2, KeysFinite
<1>2. r \in W
  BY DEF Rooted
<1>3. N # {} /\ N \in SUBSET Nat
  BY <1>1, <1>2
<1>4. Min(N) \in N /\ \A n \in N : Min(N) <= n
  <2> HIDE DEF N
  <2> QED
    BY <1>3, NatMin
<1>5. PICK w \in W : \A v \in W : Cardinality(S[w]) <= Cardinality(S[v])
  BY <1>1, <1>4
<1>6. w \in K /\ x \in S[w] /\ y \in S[w]
  OBVIOUS
<1> SUFFICES ASSUME x # w, y # w PROVE z \in S[x] /\ z \in S[y] => FALSE
  BY <1>6
<1>7. PICK t \in DSide : x \in Part(c, S[w], t, w)
  BY <1>1, <1>6, Sides DEF Part, Ordered
<1> PICK o, m, n : o = DOther(t) /\ m = ch[t][w] /\ n = ch[o][w]
  OBVIOUS
<1>8. o \in DSide
  BY Sides
<1>9. /\ m \in K /\ S[m] = Part(c, S[w], t, w) /\ S[x] \subseteq S[m]
      /\ Cardinality(S[m]) < Cardinality(S[w])
  BY <1>6, <1>7, Beneath
<1>10. y \notin Part(c, S[w], t, w)
  <2>1. ASSUME y \in Part(c, S[w], t, w) PROVE FALSE
    <3>1. m \in W
      BY <1>7, <1>9, <2>1
    <3>2. Cardinality(S[w]) <= Cardinality(S[m])
      BY <1>5, <3>1
    <3> QED
      BY <1>1, <1>6, <1>9, <3>2
  <2> QED
    BY <2>1
<1>11. y \in Part(c, S[w], o, w)
  BY <1>1, <1>6, <1>8, <1>10 DEF Part, Ordered
<1>12. S[n] = Part(c, S[w], o, w) /\ S[y] \subseteq S[n]
  BY <1>6, <1>8, <1>11, Beneath
<1>13. \A v \in DictKey : ~(v \in S[m] /\ v \in S[n])
  BY <1>1, <1>6, <1>9, <1>12 DEF Part, Ordered
<1> QED
  BY <1>1, <1>9, <1>12, <1>13

\* a key hangs from one other only
LEMMA OneParent ==
  ASSUME NEW c, Ordered(c), DictKeyAssumption, NEW ch, NEW S, NEW K \in SUBSET DictKey,
         Subtrees(c, ch, S, K), NEW r, Rooted(S, K, r), NEW t \in DSide,
         NEW p \in K, NEW x \in K
  PROVE  ch[t][p] = ch[t][x] /\ ch[t][p] # DNull => p = x
<1> SUFFICES ASSUME ch[t][p] = ch[t][x], ch[t][p] # DNull PROVE p = x
  OBVIOUS
<1> PICK n, o : n = ch[t][p] /\ o = DOther(t)
  OBVIOUS
<1>1. /\ n \in Part(c, S[p], t, p) /\ S[n] = Part(c, S[p], t, p)
      /\ n \in Part(c, S[x], t, x) /\ S[n] = Part(c, S[x], t, x)
  BY DEF Subtrees, Rooted
<1>2. n \in S[p] /\ n \in S[x] /\ o \in DSide
  BY <1>1, Sides DEF Part
<1>3. p \in S[x] \/ x \in S[p]
  BY <1>2, Laminar
<1>4. ASSUME NEW u \in K, NEW v \in K, u \in S[v], u # v, n \in S[u],
             n \in Part(c, S[v], t, v), S[n] = Part(c, S[v], t, v), S[n] = Part(c, S[u], t, u)
      PROVE FALSE
  <2>1. u \notin S[n]
    BY <1>4 DEF Part, Ordered
  <2>2. u \in Part(c, S[v], o, v)
    <3>1. u \in DictKey /\ v \in DictKey /\ u \in S[v] /\ ~Lies(c, t, u, v)
      BY <1>4, <2>1 DEF Part
    <3>2. Lies(c, o, u, v)
      BY <1>4, <3>1 DEF Ordered
    <3> QED
      BY ONLY <3>1, <3>2 DEF Part
  <2>3. S[ch[o][v]] = Part(c, S[v], o, v) /\ S[u] \subseteq S[ch[o][v]]
    <3>1. /\ Ordered(c) /\ DictKeyAssumption /\ K \in SUBSET DictKey /\ Subtrees(c, ch, S, K)
          /\ v \in K /\ o \in DSide /\ u \in Part(c, S[v], o, v)
      BY <1>2, <2>2
    <3> QED
      BY ONLY <3>1, Beneath
  <2>4. n \in Part(c, S[v], o, v) /\ n \in DictKey
    BY <1>4, <2>3 DEF Subtrees
  <2> QED
    BY <1>4, <2>4 DEF Part, Ordered
<1> QED
  BY <1>1, <1>2, <1>3, <1>4

\* the last key n towards side s, which hangs from p, is taken out: what it
\* had on its other side takes its place
LEMMA TreeDetach ==
  ASSUME NEW c, Ordered(c), DictKeyAssumption, NEW ch, NEW X \in SUBSET DictKey, NEW S, NEW r,
         Subtrees(c, ch, S, X), Rooted(S, X, r), NEW s \in DSide, NEW n, Extreme(c, X, s, n), r # n,
         NEW p \in X, ch[s][p] = n, NEW ch2, Attached(ch, ch2, X \ {n}, s, p, ch[DOther(s)][n])
  PROVE  Tree(c, ch2, r, X \ {n})
<1> DEFINE Y == X \ {n}
           S2 == [x \in Y |-> S[x] \ {n}]
<1> PICK o, q : o = DOther(s) /\ q = ch[o][n]
  OBVIOUS
<1>1. n \in X /\ n \in DictKey /\ o \in DSide /\ \A x \in X : x = n \/ Lies(c, o, x, n)
  BY Sides DEF Extreme
<1>2. \A x \in X : ~Lies(c, s, x, n) /\ ~Lies(c, o, n, x)
  BY <1>1, Sides DEF Ordered
<1>3. S \in [X -> SUBSET X]
  BY DEF Subtrees
<1>4. S2 \in [Y -> SUBSET Y] /\ \A x \in Y : S2[x] = S[x] \ {n}
  BY <1>3
<1>5. p # n
  <2>1. n \in Part(c, S[p], s, p)
    BY <1>1, Apart DEF Subtrees, Rooted
  <2> QED
    <3>1. Lies(c, s, n, p)
      BY <2>1 DEF Part
    <3> QED
      BY <1>1, <3>1 DEF Ordered
<1>6. \A t \in DSide : \A x \in Y : ch2[t][x] = IF t = s /\ x = p THEN q ELSE ch[t][x]
  BY DEF Attached
<1> HIDE DEF S2
<1>7. ASSUME NEW P, P \subseteq X, n \notin P, NEW m, Rooted(S, P, m)
      PROVE  Rooted(S2, P, m)
  <2>1. P # {} => m \in P /\ S[m] = P /\ m \in Y
    BY <1>7 DEF Rooted
  <2>2. P # {} => S2[m] = P
    <3>1. P # {} => S2[m] = S[m] \ {n}
      BY <1>4, <2>1
    <3>2. P \ {n} = P
      BY <1>7
    <3> QED
      BY <2>1, <3>1, <3>2
  <2> QED
    BY <1>7, <2>1, <2>2 DEF Rooted
<1>8. ASSUME NEW x \in Y
      PROVE  /\ x \in S2[x] /\ \A f \in S2[x] : S2[f] \subseteq S2[x]
             /\ \A t \in DSide : Rooted(S2, Part(c, S2[x], t, x), ch2[t][x])
  <2>1. x \in S[x] /\ S[x] \subseteq X /\ \A f \in S[x] : S[f] \subseteq S[x]
    BY <1>3 DEF Subtrees
  <2>2. x \in S2[x] /\ \A f \in S2[x] : S2[f] \subseteq S2[x]
    BY <1>3, <1>4, <2>1
  <2>3. ASSUME NEW t \in DSide PROVE Rooted(S2, Part(c, S2[x], t, x), ch2[t][x])
    <3> PICK P, m : P = Part(c, S[x], t, x) /\ m = ch[t][x]
      OBVIOUS
    <3>1. Rooted(S, P, m) /\ P \subseteq X /\ Part(c, S2[x], t, x) = P \ {n}
      BY <1>4, <2>1 DEF Subtrees, Part
    <3>2. CASE t = s /\ x = p
      <4>1. m = n /\ P # {} /\ S[n] = P
        BY <1>1, <3>1, <3>2, Apart DEF Rooted
      <4>2. Part(c, S[n], o, n) = P \ {n}
        <5>1. \A y \in P : y = n \/ Lies(c, o, y, n)
          BY <1>1, <3>1
        <5>2. ~Lies(c, o, n, n)
          BY <1>1, <1>2
        <5> QED
          BY ONLY <4>1, <5>1, <5>2 DEF Part
      <4>3. Rooted(S, P \ {n}, q)
        <5>1. n \in X /\ o \in DSide /\ q = ch[o][n]
          BY <1>1
        <5>2. Rooted(S, Part(c, S[n], o, n), ch[o][n])
          BY ONLY <5>1, Subtrees(c, ch, S, X) DEF Subtrees
        <5> QED
          BY <4>2, <5>1, <5>2
      <4>4. Rooted(S2, P \ {n}, q)
        BY <1>7, <3>1, <4>3
      <4> QED
        BY <1>6, <3>1, <3>2, <4>4
    <3>3. CASE ~(t = s /\ x = p)
      <4>1. ch2[t][x] = m
        BY <1>6, <3>3
      <4>2. P # {} => m \in P /\ m # n
        <5>1. P # {} => m \in P /\ m # DNull
          BY <3>1, Apart DEF Rooted
        <5>2. ASSUME P # {}, m = n PROVE FALSE
          <6>1. t = s
            <7>1. Lies(c, t, n, x)
              BY <5>1, <5>2 DEF Part
            <7> QED
              BY <1>2, <7>1, Sides
          <6>2. /\ Ordered(c) /\ DictKeyAssumption /\ X \in SUBSET DictKey
                /\ Subtrees(c, ch, S, X) /\ Rooted(S, X, r) /\ s \in DSide
                /\ p \in X /\ x \in X
            OBVIOUS
          <6>3. ch[s][p] = ch[s][x] /\ ch[s][p] # DNull => p = x
            BY ONLY <6>2, OneParent
          <6> QED
            BY <3>3, <5>1, <5>2, <6>1, <6>3
        <5> QED
          BY <5>1, <5>2
      <4>3. P = {} => m = DNull
        BY <3>1 DEF Rooted
      <4>4. P # {} => S[m] = P /\ m \in Y
        BY <3>1, <4>2 DEF Rooted
      <4>5. P # {} => S2[m] = P \ {n}
        BY <1>4, <4>4
      <4>6. P = {} <=> P \ {n} = {}
        BY <4>2
      <4>7. Rooted(S2, P \ {n}, m)
        BY ONLY <4>2, <4>3, <4>5, <4>6 DEF Rooted
      <4> QED
        BY <3>1, <4>1, <4>7
    <3> QED
      BY <3>2, <3>3
  <2> QED
    BY <2>2, <2>3
<1>9. Rooted(S2, Y, r)
  <2>1. r \in X /\ S[r] = X
    BY <1>1 DEF Rooted
  <2>2. r \in Y /\ S2[r] = Y
    BY <1>4, <2>1
  <2> QED
    BY <2>2 DEF Rooted
<1>10. Subtrees(c, ch2, S2, Y)
  BY <1>4, <1>8 DEF Subtrees
<1> QED
  BY <1>9, <1>10 DEF Tree

\* the loop of mowgli_dictionary_unlink_root finds the parent of the next element
LEMMA ParentFound ==
  ASSUME NEW d, NEW c, Ordered(c), DictKeyAssumption, NEW X \in SUBSET DictKey, NEW S, NEW r,
         Subtrees(c, d.child, S, X), Rooted(S, X, r), NEW n, Extreme(c, X, "l", n), r # n
  PROVE  DParentOf(d, n, r) \in X /\ d.child["l"][DParentOf(d, n, r)] = n
<1> PICK l, left : l = "l" /\ left = d.child[l]
  OBVIOUS
<1> DEFINE turn[k \in Nat] ==
             IF k = 0 THEN r
             ELSE LET a == turn[k - 1]
                  IN  IF d.child["l"][a] \in {DNull, n} THEN a ELSE d.child["l"][a]
           T == {x \in X : x # n /\ n \in S[x]}
           F == [x \in T |-> IF left[x] \in {DNull, n} THEN x ELSE left[x]]
           End == {x \in T : left[x] = n}
           Enough == [x \in T |-> {b \in Nat : Cardinality(S[x]) <= b}]
           C == Cardinality(DictKey)
<1>1. S \in [X -> SUBSET X] /\ l \in DSide /\ n \in X /\ n \in DictKey
  BY Sides DEF Subtrees, Extreme
<1>2. r \in X /\ S[r] = X
  BY <1>1 DEF Rooted
<1>3. \A x \in X : S[x] \in SUBSET DictKey /\ Cardinality(S[x]) \in Nat
  <2>1. \A x \in X : S[x] \in SUBSET DictKey
    BY <1>1
  <2> QED
    BY <2>1, KeysFinite
<1>4. ASSUME NEW x \in T
      PROVE  /\ left[x] # DNull
             /\ left[x] # n => left[x] \in T /\ Cardinality(S[left[x]]) < Cardinality(S[x])
  <2>1. x \in X /\ x \in DictKey /\ n \in Part(c, S[x], l, x)
    <3>1. x \in X /\ x # n /\ n \in S[x]
      OBVIOUS
    <3>2. Lies(c, DOther(l), x, n)
      BY <3>1 DEF Extreme
    <3>3. Lies(c, l, n, x)
      BY <1>1, <3>1, <3>2, Sides DEF Ordered
    <3> QED
      BY <3>1, <3>3 DEF Part
  <2>2. /\ left[x] \in X /\ S[left[x]] = Part(c, S[x], l, x)
        /\ Cardinality(S[left[x]]) < Cardinality(S[x])
    <3>1. /\ Ordered(c) /\ DictKeyAssumption /\ X \in SUBSET DictKey /\ Subtrees(c, d.child, S, X)
          /\ x \in X /\ l \in DSide /\ n \in Part(c, S[x], l, x)
      BY <1>1, <2>1
    <3>2. LET m == d.child[l][x]
          IN  m \in X /\ S[m] = Part(c, S[x], l, x) /\ Cardinality(S[m]) < Cardinality(S[x])
      BY ONLY <3>1, Beneath
    <3> QED
      BY <3>2
  <2>3. left[x] # DNull
    BY <2>2, Apart
  <2> QED
    BY <2>1, <2>2, <2>3
<1>5. r \in T /\ C \in Enough[r] /\ Enough \in [T -> SUBSET Nat]
  <2>1. IsFiniteSet(DictKey) /\ C \in Nat /\ Cardinality(X) <= C
    BY FS_Subset, FS_CardinalityType DEF DictKeyAssumption
  <2>2. r \in T
    BY <1>1, <1>2
  <2> HIDE DEF T, C
  <2> QED
    BY <1>2, <2>1, <2>2
<1>6. /\ StepOn(T, F) /\ \A x \in T : x \in End => F[x] = x
      /\ \A x \in T : x \notin End => \A b \in Enough[x] : b - 1 \in Enough[F[x]]
  <2>1. \A x \in T : x \in End => F[x] = x
    OBVIOUS
  <2>2. \A x \in T : x \notin End => F[x] = left[x] /\ left[x] \in T
    BY <1>4
  <2>3. \A x \in T : F[x] \in T
    BY <2>1, <2>2
  <2>4. F = [x \in T |-> F[x]]
    OBVIOUS
  <2>5. \A x \in T : x \notin End => Cardinality(S[F[x]]) < Cardinality(S[x])
    BY <1>4, <2>2
  <2>6. \A x \in T : x \in X
    OBVIOUS
  <2> HIDE DEF F, T, End
  <2>7. StepOn(T, F)
    BY <2>3, <2>4 DEF StepOn
  <2>8. ASSUME NEW x \in T, x \notin End, NEW b \in Enough[x] PROVE b - 1 \in Enough[F[x]]
    <3>1. b \in Nat /\ Cardinality(S[x]) <= b /\ F[x] \in T
      BY <2>3
    <3>2. Cardinality(S[F[x]]) < Cardinality(S[x]) /\ Cardinality(S[F[x]]) \in Nat /\ Cardinality(S[x]) \in Nat
      BY <1>3, <2>5, <2>6, <2>8, <3>1
    <3>3. b - 1 \in Nat /\ Cardinality(S[F[x]]) <= b - 1
      BY ONLY <3>1, <3>2
    <3> QED
      BY <3>1, <3>3
  <2> QED
    BY <2>1, <2>7, <2>8
<1>7. Follows(turn, T, r, F)
  <2>1. PICK g \in [Nat -> T] : LoopStates(r, F, g)
    <3> HIDE DEF F, T
    <3> QED
      BY <1>5, <1>6, Loops DEF LoopDefined
  <2>2. g = [k \in Nat |->
               IF k = 0 THEN r
               ELSE LET a == g[k - 1]
                    IN  IF d.child["l"][a] \in {DNull, n} THEN a ELSE d.child["l"][a]]
    <3>1. \A k \in Nat : k # 0 => F[g[k - 1]] = IF left[g[k - 1]] \in {DNull, n} THEN g[k - 1] ELSE left[g[k - 1]]
      BY <2>1
    <3> HIDE DEF F, T
    <3> QED
      BY <2>1, <3>1 DEF LoopStates
  <2>3. turn = [k \in Nat |->
               IF k = 0 THEN r
               ELSE LET a == turn[k - 1]
                    IN  IF d.child["l"][a] \in {DNull, n} THEN a ELSE d.child["l"][a]]
    BY <2>2
  <2>4. turn[0] = r /\ \A k \in Nat : turn[k + 1] =
          IF left[turn[k]] \in {DNull, n} THEN turn[k] ELSE left[turn[k]]
    <3>1. \A k \in Nat : k + 1 \in Nat /\ k + 1 # 0 /\ (k + 1) - 1 = k
      OBVIOUS
    <3> HIDE DEF turn
    <3> QED
      BY <2>3, <3>1
  <2> HIDE DEF turn
  <2>5. \A k \in Nat : turn[k] \in T => turn[k + 1] = F[turn[k]]
    BY <2>4
  <2> HIDE DEF F, T
  <2> QED
    BY <2>4, <2>5 DEF Follows
<1>8. turn[C] \in T /\ turn[C] \in End
  <2> PICK f : f = turn
    OBVIOUS
  <2>1. /\ StepOn(T, F) /\ (\A x \in T : x \in End => F[x] = x)
        /\ Enough \in [T -> SUBSET Nat]
        /\ (\A x \in T : x \notin End => \A b \in Enough[x] : b - 1 \in Enough[F[x]])
        /\ r \in T /\ C \in Enough[r] /\ Follows(f, T, r, F)
    BY <1>5, <1>6, <1>7
  <2> HIDE DEF T, F, End, Enough, C, turn
  <2>2. f[C] \in T /\ f[C] \in End
    BY ONLY <2>1, LoopReaches
  <2> QED
    BY <2>2
<1>9. DParentOf(d, n, r) = turn[C]
  BY DEF DParentOf, C
<1> HIDE DEF turn, C
<1> QED
  BY <1>8, <1>9

-----------------------------------------------------------------------------
(* The tree without its root.                                              *)

\* what DJoin makes of d when the root has at most one child, ...
JoinOne(d, n) == [d EXCEPT !.root = n]

\* ... when the next element is a child of the root, ...
JoinNext(d, n, l) == [d EXCEPT !.root = n, !.child["l"][n] = l]

\* ... and when it hangs from p
JoinFar(d, n, p, q, l, r) ==
  [d EXCEPT !.root = n, !.child["l"] = [@ EXCEPT ![p] = q, ![n] = l], !.child["r"][n] = r]

\* v is d with another tree
Reformed(d, v, n) == v \in DRecord /\ SameButTree(d, v) /\ v.root = n

\* the changes that join two subtrees are changes of the fields of a dictionary
LEMMA JoinWhole ==
  ASSUME NEW d, Whole(d), NEW n, NEW p, NEW q, NEW l, NEW r
  PROVE  Whole(JoinOne(d, n)) /\ Whole(JoinNext(d, n, l)) /\ Whole(JoinFar(d, n, p, q, l, r))
<1>1. PICK cmp, root, count, dirty, child, nbr, end, position :
        IsDict(d, cmp, root, count, dirty, child, nbr, end, position)
  BY DEF Whole
<1>2. Whole(JoinOne(d, n))
  <2> PICK v : v = JoinOne(d, n)
    OBVIOUS
  <2>1. v = [cmp |-> cmp, root |-> n, count |-> count, dirty |-> dirty, child |-> v.child,
             nbr |-> v.nbr, end |-> v.end, position |-> position]
    BY <1>1 DEF JoinOne, IsDict
  <2>2. IsDict(v, cmp, n, count, dirty, v.child, v.nbr, v.end, position)
    BY <2>1 DEF IsDict
  <2> QED
    BY ONLY <2>2, v = JoinOne(d, n) DEF Whole
<1>3. Whole(JoinNext(d, n, l))
  <2> PICK v : v = JoinNext(d, n, l)
    OBVIOUS
  <2>1. v = [cmp |-> cmp, root |-> n, count |-> count, dirty |-> dirty, child |-> v.child,
             nbr |-> v.nbr, end |-> v.end, position |-> position]
    BY <1>1, ZenonT(30) DEF JoinNext, IsDict
  <2>2. IsDict(v, cmp, n, count, dirty, v.child, v.nbr, v.end, position)
    BY <2>1 DEF IsDict
  <2> QED
    BY ONLY <2>2, v = JoinNext(d, n, l) DEF Whole
<1>4. Whole(JoinFar(d, n, p, q, l, r))
  <2> PICK v : v = JoinFar(d, n, p, q, l, r)
    OBVIOUS
  <2>1. v = [cmp |-> cmp, root |-> n, count |-> count, dirty |-> dirty, child |-> v.child,
             nbr |-> v.nbr, end |-> v.end, position |-> position]
    BY <1>1, ZenonT(30) DEF JoinFar, IsDict
  <2>2. IsDict(v, cmp, n, count, dirty, v.child, v.nbr, v.end, position)
    BY <2>1 DEF IsDict
  <2> QED
    BY ONLY <2>2, v = JoinFar(d, n, p, q, l, r) DEF Whole
<1> QED
  BY <1>2, <1>3, <1>4

\* a dictionary with another tree is a dictionary
LEMMA ReformedBy ==
  ASSUME NEW d \in DRecord, NEW v, Whole(v), SameButTree(d, v), NEW n \in DPointer, v.root = n,
         v.child \in DChildren
  PROVE  Reformed(d, v, n)
<1>1. Typed(d)
  BY DEF DRecord, Typed
<1>2. Typed(v)
  BY ONLY <1>1, SameButTree(d, v), n \in DPointer, v.root = n, v.child \in DChildren
     DEF Typed, SameButTree
<1>3. v \in DRecord
  BY <1>2, WholeTyped
<1> QED
  BY <1>3 DEF Reformed

\* the only subtree takes the place of the root
LEMMA JoinOneFields ==
  ASSUME NEW d \in DRecord, NEW n \in DPointer, NEW v, v = JoinOne(d, n)
  PROVE  Reformed(d, v, n) /\ v.child = d.child
<1>1. SameButTree(d, v) /\ v.root = n /\ v.child = d.child /\ d.child \in DChildren
  BY DEF JoinOne, SameButTree, DRecord
<1>2. Whole(v)
  BY WholeRecord, JoinWhole
<1> QED
  BY <1>1, <1>2, ReformedBy

\* the right child takes the place of the root, over the left subtree
LEMMA JoinNextFields ==
  ASSUME NEW d \in DRecord, NEW n \in DictKey, NEW l \in DPointer, NEW v, v = JoinNext(d, n, l)
  PROVE  Reformed(d, v, n) /\ Stored(d.child, v.child, "l", n, l)
<1>1. SameButTree(d, v) /\ v.root = n /\ v.child = [d.child EXCEPT !["l"][n] = l]
  BY DEF JoinNext, SameButTree, DRecord
<1>2. Whole(v)
  BY WholeRecord, JoinWhole
<1>3. d.child \in DChildren /\ "l" \in DSide /\ n \in DPlace /\ n \in DPointer
  BY Sides DEF DRecord, DPlace, DPointer
<1>4. v.child \in DChildren /\ Stored(d.child, v.child, "l", n, l)
  BY <1>1, <1>3, PutChild
<1> QED
  BY <1>1, <1>2, <1>3, <1>4, ReformedBy

\* the leftmost key of the right subtree takes the place of the root
LEMMA JoinFarFields ==
  ASSUME NEW d \in DRecord, NEW n \in DictKey, NEW p \in DictKey, NEW q \in DPointer,
         NEW l \in DPointer, NEW r \in DPointer, NEW v, v = JoinFar(d, n, p, q, l, r)
  PROVE  /\ Reformed(d, v, n)
         /\ \A x \in DictKey :
              /\ v.child["l"][x] = IF x = n THEN l ELSE IF x = p THEN q ELSE d.child["l"][x]
              /\ v.child["r"][x] = IF x = n THEN r ELSE d.child["r"][x]
<1> PICK cl : cl = [d.child["l"] EXCEPT ![p] = q, ![n] = l]
  OBVIOUS
<1> PICK cr : cr = [d.child["r"] EXCEPT ![n] = r]
  OBVIOUS
<1>1. SameButTree(d, v) /\ v.root = n
      /\ v.child = [[d.child EXCEPT !["l"] = cl] EXCEPT !["r"] = [@ EXCEPT ![n] = r]]
  BY DEF JoinFar, SameButTree, DRecord
<1>2. Whole(v)
  BY WholeRecord, JoinWhole
<1>3. d.child \in [DSide -> [DPlace -> DPointer]] /\ "l" \in DSide /\ "r" \in DSide /\ "l" # "r"
      /\ n \in DPlace /\ p \in DPlace /\ n \in DPointer /\ DictKey \subseteq DPlace
      /\ DSide = {"l", "r"}
  BY Sides DEF DRecord, DPlace, DPointer, DChildren
<1>4. d.child["l"] \in [DPlace -> DPointer] /\ d.child["r"] \in [DPlace -> DPointer]
  BY <1>3
<1>5. cl \in [DPlace -> DPointer]
      /\ \A x \in DPlace : cl[x] = IF x = n THEN l ELSE IF x = p THEN q ELSE d.child["l"][x]
  BY <1>3, <1>4, PutTwo
<1>6. cr \in [DPlace -> DPointer] /\ \A x \in DPlace : cr[x] = IF x = n THEN r ELSE d.child["r"][x]
  BY <1>3, <1>4, PutOne
<1>7. v.child \in DChildren /\ v.child["l"] = cl /\ v.child["r"] = cr
  <2> PICK f : f = [d.child EXCEPT !["l"] = cl]
    OBVIOUS
  <2>1. f["r"] = d.child["r"] /\ f["l"] = cl /\ f \in [DSide -> [DPlace -> DPointer]]
    BY <1>3, <1>5
  <2>2. v.child = [f EXCEPT !["r"] = cr]
    <3>1. v.child = [f EXCEPT !["r"] = [f["r"] EXCEPT ![n] = r]]
      BY <1>1
    <3> QED
      BY <2>1, <3>1
  <2> QED
    BY <1>3, <1>6, <2>1, <2>2 DEF DChildren
<1>8. Reformed(d, v, n)
  BY <1>1, <1>2, <1>3, <1>7, ReformedBy
<1> QED
  BY <1>3, <1>5, <1>6, <1>7, <1>8

\* the tree without its root
LEMMA JoinTree ==
  ASSUME DictKeyAssumption, NEW d, NEW K, Dict(d, K), d.root \in K, NEW v, v = DJoin(d)
  PROVE  /\ v \in DRecord /\ SameButTree(d, v)
         /\ Tree(d.cmp, v.child, v.root, K \ {d.root})
<1> PICK c, e, ch : c = d.cmp /\ e = d.root /\ ch = d.child
  OBVIOUS
<1> PICK l, r, n : l = ch["l"][e] /\ r = ch["r"][e] /\ n = d.nbr["r"][e]
  OBVIOUS
<1> PICK L, R, H : L = Part(c, K, "l", e) /\ R = Part(c, K, "r", e) /\ H = K \ {e}
  OBVIOUS
<1>1. /\ d \in DRecord /\ K \in SUBSET DictKey /\ e \in K /\ e \in DictKey
      /\ Tree(c, ch, e, K) /\ Chained(c, K, d.nbr, d.end)
  BY DEF Dict
<1>2. Ordered(c) /\ ch \in DChildren /\ DNull \notin DictKey
  BY <1>1, Order, Apart DEF DRecord
<1>3. "l" \in DSide /\ "r" \in DSide /\ "l" # "r" /\ DOther("l") = "r" /\ DOther("r") = "l" /\ DSide = {"l", "r"}
  BY Sides
<1>4. /\ L \in SUBSET DictKey /\ R \in SUBSET DictKey
      /\ \A x \in L : Lies(c, "l", x, e) /\ x \in K
      /\ \A x \in R : Lies(c, "r", x, e) /\ x \in K
      /\ H = L \cup R
  <2>1. /\ \A x \in DictKey : x # e => Lies(c, "l", x, e) \/ Lies(c, "r", x, e)
        /\ ~Lies(c, "l", e, e) /\ ~Lies(c, "r", e, e)
    BY <1>1, <1>2, <1>3 DEF Ordered
  <2> QED
    BY <1>1, <2>1 DEF Part
<1>5. Tree(c, ch, l, L) /\ Tree(c, ch, r, R)
  BY <1>1, <1>3, TreeSplit
<1>6. (l = DNull <=> L = {}) /\ (r = DNull <=> R = {}) /\ (R # {} => r \in R)
  BY <1>4, <1>5, TreeRoot
<1>7. l \in DPointer /\ r \in DPointer
  BY <1>1, <1>2, <1>3 DEF DChildren, DPlace
<1>8. CASE l = DNull
  <2>1. v = JoinOne(d, r)
    BY <1>8 DEF DJoin, JoinOne
  <2>2. Reformed(d, v, r) /\ v.child = ch
    BY <1>1, <1>7, <2>1, JoinOneFields
  <2>3. H = R
    BY <1>4, <1>6, <1>8
  <2> QED
    BY <1>5, <2>2, <2>3 DEF Reformed
<1>9. CASE l # DNull /\ r = DNull
  <2>1. v = JoinOne(d, l)
    BY <1>9 DEF DJoin, JoinOne
  <2>2. Reformed(d, v, l) /\ v.child = ch
    BY <1>1, <1>7, <2>1, JoinOneFields
  <2>3. H = L
    BY <1>4, <1>6, <1>9
  <2> QED
    BY <1>5, <2>2, <2>3 DEF Reformed
<1>10. CASE l # DNull /\ r # DNull
  <2>1. n \in R /\ n \in DictKey /\ \A x \in R : x = n \/ Lies(c, "r", x, n)
    <3>1. Nearest(c, R, "r", n)
      BY <1>1, <1>3 DEF Chained
    <3> QED
      BY <1>4, <1>6, <1>10, <3>1 DEF Nearest
  <2>2. n \notin L /\ \A x \in L : Lies(c, "l", x, n)
    <3>0. /\ Ordered(c) /\ e \in DictKey /\ n \in DictKey /\ Lies(c, "r", n, e) /\ L \in SUBSET DictKey
          /\ \A x \in L : Lies(c, "l", x, e)
      BY <1>1, <1>2, <1>4, <2>1
    <3>1. Lies(c, "l", e, n)
      BY ONLY <1>3, <3>0 DEF Ordered
    <3>2. \A x \in L : Lies(c, "l", x, n)
      BY ONLY <1>3, <3>0, <3>1 DEF Ordered
    <3>3. ~Lies(c, "l", n, n)
      BY <1>2, <1>3, <2>1 DEF Ordered
    <3> QED
      BY <3>2, <3>3
  <2> PICK B : B = R \ {n}
    OBVIOUS
  <2>3. ASSUME Reformed(d, v, n), Tree(c, v.child, v.child["l"][n], L),
               Tree(c, v.child, v.child["r"][n], B)
        PROVE  v \in DRecord /\ SameButTree(d, v) /\ Tree(c, v.child, v.root, H)
    <3>1. /\ Ordered(c) /\ n \in DictKey /\ "l" \in DSide /\ L \in SUBSET DictKey /\ B \in SUBSET DictKey
          /\ Tree(c, v.child, v.child["l"][n], L) /\ Tree(c, v.child, v.child[DOther("l")][n], B)
          /\ \A x \in L : Lies(c, "l", x, n)
          /\ \A x \in B : Lies(c, DOther("l"), x, n)
      <4>1. B \in SUBSET DictKey /\ \A x \in B : Lies(c, "r", x, n)
        BY <1>4, <2>1
      <4>2. /\ Ordered(c) /\ n \in DictKey /\ "l" \in DSide /\ DOther("l") = "r" /\ L \in SUBSET DictKey
            /\ \A x \in L : Lies(c, "l", x, n)
        BY <1>2, <1>3, <1>4, <2>1, <2>2
      <4>3. Tree(c, v.child, v.child["l"][n], L) /\ Tree(c, v.child, v.child["r"][n], B)
        BY <2>3
      <4> QED
        BY ONLY <4>1, <4>2, <4>3
    <3>2. Tree(c, v.child, n, L \cup B \cup {n})
      BY ONLY <3>1, TreeJoin
    <3>3. L \cup B \cup {n} = H
      BY <1>4, <2>1
    <3> QED
      BY <2>3, <3>2, <3>3 DEF Reformed
  <2>4. CASE n = r
    <3>1. v = JoinNext(d, n, l)
      BY <1>10, <2>4 DEF DJoin, JoinNext
    <3>2. Reformed(d, v, n) /\ Stored(ch, v.child, "l", n, l)
      BY <1>1, <1>7, <2>1, <3>1, JoinNextFields
    <3>3. v.child["l"][n] = l /\ v.child["r"][n] = ch["r"][n]
      BY <1>3, <2>1, <3>2 DEF Stored, DPlace
    <3>4. Tree(c, v.child, l, L)
      <4>1. Alike(ch, v.child, L)
        BY <1>4, <2>2, <3>2 DEF Stored, DPlace, Alike
      <4> QED
        BY <1>5, <4>1, TreeAlike
    <3>5. Tree(c, v.child, ch["r"][n], B)
      <4>1. Tree(c, ch, ch["r"][n], Part(c, R, "r", n))
        BY <1>3, <1>5, <1>6, <1>10, <2>4, TreeSplit
      <4>2. Part(c, R, "r", n) = B
        <5>1. ~Lies(c, "r", n, n)
          BY <1>2, <1>3, <2>1 DEF Ordered
        <5> QED
          BY <2>1, <5>1 DEF Part
      <4>3. Alike(ch, v.child, B)
        <5>1. \A x \in B : x \in DPlace /\ x # n
          BY <1>4 DEF DPlace
        <5> QED
          BY ONLY <3>2, <5>1 DEF Stored, Alike
      <4> QED
        BY <4>1, <4>2, <4>3, TreeAlike
    <3> QED
      BY <2>3, <3>2, <3>3, <3>4, <3>5
  <2>5. CASE n # r
    <3> PICK p : p = DParentOf(d, n, r)
      OBVIOUS
    <3> PICK S : Subtrees(c, ch, S, R) /\ Rooted(S, R, r)
      BY <1>5 DEF Tree
    <3>1. Extreme(c, R, "l", n)
      BY <1>3, <2>1 DEF Extreme
    <3>2. p \in R /\ ch["l"][p] = n
      <4>1. /\ Ordered(c) /\ DictKeyAssumption /\ R \in SUBSET DictKey /\ Subtrees(c, d.child, S, R)
            /\ Rooted(S, R, r) /\ Extreme(c, R, "l", n) /\ r # n
        BY <1>2, <1>4, <2>5, <3>1
      <4>2. DParentOf(d, n, r) \in R /\ d.child["l"][DParentOf(d, n, r)] = n
        BY ONLY <4>1, ParentFound
      <4> QED
        BY <4>2
    <3> PICK q : q = ch["r"][n]
      OBVIOUS
    <3>3. v = JoinFar(d, n, p, q, l, r)
      BY <1>10, <2>5 DEF DJoin, JoinFar
    <3>4. q \in DPointer /\ p \in DictKey
      BY <1>2, <1>3, <1>4, <2>1, <3>2 DEF DChildren, DPlace
    <3>5. /\ Reformed(d, v, n)
          /\ \A x \in DictKey :
               /\ v.child["l"][x] = IF x = n THEN l ELSE IF x = p THEN q ELSE d.child["l"][x]
               /\ v.child["r"][x] = IF x = n THEN r ELSE d.child["r"][x]
      <4>1. /\ d \in DRecord /\ n \in DictKey /\ p \in DictKey /\ q \in DPointer
            /\ l \in DPointer /\ r \in DPointer /\ v = JoinFar(d, n, p, q, l, r)
        BY <1>1, <1>7, <2>1, <3>3, <3>4
      <4> QED
        BY ONLY <4>1, JoinFarFields
    <3>6. v.child["l"][n] = l /\ v.child["r"][n] = r
      BY <2>1, <3>5
    <3>7. Tree(c, v.child, l, L)
      <4>1. p \notin L
        BY <1>2, <1>3, <1>4, <1>1, <3>2 DEF Ordered
      <4>2. Alike(ch, v.child, L)
        <5>1. \A x \in L : x \in DictKey /\ x # n /\ x # p
          BY <1>4, <2>2, <4>1
        <5>2. \A t \in DSide : t = "l" \/ t = "r"
          BY <1>3
        <5> QED
          BY ONLY <3>5, <5>1, <5>2, ch = d.child DEF Alike
      <4> QED
        BY <1>5, <4>2, TreeAlike
    <3>8. Tree(c, v.child, r, B)
      <4>1. Attached(ch, v.child, B, "l", p, q)
        <5>1. \A x \in B : x \in DictKey /\ x # n
          BY <1>4
        <5>2. (\A t \in DSide : t = "l" \/ t = "r") /\ "l" # "r"
          BY <1>3
        <5> QED
          BY ONLY <3>5, <5>1, <5>2, ch = d.child DEF Attached
      <4>2. /\ Ordered(c) /\ DictKeyAssumption /\ R \in SUBSET DictKey
            /\ Subtrees(c, ch, S, R) /\ Rooted(S, R, r) /\ "l" \in DSide /\ Extreme(c, R, "l", n) /\ r # n
            /\ p \in R /\ ch["l"][p] = n /\ Attached(ch, v.child, R \ {n}, "l", p, ch[DOther("l")][n])
        BY <1>2, <1>3, <1>4, <2>5, <3>1, <3>2, <4>1
      <4>3. Tree(c, v.child, r, R \ {n})
        BY ONLY <4>2, TreeDetach
      <4> QED
        BY <4>3
    <3> QED
      BY <2>3, <3>5, <3>6, <3>7, <3>8
  <2> QED
    BY <2>4, <2>5
<1> QED
  BY <1>8, <1>9, <1>10

-----------------------------------------------------------------------------
(* A deletion.                                                             *)

\* unchaining, counting down and wiping are changes of the fields of a dictionary
LEMMA UnchainWhole ==
  ASSUME NEW d, Whole(d), NEW e
  PROVE  Whole(DUnchain(d, e)) /\ Whole(DWipe(d, e))
         /\ Whole([d EXCEPT !.count = @ - 1, !.dirty = TRUE])
<1>1. PICK cmp, root, count, dirty, child, nbr, end, position :
        IsDict(d, cmp, root, count, dirty, child, nbr, end, position)
  BY DEF Whole
<1>2. Whole(DUnchain(d, e))
  <2> PICK p, n : p = d.nbr["l"][e] /\ n = d.nbr["r"][e]
    OBVIOUS
  <2> PICK v : v = DUnchain(d, e)
    OBVIOUS
  <2>1. v = [d EXCEPT !.nbr["r"] = IF p = DNull THEN @ ELSE [@ EXCEPT ![p] = n],
                      !.nbr["l"] = IF n = DNull THEN @ ELSE [@ EXCEPT ![n] = p],
                      !.end["l"] = IF @ = e THEN n ELSE @,
                      !.end["r"] = IF @ = e THEN p ELSE @]
    BY DEF DUnchain
  <2>2. v = [cmp |-> cmp, root |-> root, count |-> count, dirty |-> dirty, child |-> child,
             nbr |-> v.nbr, end |-> v.end, position |-> position]
    BY <1>1, <2>1, ZenonT(30) DEF IsDict
  <2>3. IsDict(v, cmp, root, count, dirty, child, v.nbr, v.end, position)
    BY <2>2 DEF IsDict
  <2> QED
    BY ONLY <2>3, v = DUnchain(d, e) DEF Whole
<1>3. Whole(DWipe(d, e))
  <2> PICK v : v = DWipe(d, e)
    OBVIOUS
  <2>2. v = [cmp |-> cmp, root |-> root, count |-> count, dirty |-> dirty, child |-> v.child,
             nbr |-> v.nbr, end |-> end, position |-> v.position]
    BY <1>1 DEF DWipe, IsDict
  <2>3. IsDict(v, cmp, root, count, dirty, v.child, v.nbr, end, v.position)
    BY <2>2 DEF IsDict
  <2> QED
    BY ONLY <2>3, v = DWipe(d, e) DEF Whole
<1>4. Whole([d EXCEPT !.count = @ - 1, !.dirty = TRUE])
  <2> PICK v : v = [d EXCEPT !.count = @ - 1, !.dirty = TRUE]
    OBVIOUS
  <2>2. v = [cmp |-> cmp, root |-> root, count |-> count - 1, dirty |-> TRUE, child |-> child,
             nbr |-> nbr, end |-> end, position |-> position]
    BY <1>1 DEF IsDict
  <2>3. IsDict(v, cmp, root, count - 1, TRUE, child, nbr, end, position)
    BY <2>2 DEF IsDict
  <2> QED
    BY ONLY <2>3, v = [d EXCEPT !.count = @ - 1, !.dirty = TRUE] DEF Whole
<1> QED
  BY <1>2, <1>3, <1>4

\* what unlinking does to the list
LEMMA UnchainFields ==
  ASSUME DictKeyAssumption, NEW d \in DRecord, NEW e \in DictKey, NEW v, v = DUnchain(d, e)
  PROVE  /\ v \in DRecord
         /\ v.cmp = d.cmp /\ v.root = d.root /\ v.count = d.count /\ v.dirty = d.dirty
         /\ v.child = d.child /\ v.position = d.position
         /\ Unchained(DictKey, e, d.nbr, d.end, v.nbr, v.end)
<1> PICK p, n : p = d.nbr["l"][e] /\ n = d.nbr["r"][e]
  OBVIOUS
<1> PICK right : right = IF p = DNull THEN d.nbr["r"] ELSE [d.nbr["r"] EXCEPT ![p] = n]
  OBVIOUS
<1> PICK left : left = IF n = DNull THEN d.nbr["l"] ELSE [d.nbr["l"] EXCEPT ![n] = p]
  OBVIOUS
<1> PICK first, last : /\ first = IF d.end["l"] = e THEN n ELSE d.end["l"]
                       /\ last = IF d.end["r"] = e THEN p ELSE d.end["r"]
  OBVIOUS
<1>1. /\ v.cmp = d.cmp /\ v.root = d.root /\ v.count = d.count /\ v.dirty = d.dirty
      /\ v.child = d.child /\ v.position = d.position
      /\ v.nbr = [[d.nbr EXCEPT !["r"] = right] EXCEPT !["l"] = IF n = DNull THEN @ ELSE [@ EXCEPT ![n] = p]]
      /\ v.end = [[d.end EXCEPT !["l"] = first] EXCEPT !["r"] = IF @ = e THEN p ELSE @]
  BY DEF DUnchain, DRecord
<1>2. /\ d.nbr \in [DSide -> [DictKey -> DPointer]] /\ d.end \in [DSide -> DPointer]
      /\ "l" \in DSide /\ "r" \in DSide /\ "l" # "r" /\ DSide = {"l", "r"}
      /\ DOther("l") = "r" /\ DOther("r") = "l"
      /\ DNull \notin DictKey /\ \A x \in DPointer : x = DNull \/ x \in DictKey
  BY Sides, Apart DEF DRecord, DPointer
<1>3. /\ d.nbr["l"] \in [DictKey -> DPointer] /\ d.nbr["r"] \in [DictKey -> DPointer]
      /\ p \in DPointer /\ n \in DPointer
  BY <1>2
<1>4. /\ right \in [DictKey -> DPointer]
      /\ \A x \in DictKey : right[x] = IF x = p THEN n ELSE d.nbr["r"][x]
  BY <1>2, <1>3
<1>5. /\ left \in [DictKey -> DPointer]
      /\ \A x \in DictKey : left[x] = IF x = n THEN p ELSE d.nbr["l"][x]
  BY <1>2, <1>3
<1>6. v.nbr \in [DSide -> [DictKey -> DPointer]] /\ v.nbr["l"] = left /\ v.nbr["r"] = right
  <2> PICK f : f = [d.nbr EXCEPT !["r"] = right]
    OBVIOUS
  <2>1. f["l"] = d.nbr["l"] /\ f["r"] = right /\ f \in [DSide -> [DictKey -> DPointer]]
    BY <1>2, <1>4
  <2>2. v.nbr = [f EXCEPT !["l"] = left]
    <3>1. v.nbr = [f EXCEPT !["l"] = IF n = DNull THEN f["l"] ELSE [f["l"] EXCEPT ![n] = p]]
      BY <1>1
    <3> QED
      BY <2>1, <3>1
  <2> QED
    BY <1>2, <1>5, <2>1, <2>2
<1>7. v.end \in [DSide -> DPointer] /\ v.end["l"] = first /\ v.end["r"] = last
  <2> PICK f : f = [d.end EXCEPT !["l"] = first]
    OBVIOUS
  <2>1. f["r"] = d.end["r"] /\ f["l"] = first /\ f \in [DSide -> DPointer]
    BY <1>2, <1>3
  <2>2. v.end = [f EXCEPT !["r"] = last]
    <3>1. v.end = [f EXCEPT !["r"] = IF f["r"] = e THEN p ELSE f["r"]]
      BY <1>1
    <3> QED
      BY <2>1, <3>1
  <2>3. last \in DPointer
    BY <1>2, <1>3
  <2> QED
    BY <1>2, <2>1, <2>2, <2>3
<1>8. v \in DRecord
  <2>1. Whole(v)
    BY WholeRecord, UnchainWhole
  <2>2. Typed(d)
    BY DEF DRecord, Typed
  <2>3. Typed(v)
    BY ONLY <1>1, <1>6, <1>7, <2>2 DEF Typed
  <2> QED
    BY ONLY <2>1, <2>3, WholeTyped
<1>9. Unchained(DictKey, e, d.nbr, d.end, v.nbr, v.end)
  BY <1>2, <1>4, <1>5, <1>6, <1>7 DEF Unchained
<1> QED
  BY <1>1, <1>8, <1>9

\* the root is taken out of the list and of the count
CountedDown(d) == [d EXCEPT !.count = @ - 1, !.dirty = TRUE]

\* what unlinking does to the count and to the mark
LEMMA CountFields ==
  ASSUME NEW d \in DRecord, d.count # 0, NEW v, v = CountedDown(d)
  PROVE  /\ v \in DRecord /\ v.count = d.count - 1 /\ v.dirty
         /\ v.cmp = d.cmp /\ v.root = d.root /\ v.child = d.child /\ v.nbr = d.nbr /\ v.end = d.end
<1>1. /\ v.count = d.count - 1 /\ v.dirty = TRUE /\ v.position = d.position
      /\ v.cmp = d.cmp /\ v.root = d.root /\ v.child = d.child /\ v.nbr = d.nbr /\ v.end = d.end
  BY DEF DRecord, CountedDown
<1>2. Whole(v)
  BY WholeRecord, UnchainWhole DEF CountedDown
<1>3. Typed(d)
  BY DEF DRecord, Typed
<1>4. d.count - 1 \in Nat
  BY DEF DRecord
<1>5. Typed(v)
  BY ONLY <1>1, <1>3, <1>4 DEF Typed
<1> QED
  BY <1>1, <1>2, <1>5, WholeTyped

\* a freed element is wiped, the others are as they were
LEMMA WipeFields ==
  ASSUME DictKeyAssumption, NEW d \in DRecord, NEW e \in DictKey, NEW v, v = DWipe(d, e)
  PROVE  /\ v \in DRecord
         /\ v.cmp = d.cmp /\ v.root = d.root /\ v.count = d.count /\ v.dirty = d.dirty /\ v.end = d.end
         /\ \A s \in DSide : \A x \in DictKey \ {e} : v.child[s][x] = d.child[s][x] /\ v.nbr[s][x] = d.nbr[s][x]
<1>1. /\ v.cmp = d.cmp /\ v.root = d.root /\ v.count = d.count /\ v.dirty = d.dirty /\ v.end = d.end
      /\ v.child = [s \in DSide |-> [d.child[s] EXCEPT ![e] = DNull]]
      /\ v.nbr = [s \in DSide |-> [d.nbr[s] EXCEPT ![e] = DNull]]
      /\ v.position = [d.position EXCEPT ![e] = 0]
  BY DEF DWipe, DRecord
<1>2. /\ d.child \in [DSide -> [DPlace -> DPointer]] /\ d.nbr \in [DSide -> [DictKey -> DPointer]]
      /\ d.position \in [DictKey -> Nat] /\ e \in DPlace /\ DNull \in DPointer /\ DictKey \subseteq DPlace
  BY DEF DRecord, DChildren, DPlace, DPointer
<1>3. v.child \in [DSide -> [DPlace -> DPointer]]
      /\ \A s \in DSide : \A x \in DictKey \ {e} : v.child[s][x] = d.child[s][x]
  BY <1>1, <1>2
<1>4. v.nbr \in [DSide -> [DictKey -> DPointer]]
      /\ \A s \in DSide : \A x \in DictKey \ {e} : v.nbr[s][x] = d.nbr[s][x]
  BY <1>1, <1>2
<1>5. v.position \in [DictKey -> Nat]
  BY <1>1, <1>2
<1>6. v \in DRecord
  <2>1. Whole(v)
    BY WholeRecord, UnchainWhole
  <2>2. Typed(d)
    BY DEF DRecord, Typed
  <2>3. Typed(v)
    BY ONLY <1>1, <1>3, <1>4, <1>5, <2>2 DEF Typed, DChildren
  <2> QED
    BY ONLY <2>1, <2>3, WholeTyped
<1> QED
  BY <1>1, <1>3, <1>4, <1>6

\* a deletion takes its key out of the tree, the list and the count
LEMMA DeleteHolds ==
  ASSUME DictKeyAssumption, NEW d, NEW K, Dict(d, K), NEW key \in DictKey, NEW v, v = DDelete(d, key)
  PROVE  /\ Dict(v, K \ {key}) /\ v.cmp = d.cmp
         /\ key \in K => v.dirty
         /\ key \notin K => SameButTree(d, v)
<1> PICK d1 : d1 = mowgli_dictionary_retune(d, key)
  OBVIOUS
<1>1. Dict(d1, K) /\ Retuned(d, d1, K, key)
  BY RetuneHolds
<1>2. SameButTree(d, d1) /\ (d1.root = key <=> key \in K)
  BY <1>1 DEF Retuned, DFound
<1>3. CASE key \notin K
  <2>1. v = d1 /\ K \ {key} = K
    BY <1>2, <1>3 DEF DDelete, DFound
  <2> QED
    BY <1>1, <1>2, <1>3, <2>1 DEF SameButTree
<1>4. CASE key \in K
  <2> PICK j : j = DJoin(d1)
    OBVIOUS
  <2> PICK u : u = DUnchain(j, key)
    OBVIOUS
  <2> PICK w : w = CountedDown(u)
    OBVIOUS
  <2> PICK c, H : c = d.cmp /\ H = K \ {key}
    OBVIOUS
  <2>1. v = DWipe(w, key)
    BY <1>2, <1>4 DEF DDelete, DFound, mowgli_dictionary_unlink_root, CountedDown
  <2>2. /\ j \in DRecord /\ SameButTree(d1, j)
        /\ Tree(d1.cmp, j.child, j.root, K \ {d1.root})
    BY <1>1, <1>2, <1>4, JoinTree
  <2>3. Tree(c, j.child, j.root, H)
    BY <1>2, <1>4, <2>2 DEF SameButTree
  <2>4. /\ u \in DRecord
        /\ u.cmp = j.cmp /\ u.root = j.root /\ u.count = j.count /\ u.dirty = j.dirty
        /\ u.child = j.child /\ u.position = j.position
        /\ Unchained(DictKey, key, j.nbr, j.end, u.nbr, u.end)
    BY <2>2, UnchainFields
  <2>5. j.count = Cardinality(K) /\ Cardinality(K) # 0 /\ Cardinality(H) = Cardinality(K) - 1
    <3>1. K \in SUBSET DictKey /\ d1.count = Cardinality(K)
      BY <1>1 DEF Dict
    <3>2. IsFiniteSet(K) /\ Cardinality(K) \in Nat /\ Cardinality(K \ {key}) = Cardinality(K) - 1
      BY <1>4, <3>1, KeysFinite
    <3>3. Cardinality(K) # 0
      BY <1>4, <3>2, FS_EmptySet
    <3> QED
      BY <2>2, <3>1, <3>2, <3>3 DEF SameButTree
  <2>6. /\ w \in DRecord /\ w.count = u.count - 1 /\ w.dirty
        /\ w.cmp = u.cmp /\ w.root = u.root /\ w.child = u.child /\ w.nbr = u.nbr /\ w.end = u.end
    BY <2>4, <2>5, CountFields
  <2>7. /\ v \in DRecord
        /\ v.cmp = w.cmp /\ v.root = w.root /\ v.count = w.count /\ v.dirty = w.dirty /\ v.end = w.end
        /\ \A s \in DSide : \A x \in DictKey \ {key} : v.child[s][x] = w.child[s][x] /\ v.nbr[s][x] = w.nbr[s][x]
    <3>1. DictKeyAssumption /\ w \in DRecord /\ key \in DictKey /\ v = DWipe(w, key)
      BY <2>1, <2>6
    <3> QED
      BY ONLY <3>1, WipeFields
  <2>8. H \in SUBSET (DictKey \ {key}) /\ K \in SUBSET DictKey
    BY <1>1 DEF Dict
  <2>9. v.cmp = c /\ j.cmp = c /\ Ordered(c)
    <3>1. v.cmp = c /\ j.cmp = c
      BY <1>2, <2>2, <2>4, <2>6, <2>7 DEF SameButTree
    <3> QED
      BY <2>7, <3>1, Order DEF DRecord
  <2>10. Tree(c, v.child, v.root, H)
    <3>1. Alike(j.child, v.child, H)
      BY <2>4, <2>6, <2>7, <2>8 DEF Alike
    <3> QED
      BY <2>3, <2>4, <2>6, <2>7, <3>1, TreeAlike
  <2>11. Chained(c, H, v.nbr, v.end)
    <3>1. Unchained(K, key, j.nbr, j.end, v.nbr, v.end)
      BY <2>4, <2>6, <2>7, <2>8 DEF Unchained
    <3>2. Chained(c, K, j.nbr, j.end)
      BY <1>1, <1>2, <2>2 DEF Dict, SameButTree
    <3>3. /\ Ordered(c) /\ DictKeyAssumption /\ K \in SUBSET DictKey /\ Chained(c, K, j.nbr, j.end)
          /\ key \in K /\ Unchained(K, key, j.nbr, j.end, v.nbr, v.end)
      BY <1>4, <2>8, <2>9, <3>1, <3>2
    <3>4. Chained(c, K \ {key}, v.nbr, v.end)
      BY ONLY <3>3, ChainWithout
    <3> QED
      BY <3>4
  <2>12. v.count = Cardinality(H)
    BY <2>4, <2>5, <2>6, <2>7
  <2>13. H \in SUBSET DictKey
    BY <2>8
  <2> QED
    BY <1>4, <2>6, <2>7, <2>9, <2>10, <2>11, <2>12, <2>13 DEF Dict
<1> QED
  BY <1>3, <1>4

-----------------------------------------------------------------------------
(* The keys in order.                                                      *)

\* a sequence of keys that goes on towards side s
Sorted(c, s, p) == \A i, j \in DOMAIN p : i < j => Lies(c, s, p[j], p[i])

\* a sequence in order has no repetitions: it is as long as its set is large
LEMMA SortedLen ==
  ASSUME NEW c, Ordered(c), DictKeyAssumption, NEW s \in DSide, NEW K \in SUBSET DictKey,
         NEW p \in Seq(K), Sorted(c, s, p), ToSet(p) = K
  PROVE  Injective(p) /\ Len(p) = Cardinality(K)
<1>1. DOMAIN p = 1 .. Len(p) /\ Len(p) \in Nat /\ p \in [1 .. Len(p) -> K]
  OBVIOUS
<1>2. \A i, j \in DOMAIN p : p[i] = p[j] => ~(i < j)
  BY <1>1 DEF Sorted, Ordered
<1>3. Injective(p)
  <2>1. \A i, j \in DOMAIN p : ~(i < j) /\ ~(j < i) => i = j
    BY <1>1
  <2> QED
    BY <1>2, <2>1 DEF Injective
<1> PICK n \in Nat : n = Len(p)
  BY <1>1
<1>4. p \in Surjection(1 .. n, K)
  BY <1>1 DEF Surjection, ToSet
<1>5. p \in Injection(1 .. n, K)
  <2>1. p \in [1 .. n -> K] /\ DOMAIN p = 1 .. n
    BY <1>1
  <2>2. \A i, j \in DOMAIN p : p[i] = p[j] => i = j
    BY <1>3 DEF Injective
  <2> QED
    BY ONLY <2>1, <2>2 DEF Injection, IsInjective
<1>6. IsFiniteSet(1 .. n) /\ Cardinality(1 .. n) = n
  <2>1. n \in Int /\ 1 \in Int
    OBVIOUS
  <2>2. IsFiniteSet(1 .. n) /\ Cardinality(1 .. n) = IF 1 > n THEN 0 ELSE n - 1 + 1
    BY ONLY <2>1, FS_Interval
  <2> QED
    BY <2>2
<1>7. Cardinality(K) = Cardinality(1 .. n)
  BY ONLY <1>4, <1>5, <1>6, FS_Surjection
<1> QED
  BY <1>3, <1>6, <1>7

\* there is one way to list a set in order
LEMMA SortedUnique ==
  ASSUME NEW c, Ordered(c), DictKeyAssumption, NEW s \in DSide, NEW K \in SUBSET DictKey,
         NEW p \in Seq(K), Sorted(c, s, p), ToSet(p) = K,
         NEW q \in Seq(K), Sorted(c, s, q), ToSet(q) = K
  PROVE  p = q
<1>1. Injective(p) /\ Len(p) = Cardinality(K) /\ Injective(q) /\ Len(q) = Cardinality(K)
  BY SortedLen
<1> PICK N \in Nat : N = Cardinality(K)
  BY KeysFinite
<1>2. /\ DOMAIN p = 1 .. N /\ DOMAIN q = 1 .. N
      /\ \A i \in 1 .. N : p[i] \in K /\ q[i] \in K
      /\ \A i \in 1 .. N : \E j \in 1 .. N : p[i] = q[j]
      /\ \A i \in 1 .. N : \E j \in 1 .. N : q[i] = p[j]
  <2>1. DOMAIN p = 1 .. N /\ DOMAIN q = 1 .. N
    BY <1>1
  <2>2. \A i \in 1 .. N : p[i] \in K /\ q[i] \in K
    BY <2>1
  <2>3. \A x \in K : \E j \in 1 .. N : x = q[j]
    BY <2>1 DEF ToSet
  <2>4. \A x \in K : \E j \in 1 .. N : x = p[j]
    BY <2>1 DEF ToSet
  <2> QED
    BY <2>1, <2>2, <2>3, <2>4
<1> DEFINE Differ == {i \in 1 .. N : p[i] # q[i]}
<1>3. ASSUME Differ # {} PROVE FALSE
  <2>1. PICK i \in Differ : \A j \in Differ : i <= j
    <3>1. Differ \in SUBSET Nat
      OBVIOUS
    <3> HIDE DEF Differ
    <3> QED
      BY <1>3, <3>1, NatMin
  <2>2. i \in 1 .. N /\ p[i] # q[i] /\ \A j \in 1 .. N : j < i => p[j] = q[j]
    BY <2>1
  <2> HIDE DEF Differ
  <2>3. PICK j \in 1 .. N : p[i] = q[j]
    BY <1>2, <2>2
  <2>4. PICK k \in 1 .. N : q[i] = p[k]
    BY <1>2, <2>2
  <2>5. i < j
    <3>1. j < i => p[j] = p[i]
      BY <2>2, <2>3
    <3>2. ~(j < i)
      BY <1>1, <1>2, <2>2, <3>1 DEF Injective
    <3> QED
      BY <2>2, <2>3, <3>2
  <2>6. i < k
    <3>1. k < i => q[k] = q[i]
      BY <2>2, <2>4
    <3>2. ~(k < i)
      BY <1>1, <1>2, <2>2, <3>1 DEF Injective
    <3> QED
      BY <2>2, <2>4, <3>2
  <2>7. Lies(c, s, q[j], q[i]) /\ Lies(c, s, p[k], p[i])
    BY <1>2, <2>2, <2>5, <2>6 DEF Sorted
  <2> PICK x \in DictKey, y \in DictKey : x = p[i] /\ y = q[i]
    BY <1>2, <2>2
  <2>8. Lies(c, s, x, y) /\ Lies(c, s, y, x)
    BY <2>3, <2>4, <2>7
  <2> QED
    BY ONLY <2>8, Ordered(c), s \in DSide, x \in DictKey, y \in DictKey DEF Ordered
<1>4. \A i \in 1 .. Len(p) : p[i] = q[i]
  BY <1>1, <1>3
<1> QED
  BY <1>1, <1>4, SeqEqual

\* the other way round
LEMMA ReverseSorted ==
  ASSUME NEW c, Ordered(c), NEW s \in DSide, NEW K \in SUBSET DictKey,
         NEW p \in Seq(K), Sorted(c, s, p)
  PROVE  /\ Reverse(p) \in Seq(K) /\ Sorted(c, DOther(s), Reverse(p))
         /\ ToSet(Reverse(p)) = ToSet(p)
<1> PICK N \in Nat : N = Len(p)
  OBVIOUS
<1> PICK q : q = Reverse(p)
  OBVIOUS
<1>1. DOMAIN p = 1 .. N /\ \A i \in 1 .. N : p[i] \in K /\ N - i + 1 \in 1 .. N
  OBVIOUS
<1>2. q = [i \in 1 .. N |-> p[N - i + 1]]
  BY DEF Reverse
<1>3. q \in Seq(K) /\ Len(q) = N
  <2>1. q \in [1 .. N -> K]
    BY <1>1, <1>2
  <2> QED
    BY ONLY <2>1, N \in Nat, FunctionIsSeq
<1>4. ToSet(q) = ToSet(p)
  <2>1. \A i \in 1 .. N : N - (N - i + 1) + 1 = i
    OBVIOUS
  <2>2. \A i \in 1 .. N : \E j \in 1 .. N : p[i] = q[j]
    BY <1>1, <1>2, <2>1
  <2>3. \A i \in 1 .. N : \E j \in 1 .. N : q[i] = p[j]
    BY <1>1, <1>2
  <2>4. DOMAIN q = 1 .. N
    BY <1>2
  <2>5. ToSet(p) = {p[i] : i \in 1 .. N} /\ ToSet(q) = {q[i] : i \in 1 .. N}
    BY <1>1, <2>4 DEF ToSet
  <2> QED
    <3>1. \A x \in ToSet(p) : x \in ToSet(q)
      BY ONLY <2>2, <2>5
    <3>2. \A x \in ToSet(q) : x \in ToSet(p)
      BY ONLY <2>3, <2>5
    <3> QED
      BY ONLY <3>1, <3>2
<1>5. ASSUME NEW i \in 1 .. N, NEW j \in 1 .. N, i < j PROVE Lies(c, DOther(s), q[j], q[i])
  <2>1. N - j + 1 < N - i + 1
    BY <1>5
  <2>2. Lies(c, s, q[i], q[j]) /\ q[i] \in DictKey /\ q[j] \in DictKey
    <3> PICK h, k : h = N - i + 1 /\ k = N - j + 1
      OBVIOUS
    <3>1. h \in DOMAIN p /\ k \in DOMAIN p /\ k < h /\ q[i] = p[h] /\ q[j] = p[k]
      BY <1>1, <1>2, <2>1
    <3>2. Lies(c, s, p[h], p[k]) /\ p[h] \in K /\ p[k] \in K
      BY <1>1, <3>1 DEF Sorted
    <3> QED
      BY <3>1, <3>2
  <2> QED
    BY ONLY <2>2, Ordered(c), s \in DSide DEF Ordered
<1> QED
  BY <1>2, <1>3, <1>4, <1>5 DEF Sorted

-----------------------------------------------------------------------------
(* The walk along the list.                                                *)

\* u lists the keys from e on towards side s, to its last, in order
Walked(c, K, s, e, u) ==
  /\ u \in Seq(K) /\ Len(u) # 0 /\ Sorted(c, s, u)
  /\ ToSet(u) \cup Part(c, K, s, Last(u)) = {e} \cup Part(c, K, s, e)

\* a turn of a walk
LEMMA WalkStep ==
  ASSUME NEW c, Ordered(c), DictKeyAssumption, NEW s \in DSide, NEW K \in SUBSET DictKey,
         NEW e \in K, NEW u, Walked(c, K, s, e, u), NEW y,
         Nearest(c, Part(c, K, s, Last(u)), s, y)
  PROVE  /\ Last(u) \in K
         /\ y = DNull => Part(c, K, s, Last(u)) = {}
         /\ y # DNull => /\ Walked(c, K, s, e, Append(u, y)) /\ Last(Append(u, y)) = y
                         /\ Cardinality(Part(c, K, s, y)) < Cardinality(Part(c, K, s, Last(u)))
<1> PICK x, n : x = Last(u) /\ n = Len(u)
  OBVIOUS
<1>1. /\ u \in Seq(K) /\ n \in Nat /\ n # 0 /\ DOMAIN u = 1 .. n /\ x = u[n] /\ n \in 1 .. n
      /\ \A i \in 1 .. n : u[i] \in K
  BY DEF Walked, Last
<1>2. x \in K /\ DNull \notin DictKey
  BY <1>1, Apart
<1>3. ASSUME y = DNull PROVE Part(c, K, s, x) = {}
  BY <1>2, <1>3 DEF Nearest, Part
<1>4. ASSUME y # DNull
      PROVE  /\ Walked(c, K, s, e, Append(u, y)) /\ Last(Append(u, y)) = y
             /\ Cardinality(Part(c, K, s, y)) < Cardinality(Part(c, K, s, x))
  <2>1. y \in K /\ Lies(c, s, y, x) /\ \A z \in K : Lies(c, s, z, x) => z = y \/ Lies(c, s, z, y)
    BY <1>4 DEF Nearest, Part
  <2>2. Part(c, K, s, x) = {y} \cup Part(c, K, s, y) /\ y \notin Part(c, K, s, y)
    <3>1. \A z \in K : Lies(c, s, z, y) => Lies(c, s, z, x)
      BY ONLY <1>2, <2>1, Ordered(c), s \in DSide, K \in SUBSET DictKey DEF Ordered
    <3>2. ~Lies(c, s, y, y)
      BY ONLY <2>1, Ordered(c), s \in DSide, K \in SUBSET DictKey DEF Ordered
    <3> QED
      BY <2>1, <3>1, <3>2 DEF Part
  <2> PICK v : v = Append(u, y)
    OBVIOUS
  <2>3. /\ v \in Seq(K) /\ Len(v) = n + 1 /\ DOMAIN v = 1 .. n + 1 /\ v[n + 1] = y
        /\ \A i \in 1 .. n : v[i] = u[i]
    BY <1>1, <2>1
  <2>4. Last(v) = y /\ ToSet(v) = ToSet(u) \cup {y}
    BY <1>1, <2>1, <2>3, AppendSet DEF Last
  <2>5. Sorted(c, s, v)
    <3> SUFFICES ASSUME NEW i \in 1 .. n + 1, NEW j \in 1 .. n + 1, i < j
                 PROVE  Lies(c, s, v[j], v[i])
      BY <2>3 DEF Sorted
    <3>1. i \in 1 .. n /\ (j \in 1 .. n \/ j = n + 1)
      BY <1>1
    <3>2. CASE j \in 1 .. n
      BY <1>1, <2>3, <3>1, <3>2 DEF Walked, Sorted
    <3>3. CASE j = n + 1
      <4>1. i = n \/ (i < n)
        BY <1>1, <3>1
      <4>2. i < n => Lies(c, s, x, u[i])
        BY <1>1, <3>1 DEF Walked, Sorted
      <4> PICK z \in DictKey : z = u[i]
        BY <1>1, <3>1
      <4>3. z = x \/ Lies(c, s, x, z)
        BY <1>1, <4>1, <4>2
      <4>4. Lies(c, s, y, z)
        BY ONLY <1>2, <2>1, <4>3, Ordered(c), s \in DSide, K \in SUBSET DictKey, z \in DictKey DEF Ordered
      <4> QED
        BY <2>3, <3>1, <3>3, <4>4
    <3> QED
      BY <3>1, <3>2, <3>3
  <2>6. ToSet(v) \cup Part(c, K, s, y) = {e} \cup Part(c, K, s, e)
    <3>1. ToSet(u) \cup Part(c, K, s, x) = {e} \cup Part(c, K, s, e)
      BY DEF Walked
    <3> QED
      BY <2>2, <2>4, <3>1
  <2>7. Walked(c, K, s, e, v)
    BY <1>1, <2>3, <2>4, <2>5, <2>6 DEF Walked
  <2>8. Cardinality(Part(c, K, s, y)) < Cardinality(Part(c, K, s, x))
    <3> PICK A, B : A = Part(c, K, s, x) /\ B = Part(c, K, s, y)
      OBVIOUS
    <3>1. B \in SUBSET DictKey /\ y \notin B /\ A = B \cup {y}
      BY <2>2 DEF Part
    <3>2. Cardinality(B) \in Nat /\ Cardinality(A) = Cardinality(B) + 1
      BY <3>1, KeysFinite
    <3> QED
      BY <3>2
  <2> QED
    BY <2>4, <2>7, <2>8
<1> QED
  BY <1>2, <1>3, <1>4

\* link gives each key its neighbour on side s
Threaded(c, K, s, link) == \A x \in K : Nearest(c, Part(c, K, s, x), s, link[x])

\* p lists, in order, e and the keys on side s of it
Listed(c, K, s, e, p) == p \in Seq(K) /\ Sorted(c, s, p) /\ ToSet(p) = {e} \cup Part(c, K, s, e)

(* A walk along the neighbours on side s lists, in order, the key it starts *)
(* from and the keys on that side of it.                                    *)
LEMMA WalkIs ==
  ASSUME NEW c, Ordered(c), DictKeyAssumption, NEW s \in DSide, NEW K \in SUBSET DictKey,
         NEW link, Threaded(c, K, s, link), NEW e \in K
  PROVE  Listed(c, K, s, e, Walk(link, e, DNull, Cardinality(DictKey)))
<1> PICK p : p = Walk(link, e, DNull, Cardinality(DictKey))
  OBVIOUS
<1> DEFINE T == {u \in Seq(K) : Walked(c, K, s, e, u)}
           F == [u \in T |-> IF link[Last(u)] = DNull THEN u ELSE Append(u, link[Last(u)])]
           End == {u \in T : link[Last(u)] = DNull}
           Size(u) == Cardinality(Part(c, K, s, Last(u)))
           Enough == [u \in T |-> {b \in Nat : Size(u) <= b}]
           a == <<e>>
           C == Cardinality(DictKey)
           walk[k \in Nat] ==
             IF k = 0 THEN <<e>>
             ELSE LET u == walk[k - 1]
                  IN  IF link[Last(u)] = DNull THEN u ELSE Append(u, link[Last(u)])
<1>1. ASSUME NEW u \in T
      PROVE  /\ link[Last(u)] = DNull => Part(c, K, s, Last(u)) = {}
             /\ link[Last(u)] # DNull => /\ Append(u, link[Last(u)]) \in T
                                         /\ Size(Append(u, link[Last(u)])) < Size(u)
  <2>1. Walked(c, K, s, e, u)
    OBVIOUS
  <2>2. Last(u) \in K
    BY <2>1 DEF Walked, Last
  <2> PICK y : y = link[Last(u)]
    OBVIOUS
  <2>3. /\ Ordered(c) /\ DictKeyAssumption /\ s \in DSide /\ K \in SUBSET DictKey
        /\ e \in K /\ Walked(c, K, s, e, u) /\ Nearest(c, Part(c, K, s, Last(u)), s, y)
    BY <2>1, <2>2 DEF Threaded
  <2>4. /\ y = DNull => Part(c, K, s, Last(u)) = {}
        /\ y # DNull => /\ Walked(c, K, s, e, Append(u, y)) /\ Last(Append(u, y)) = y
                        /\ Cardinality(Part(c, K, s, y)) < Cardinality(Part(c, K, s, Last(u)))
    BY ONLY <2>3, WalkStep
  <2> PICK v : v = Append(u, y)
    OBVIOUS
  <2>5. y # DNull => v \in T /\ Size(v) < Size(u)
    BY <2>4 DEF Walked
  <2> HIDE DEF T, Size
  <2> QED
    BY <2>4, <2>5
<1>2. \A u \in T : Size(u) \in Nat /\ Size(u) <= C
  <2> TAKE u \in T
  <2> PICK A : A = Part(c, K, s, Last(u))
    OBVIOUS
  <2>1. A \in SUBSET DictKey
    BY DEF Part
  <2>2. Cardinality(A) \in Nat /\ Cardinality(A) <= C
    BY <2>1, FS_Subset, FS_CardinalityType DEF DictKeyAssumption
  <2> QED
    BY <2>2
<1>3. C \in Nat
  BY FS_CardinalityType DEF DictKeyAssumption
<1>4. a \in T
  <2>1. a \in Seq(K) /\ Len(a) = 1 /\ Last(a) = e /\ a[1] = e /\ DOMAIN a = {1}
    BY DEF Last
  <2>2. ToSet(a) = {e}
    BY <2>1 DEF ToSet
  <2>3. Sorted(c, s, a)
    BY <2>1 DEF Sorted
  <2>4. ToSet(a) \cup Part(c, K, s, Last(a)) = {e} \cup Part(c, K, s, e)
    BY ONLY <2>1, <2>2
  <2>5. Walked(c, K, s, e, a)
    BY ONLY <2>1, <2>3, <2>4 DEF Walked
  <2> HIDE DEF a
  <2> QED
    BY <2>1, <2>5
<1>5. /\ StepOn(T, F) /\ (\A u \in T : u \in End => F[u] = u)
      /\ Enough \in [T -> SUBSET Nat]
      /\ (\A u \in T : u \notin End => \A b \in Enough[u] : b - 1 \in Enough[F[u]])
      /\ a \in T /\ C \in Enough[a]
  <2>1. \A u \in T : u \in End => F[u] = u
    OBVIOUS
  <2>2. \A u \in T : u \notin End => F[u] \in T /\ Size(F[u]) < Size(u)
    BY <1>1
  <2>3. \A u \in T : Enough[u] = {b \in Nat : Size(u) <= b}
    OBVIOUS
  <2>4. Enough \in [T -> SUBSET Nat]
    OBVIOUS
  <2>5. F = [u \in T |-> F[u]] /\ End \subseteq T
    OBVIOUS
  <2> HIDE DEF F, End, T, Size, Enough, a, C
  <2>6. StepOn(T, F)
    BY <2>1, <2>2, <2>5 DEF StepOn
  <2>7. ASSUME NEW u \in T, u \notin End, NEW b \in Enough[u] PROVE b - 1 \in Enough[F[u]]
    <3>1. b \in Nat /\ Size(u) <= b /\ Size(F[u]) < Size(u) /\ F[u] \in T
      BY <2>2, <2>3, <2>7
    <3>2. Size(u) \in Nat /\ Size(F[u]) \in Nat
      BY <1>2, <3>1
    <3>3. b - 1 \in Nat /\ Size(F[u]) <= b - 1
      BY ONLY <3>1, <3>2
    <3> QED
      BY <2>3, <3>1, <3>3
  <2>8. C \in Enough[a]
    BY <1>2, <1>3, <1>4, <2>3
  <2> QED
    BY <1>4, <2>1, <2>4, <2>6, <2>7, <2>8
<1>6. Follows(walk, T, a, F)
  <2>1. PICK g \in [Nat -> T] : LoopStates(a, F, g)
    <3> HIDE DEF F, T, a
    <3> QED
      BY <1>4, <1>5, Loops DEF LoopDefined
  <2>2. g = [k \in Nat |->
             IF k = 0 THEN <<e>>
             ELSE LET u == g[k - 1]
                  IN  IF link[Last(u)] = DNull THEN u ELSE Append(u, link[Last(u)])]
    <3>1. \A k \in Nat : k # 0 =>
            F[g[k - 1]] = IF link[Last(g[k - 1])] = DNull THEN g[k - 1] ELSE Append(g[k - 1], link[Last(g[k - 1])])
      BY <2>1
    <3>2. a = <<e>>
      OBVIOUS
    <3> HIDE DEF F, T, a
    <3> QED
      BY <2>1, <3>1, <3>2 DEF LoopStates
  <2>3. walk = [k \in Nat |->
             IF k = 0 THEN <<e>>
             ELSE LET u == walk[k - 1]
                  IN  IF link[Last(u)] = DNull THEN u ELSE Append(u, link[Last(u)])]
    BY <2>2
  <2>4. walk[0] = a /\ \A k \in Nat : walk[k + 1] =
          IF link[Last(walk[k])] = DNull THEN walk[k] ELSE Append(walk[k], link[Last(walk[k])])
    <3>1. \A k \in Nat : k + 1 \in Nat /\ k + 1 # 0 /\ (k + 1) - 1 = k
      OBVIOUS
    <3> HIDE DEF walk
    <3> QED
      BY <2>3, <3>1
  <2> HIDE DEF walk
  <2>5. \A k \in Nat : walk[k] \in T => walk[k + 1] = F[walk[k]]
    BY <2>4
  <2> HIDE DEF F, T, a
  <2> QED
    BY <2>4, <2>5 DEF Follows
<1>7. walk[C] \in T /\ walk[C] \in End
  <2> PICK f : f = walk
    OBVIOUS
  <2>1. Follows(f, T, a, F)
    BY <1>6
  <2> HIDE DEF T, F, End, Enough, C, walk, a
  <2>2. f[C] \in T /\ f[C] \in End
    BY ONLY <1>5, <2>1, LoopReaches
  <2> QED
    BY <2>2
<1>8. p = walk[C]
  BY DEF Walk
<1> HIDE DEF walk, C
<1>9. Walked(c, K, s, e, p) /\ link[Last(p)] = DNull /\ p \in T
  BY <1>7, <1>8
<1>10. Part(c, K, s, Last(p)) = {}
  BY <1>1, <1>9
<1>11. Listed(c, K, s, e, p)
  BY <1>9, <1>10 DEF Walked, Listed
<1> QED
  BY <1>11

(* The list from an element on, on side s, is what DPath gives.            *)
LEMMA PathIs ==
  ASSUME DictKeyAssumption, NEW d, NEW K, Dict(d, K), NEW s \in DSide, NEW e \in K,
         NEW p, p = DPath(d, s, e)
  PROVE  p \in Seq(K) /\ Sorted(d.cmp, s, p) /\ ToSet(p) = {e} \cup Part(d.cmp, K, s, e)
<1> PICK c, link : c = d.cmp /\ link = d.nbr[s]
  OBVIOUS
<1>1. c \in DOrder /\ Ordered(c) /\ K \in SUBSET DictKey /\ e # DNull
  BY Order, Apart DEF Dict, DRecord
<1>2. Threaded(c, K, s, link)
  BY DEF Dict, Chained, Threaded
<1>3. p = Walk(link, e, DNull, Cardinality(DictKey))
  BY <1>1 DEF DPath
<1>4. /\ Ordered(c) /\ DictKeyAssumption /\ s \in DSide /\ K \in SUBSET DictKey
      /\ Threaded(c, K, s, link) /\ e \in K
  BY <1>1, <1>2
<1>5. Listed(c, K, s, e, Walk(link, e, DNull, Cardinality(DictKey)))
  BY ONLY <1>4, WalkIs
<1> QED
  BY <1>3, <1>5 DEF Listed

(* The whole list, in both directions.                                     *)
LEMMA ListIs ==
  ASSUME DictKeyAssumption, NEW d, NEW K, Dict(d, K), NEW s \in DSide,
         NEW p, p = DPath(d, s, d.end[DOther(s)])
  PROVE  p \in Seq(K) /\ Sorted(d.cmp, s, p) /\ ToSet(p) = K
<1> PICK c, e, o : c = d.cmp /\ o = DOther(s) /\ e = d.end[o]
  OBVIOUS
<1>1. c \in DOrder /\ Ordered(c) /\ K \in SUBSET DictKey /\ DNull \notin DictKey
  BY Order, Apart DEF Dict, DRecord
<1>2. Nearest(c, K, s, e)
  BY Sides DEF Dict, Chained
<1>3. CASE K = {}
  <2>1. p = << >>
    BY <1>2, <1>3 DEF Nearest, DPath
  <2> QED
    BY <1>3, <2>1 DEF Sorted, ToSet
<1>4. CASE K # {}
  <2>1. e \in K /\ \A x \in K : x = e \/ Lies(c, s, x, e)
    BY <1>2, <1>4 DEF Nearest
  <2>2. {e} \cup Part(c, K, s, e) = K
    BY <2>1 DEF Part
  <2>3. p \in Seq(K) /\ Sorted(c, s, p) /\ ToSet(p) = {e} \cup Part(c, K, s, e)
    BY <2>1, PathIs
  <2> QED
    BY <2>2, <2>3
<1> QED
  BY <1>3, <1>4

-----------------------------------------------------------------------------
(* What can be reached in the tree.                                        *)

\* no pointer leads out of R
Closed(d, R) == \A s \in DSide : \A x \in R : d.child[s][x] \in R \cup {DNull}

\* a turn of the search for what can be reached
Pointers(d, x) == {d.child[s][x] : s \in DSide}
Spread(d, R) == R \cup ((UNION {Pointers(d, x) : x \in R}) \ {DNull})

\* a turn finds something new, or all is found
LEMMA SpreadStep ==
  ASSUME DictKeyAssumption, NEW d, NEW X \in SUBSET DictKey, Closed(d, X), NEW R \in SUBSET X
  PROVE  /\ Spread(d, R) \in SUBSET X /\ R \subseteq Spread(d, R)
         /\ Spread(d, R) = R => Closed(d, R)
         /\ Spread(d, R) # R => Cardinality(X \ Spread(d, R)) < Cardinality(X \ R)
<1> PICK Q : Q = Spread(d, R)
  OBVIOUS
<1>1. R \subseteq Q /\ \A q : q \in Q <=> q \in R \/ (q # DNull /\ \E x \in R : \E s \in DSide : q = d.child[s][x])
  <2>1. \A x : \A q : q \in Pointers(d, x) <=> \E s \in DSide : q = d.child[s][x]
    BY DEF Pointers
  <2>2. \A q : q \in Q <=> q \in R \/ (q # DNull /\ \E x \in R : q \in Pointers(d, x))
    <3> PICK W : W = {Pointers(d, x) : x \in R}
      OBVIOUS
    <3>1. Q = R \cup ((UNION W) \ {DNull})
      BY DEF Spread
    <3>2. \A q : q \in UNION W <=> \E x \in R : q \in Pointers(d, x)
      OBVIOUS
    <3> QED
      BY <3>1, <3>2
  <2> QED
    BY ONLY <2>1, <2>2
<1>2. Q \in SUBSET X
  <2>1. \A x \in R : \A s \in DSide : d.child[s][x] \in X \cup {DNull}
    BY DEF Closed
  <2>2. \A q \in Q : q \in X
    BY ONLY <1>1, <2>1, R \in SUBSET X
  <2> QED
    BY <2>2
<1>3. Q = R => Closed(d, R)
  BY <1>1 DEF Closed
<1>4. ASSUME Q # R PROVE Cardinality(X \ Q) < Cardinality(X \ R)
  <2> PICK A, B : A = X \ R /\ B = X \ Q
    OBVIOUS
  <2>1. A \in SUBSET DictKey /\ B \in SUBSET A /\ B # A
    BY <1>1, <1>2, <1>4
  <2>2. IsFiniteSet(A) /\ Cardinality(A) \in Nat /\ B \in SUBSET DictKey /\ Cardinality(B) \in Nat
    BY <2>1, KeysFinite
  <2>3. Cardinality(B) <= Cardinality(A) /\ Cardinality(B) # Cardinality(A)
    BY <2>1, <2>2, FS_Subset
  <2> QED
    BY <2>2, <2>3
<1> QED
  BY <1>1, <1>2, <1>3, <1>4

\* the search ends with a set no pointer leads out of
LEMMA BelowLoop ==
  ASSUME DictKeyAssumption, NEW d, NEW X \in SUBSET DictKey, Closed(d, X), NEW e \in X \cup {DNull}
  PROVE  /\ DBelow(d, e) \in SUBSET X /\ {e} \ {DNull} \subseteq DBelow(d, e)
         /\ Closed(d, DBelow(d, e))
<1> DEFINE a == {e} \ {DNull}
           T == {R \in SUBSET X : a \subseteq R}
           F == [R \in T |-> Spread(d, R)]
           End == {R \in T : Spread(d, R) = R}
           Size(R) == Cardinality(X \ R)
           Enough == [R \in T |-> {b \in Nat : Size(R) <= b}]
           C == Cardinality(DictKey)
           reach[k \in Nat] ==
             IF k = 0 THEN {e} \ {DNull}
             ELSE reach[k - 1] \cup
                    ((UNION {{d.child[s][x] : s \in DSide} : x \in reach[k - 1]}) \ {DNull})
<1>1. ASSUME NEW R \in T
      PROVE  /\ Spread(d, R) \in T
             /\ Spread(d, R) = R => Closed(d, R)
             /\ Spread(d, R) # R => Size(Spread(d, R)) < Size(R)
  BY SpreadStep
<1>2. \A R \in T : Size(R) \in Nat /\ Size(R) <= C
  <2> TAKE R \in T
  <2> PICK A : A = X \ R
    OBVIOUS
  <2>1. A \in SUBSET DictKey
    OBVIOUS
  <2>2. Cardinality(A) \in Nat /\ Cardinality(A) <= C
    BY <2>1, FS_Subset, FS_CardinalityType DEF DictKeyAssumption
  <2> QED
    BY <2>2
<1>3. C \in Nat
  BY FS_CardinalityType DEF DictKeyAssumption
<1>4. a \in T
  OBVIOUS
<1>5. /\ StepOn(T, F) /\ (\A R \in T : R \in End => F[R] = R)
      /\ Enough \in [T -> SUBSET Nat]
      /\ (\A R \in T : R \notin End => \A b \in Enough[R] : b - 1 \in Enough[F[R]])
      /\ a \in T /\ C \in Enough[a]
  <2>1. \A R \in T : R \in End => F[R] = R
    OBVIOUS
  <2>2. \A R \in T : F[R] \in T /\ (R \notin End => Size(F[R]) < Size(R))
    BY <1>1
  <2>3. \A R \in T : Enough[R] = {b \in Nat : Size(R) <= b}
    OBVIOUS
  <2>4. Enough \in [T -> SUBSET Nat]
    OBVIOUS
  <2>5. F = [R \in T |-> F[R]]
    OBVIOUS
  <2> HIDE DEF F, End, T, Size, Enough, a, C
  <2>6. StepOn(T, F)
    BY <2>2, <2>5 DEF StepOn
  <2>7. ASSUME NEW R \in T, R \notin End, NEW b \in Enough[R] PROVE b - 1 \in Enough[F[R]]
    <3>1. b \in Nat /\ Size(R) <= b /\ Size(F[R]) < Size(R) /\ F[R] \in T
      BY <2>2, <2>3, <2>7
    <3>2. Size(R) \in Nat /\ Size(F[R]) \in Nat
      BY <1>2, <3>1
    <3>3. b - 1 \in Nat /\ Size(F[R]) <= b - 1
      BY ONLY <3>1, <3>2
    <3> QED
      BY <2>3, <3>1, <3>3
  <2>8. C \in Enough[a]
    BY <1>2, <1>3, <1>4, <2>3
  <2> QED
    BY <1>4, <2>1, <2>4, <2>6, <2>7, <2>8
<1>6. Follows(reach, T, a, F)
  <2>1. PICK g \in [Nat -> T] : LoopStates(a, F, g)
    <3> HIDE DEF F, T, a
    <3> QED
      BY <1>4, <1>5, Loops DEF LoopDefined
  <2>2. g = [k \in Nat |->
             IF k = 0 THEN {e} \ {DNull}
             ELSE g[k - 1] \cup
                    ((UNION {{d.child[s][x] : s \in DSide} : x \in g[k - 1]}) \ {DNull})]
    <3>1. \A k \in Nat : k # 0 => F[g[k - 1]] = Spread(d, g[k - 1])
      BY <2>1
    <3>2. g = [k \in Nat |-> IF k = 0 THEN {e} \ {DNull} ELSE Spread(d, g[k - 1])]
      <4>1. a = {e} \ {DNull}
        OBVIOUS
      <4> HIDE DEF F, T, a
      <4> QED
        BY <2>1, <3>1, <4>1 DEF LoopStates
    <3> QED
      BY ONLY <3>2 DEF Spread, Pointers
  <2>3. reach = [k \in Nat |->
             IF k = 0 THEN {e} \ {DNull}
             ELSE reach[k - 1] \cup
                    ((UNION {{d.child[s][x] : s \in DSide} : x \in reach[k - 1]}) \ {DNull})]
    BY <2>2
  <2>4. reach[0] = a /\ \A k \in Nat : reach[k + 1] = Spread(d, reach[k])
    <3>1. \A k \in Nat : k + 1 \in Nat /\ k + 1 # 0 /\ (k + 1) - 1 = k
      OBVIOUS
    <3> HIDE DEF reach
    <3>2. reach = [k \in Nat |-> IF k = 0 THEN {e} \ {DNull} ELSE Spread(d, reach[k - 1])]
      BY ONLY <2>3 DEF Spread, Pointers
    <3> QED
      BY <3>1, <3>2
  <2> HIDE DEF reach
  <2>5. \A k \in Nat : reach[k] \in T => reach[k + 1] = F[reach[k]]
    BY <2>4
  <2> HIDE DEF F, T, a
  <2> QED
    BY <2>4, <2>5 DEF Follows
<1>7. reach[C] \in T /\ reach[C] \in End
  <2> PICK f : f = reach
    OBVIOUS
  <2>1. Follows(f, T, a, F)
    BY <1>6
  <2> HIDE DEF T, F, End, Enough, C, reach, a
  <2>2. f[C] \in T /\ f[C] \in End
    BY ONLY <1>5, <2>1, LoopReaches
  <2> QED
    BY <2>2
<1>8. DBelow(d, e) = reach[C]
  BY DEF DBelow
<1> HIDE DEF reach, C
<1> QED
  BY <1>1, <1>7, <1>8

\* within what is below e, no pointer leads out but of all of it
LEMMA ClosedAll ==
  ASSUME DictKeyAssumption, NEW c, NEW d, NEW K, NEW S, NEW e, NEW R,
         Ordered(c), K \in SUBSET DictKey, Subtrees(c, d.child, S, K),
         e \in K, R \in SUBSET S[e], e \in R, Closed(d, R)
  PROVE  R = S[e]
<1>1. /\ S \in [K -> SUBSET K] /\ \A x \in S[e] : x \in K /\ S[x] \subseteq S[e]
  BY DEF Subtrees
<1> DEFINE Open == {y \in R : S[y] \ R # {}}
           Sizes == {Cardinality(S[y]) : y \in Open}
<1>2. SUFFICES ASSUME Open # {} PROVE FALSE
  OBVIOUS
<1>3. \A y \in Open : y \in K /\ Cardinality(S[y]) \in Nat
  <2> TAKE y \in Open
  <2> PICK A : A = S[y]
    OBVIOUS
  <2>1. y \in K /\ A \in SUBSET DictKey
    BY <1>1
  <2> QED
    BY <2>1, KeysFinite
<1>4. PICK y \in Open : \A z \in Open : Cardinality(S[y]) <= Cardinality(S[z])
  <2>1. Sizes \in SUBSET Nat /\ Sizes # {}
    <3> HIDE DEF Open
    <3> QED
      BY <1>2, <1>3
  <2>2. PICK n \in Sizes : \A m \in Sizes : n <= m
    <3> HIDE DEF Sizes
    <3> QED
      BY <2>1, NatMin
  <2> QED
    BY <2>2
<1>5. PICK z \in S[y] : z \notin R
  OBVIOUS
<1>6. y \in K /\ y \in R /\ z \in K /\ z # y
  BY <1>1, <1>3, <1>5
<1>7. PICK s \in DSide : Lies(c, s, z, y)
  BY <1>6, Sides DEF Ordered
<1>8. LET m == d.child[s][y]
      IN  m \in K /\ S[m] = Part(c, S[y], s, y) /\ Cardinality(S[m]) < Cardinality(S[y])
  <2>1. z \in Part(c, S[y], s, y)
    BY <1>5, <1>7 DEF Part
  <2>2. /\ Ordered(c) /\ DictKeyAssumption /\ K \in SUBSET DictKey /\ Subtrees(c, d.child, S, K)
        /\ y \in K /\ s \in DSide /\ z \in Part(c, S[y], s, y)
    BY <1>6, <2>1
  <2> QED
    BY ONLY <2>2, Beneath
<1> PICK m : m = d.child[s][y]
  OBVIOUS
<1>9. m \in R
  BY <1>6, <1>8, Apart DEF Closed
<1>10. m \in Open
  BY <1>5, <1>7, <1>8, <1>9 DEF Part
<1> HIDE DEF Open
<1> QED
  BY <1>3, <1>4, <1>8, <1>10

-----------------------------------------------------------------------------
(* What the invariant says of a dictionary.                                *)

\* what is reached from the top of a tree, and below each of its keys
LEMMA BelowIs ==
  ASSUME DictKeyAssumption, NEW d, NEW K \in SUBSET DictKey, Ordered(d.cmp),
         Tree(d.cmp, d.child, d.root, K)
  PROVE  /\ DBelow(d, d.root) = K
         /\ \A e \in K : \A s \in DSide : \A k \in DBelow(d, d.child[s][e]) :
              k \in K /\ Lies(d.cmp, s, k, e)
<1> PICK c : c = d.cmp
  OBVIOUS
<1>1. PICK S : Subtrees(c, d.child, S, K) /\ Rooted(S, K, d.root)
  BY DEF Tree
<1>2. /\ S \in [K -> SUBSET K] /\ DNull \notin DictKey
      /\ \A e \in K : /\ e \in S[e] /\ \A f \in S[e] : S[f] \subseteq S[e]
                      /\ \A s \in DSide : Rooted(S, Part(c, S[e], s, e), d.child[s][e])
  BY <1>1, Apart DEF Subtrees
<1>3. ASSUME NEW e \in K PROVE DBelow(d, e) = S[e]
  <2> PICK X : X = S[e]
    OBVIOUS
  <2>1. X \in SUBSET DictKey /\ e \in X
    BY <1>2
  <2>2. Closed(d, X)
    <3> SUFFICES ASSUME NEW s \in DSide, NEW x \in X PROVE d.child[s][x] \in X \cup {DNull}
      BY DEF Closed
    <3>1. x \in K /\ S[x] \subseteq X /\ Rooted(S, Part(c, S[x], s, x), d.child[s][x])
      BY <1>2
    <3> QED
      BY <3>1 DEF Rooted, Part
  <2> PICK R : R = DBelow(d, e)
    OBVIOUS
  <2>3. DictKeyAssumption /\ X \in SUBSET DictKey /\ Closed(d, X) /\ e \in X \cup {DNull}
    BY <2>1, <2>2
  <2>4. R \in SUBSET X /\ {e} \ {DNull} \subseteq R /\ Closed(d, R)
    BY ONLY <2>3, R = DBelow(d, e), BelowLoop
  <2>5. e \in R /\ R \in SUBSET S[e]
    BY <1>2, <2>1, <2>4
  <2>6. /\ DictKeyAssumption /\ Ordered(c) /\ K \in SUBSET DictKey /\ Subtrees(c, d.child, S, K)
        /\ e \in K /\ R \in SUBSET S[e] /\ e \in R /\ Closed(d, R)
    BY <1>1, <2>4, <2>5
  <2>7. R = S[e]
    BY ONLY <2>6, ClosedAll
  <2> QED
    BY <2>7
<1>4. DBelow(d, DNull) = {}
  <2> PICK R : R = DBelow(d, DNull)
    OBVIOUS
  <2>1. {} \in SUBSET DictKey /\ Closed(d, {}) /\ DNull \in {} \cup {DNull}
    BY DEF Closed
  <2>2. R \in SUBSET {}
    BY ONLY <2>1, DictKeyAssumption, R = DBelow(d, DNull), BelowLoop
  <2> QED
    BY <2>2
<1>5. DBelow(d, d.root) = K
  BY <1>1, <1>3, <1>4 DEF Rooted
<1>6. ASSUME NEW e \in K, NEW s \in DSide, NEW k \in DBelow(d, d.child[s][e])
      PROVE  k \in K /\ Lies(c, s, k, e)
  <2> PICK q : q = d.child[s][e]
    OBVIOUS
  <2>1. Rooted(S, Part(c, S[e], s, e), q) /\ S[e] \subseteq K
    BY <1>2
  <2>2. CASE Part(c, S[e], s, e) = {}
    BY <1>4, <1>6, <2>1, <2>2 DEF Rooted
  <2>3. CASE Part(c, S[e], s, e) # {}
    <3>1. q \in Part(c, S[e], s, e) /\ S[q] = Part(c, S[e], s, e)
      BY <2>1, <2>3 DEF Rooted
    <3>2. q \in K
      BY <2>1, <3>1 DEF Part
    <3>3. k \in Part(c, S[e], s, e)
      BY <1>3, <1>6, <3>1, <3>2
    <3> QED
      BY <2>1, <3>3 DEF Part
  <2> QED
    BY <2>2, <2>3
<1> QED
  BY <1>5, <1>6

\* the index is right unless it is marked dirty
Ranked(d) ==
  LET p == DPath(d, "r", d.end["l"])
  IN  ~d.dirty => \A i \in DOMAIN p : d.position[p[i]] = i - 1

\* DictSorted is what the invariant says of the pointers
LEMMA DictSortedFollows ==
  ASSUME DictKeyAssumption, Dict(dict, dkeys), Ranked(dict)
  PROVE  DictSorted
<1> PICK d, K, c, p, q : d = dict /\ K = dkeys /\ c = d.cmp
                        /\ p = DPath(d, "r", d.end["l"]) /\ q = DPath(d, "l", d.end["r"])
  OBVIOUS
<1>1. /\ Dict(d, K) /\ c \in DOrder /\ Ordered(c) /\ K \in SUBSET DictKey /\ d \in DRecord
      /\ Tree(c, d.child, d.root, K) /\ d.count = Cardinality(K)
  BY Order DEF Dict, DRecord
<1>2. "l" \in DSide /\ "r" \in DSide /\ DOther("l") = "r" /\ DOther("r") = "l"
  BY Sides
<1>3. p \in Seq(K) /\ Sorted(c, "r", p) /\ ToSet(p) = K
  BY <1>1, <1>2, ListIs
<1>4. q \in Seq(K) /\ Sorted(c, "l", q) /\ ToSet(q) = K
  BY <1>1, <1>2, ListIs
<1>5. ASSUME NEW i \in DOMAIN p, NEW j \in DOMAIN p, i < j PROVE DBefore(dict, p[i], p[j])
  <2> PICK x, y : x = p[i] /\ y = p[j]
    OBVIOUS
  <2>1. Lies(c, "r", y, x) /\ x \in DictKey /\ y \in DictKey
    <3>1. Lies(c, "r", y, x)
      BY <1>3, <1>5 DEF Sorted
    <3>2. \A k \in DOMAIN p : p[k] \in K
      BY <1>3
    <3> QED
      BY <1>1, <3>1, <3>2
  <2>2. Lies(c, "l", x, y)
    BY ONLY <1>1, <1>2, <2>1 DEF Ordered
  <2> QED
    BY <1>1, <2>1, <2>2, SideLies
<1>6. q = Reverse(p)
  <2> PICK r : r = Reverse(p)
    OBVIOUS
  <2>1. r \in Seq(K) /\ Sorted(c, "l", r) /\ ToSet(r) = K
    BY <1>1, <1>2, <1>3, ReverseSorted
  <2> QED
    BY <1>1, <1>2, <1>4, <2>1, SortedUnique
<1>7. d.count = Len(p)
  BY <1>1, <1>2, <1>3, SortedLen
<1>8. /\ DBelow(d, d.root) = K
      /\ \A e \in K : \A s \in DSide : \A k \in DBelow(d, d.child[s][e]) : k \in K /\ Lies(c, s, k, e)
  BY <1>1, BelowIs
<1>9. ASSUME NEW e \in K, NEW s \in DSide, NEW k \in DBelow(d, d.child[s][e])
      PROVE  k # e /\ DSideOf(d, k, e) = s
  <2>1. k \in DictKey /\ e \in DictKey /\ Lies(c, s, k, e)
    BY <1>1, <1>8
  <2>2. k # e
    BY ONLY <1>1, <2>1, s \in DSide DEF Ordered
  <2> QED
    BY <1>1, <2>1, <2>2, SideLies
<1>10. ASSUME NEW k \in DictKey PROVE DFound(mowgli_dictionary_retune(d, k), k) <=> k \in K
  BY <1>1, RetuneKeeps DEF Retuned
<1> QED
  BY <1>3, <1>5, <1>6, <1>7, <1>8, <1>9, <1>10 DEF DictSorted, Ranked

-----------------------------------------------------------------------------
(* The other changes of a dictionary.                                      *)

\* a lookup leaves the index as it is
LEMMA RankedSame ==
  ASSUME NEW d, NEW d2, SameButTree(d, d2), Ranked(d)
  PROVE  Ranked(d2)
BY DEF SameButTree, Ranked, DPath

\* an empty dictionary
LEMMA CreateHolds ==
  ASSUME DictKeyAssumption, NEW cmp \in DOrder
  PROVE  Dict(mowgli_dictionary_create(cmp), {}) /\ Ranked(mowgli_dictionary_create(cmp))
<1> PICK d : d = mowgli_dictionary_create(cmp)
  OBVIOUS
<1>1. /\ d \in DRecord /\ d.cmp = cmp /\ d.root = DNull /\ d.count = 0
      /\ \A s \in DSide : d.end[s] = DNull
  BY DEF mowgli_dictionary_create, DRecord, DPointer, DChildren, DPlace
<1>2. Tree(d.cmp, d.child, d.root, {})
  BY <1>1, TreeEmpty
<1>3. Chained(d.cmp, {}, d.nbr, d.end)
  BY <1>1 DEF Chained, Nearest
<1>4. Dict(d, {})
  BY <1>1, <1>2, <1>3, FS_EmptySet DEF Dict
<1>5. Ranked(d)
  BY <1>1, Sides DEF Ranked, DPath
<1> QED
  BY <1>4, <1>5

\* the index is rebuilt
LEMMA PositionsHold ==
  ASSUME DictKeyAssumption, NEW d, NEW K, Dict(d, K), NEW d2, d2 = DPositions(d)
  PROVE  Dict(d2, K) /\ Ranked(d2) /\ d2.cmp = d.cmp
<1> PICK p : p = DPath(d, "r", d.end["l"])
  OBVIOUS
<1> PICK f : f = [e \in DictKey |-> IF e \in ToSet(p) THEN IndexOf(p, e) - 1 ELSE d.position[e]]
  OBVIOUS
<1>1. /\ d.cmp \in DOrder /\ Ordered(d.cmp) /\ d \in DRecord /\ K \in SUBSET DictKey
      /\ "r" \in DSide /\ DOther("r") = "l"
  BY Order, Sides DEF Dict, DRecord
<1>2. p \in Seq(K) /\ Sorted(d.cmp, "r", p) /\ ToSet(p) = K
  BY <1>1, ListIs
<1>3. Injective(p)
  BY <1>1, <1>2, SortedLen
<1>4. DOMAIN p = 1 .. Len(p) /\ \A i \in 1 .. Len(p) : IndexOf(p, p[i]) = i /\ p[i] \in K
  <2>1. p \in Seq(K)
    BY <1>2
  <2> QED
    BY <1>3, <2>1, IndexOfInjective
<1>5. f \in [DictKey -> Nat]
  <2>1. d.position \in [DictKey -> Nat]
    BY <1>1 DEF DRecord
  <2>2. \A e \in ToSet(p) : IndexOf(p, e) - 1 \in Nat
    <3> TAKE e \in ToSet(p)
    <3>1. PICK i \in DOMAIN p : e = p[i]
      BY DEF ToSet
    <3>2. IndexOf(p, e) = i /\ i \in 1 .. Len(p)
      BY <1>4, <3>1
    <3> QED
      BY <3>2
  <2>3. \A e \in DictKey : f[e] = IF e \in ToSet(p) THEN IndexOf(p, e) - 1 ELSE d.position[e]
    OBVIOUS
  <2>4. \A e \in DictKey : f[e] \in Nat
    BY <2>1, <2>2, <2>3
  <2>5. f = [e \in DictKey |-> f[e]]
    OBVIOUS
  <2> QED
    BY <2>4, <2>5
<1>6. d2 = [d EXCEPT !.position = f, !.dirty = FALSE]
  BY DEF DPositions
<1>7. /\ d2 \in DRecord /\ d2.cmp = d.cmp /\ d2.root = d.root /\ d2.count = d.count
      /\ d2.child = d.child /\ d2.nbr = d.nbr /\ d2.end = d.end /\ d2.position = f
  BY <1>1, <1>5, <1>6 DEF DRecord
<1>8. Dict(d2, K)
  BY <1>7 DEF Dict
<1>9. Ranked(d2)
  <2>1. DPath(d2, "r", d2.end["l"]) = p
    BY <1>7 DEF DPath
  <2>2. \A i \in DOMAIN p : f[p[i]] = i - 1
    <3> TAKE i \in DOMAIN p
    <3>1. p[i] \in DictKey /\ p[i] \in ToSet(p) /\ IndexOf(p, p[i]) = i
      BY <1>1, <1>2, <1>4
    <3> QED
      BY <3>1
  <2> QED
    BY <1>7, <2>1, <2>2 DEF Ranked
<1> QED
  BY <1>7, <1>8, <1>9

\* the comparator of an empty dictionary is replaced
LEMMA ComparatorHolds ==
  ASSUME DictKeyAssumption, NEW d, NEW K, Dict(d, K), Ranked(d), d.root = DNull,
         NEW cmp \in DOrder, NEW d2, d2 = [d EXCEPT !.cmp = cmp]
  PROVE  Dict(d2, K) /\ Ranked(d2) /\ K = {}
<1>1. d \in DRecord /\ K = {} /\ \A s \in DSide : d.end[s] = DNull
  <2>1. Tree(d.cmp, d.child, d.root, K) /\ DictKeyAssumption /\ K \subseteq DictKey
    BY DEF Dict
  <2>2. K = {}
    BY <2>1, TreeRoot
  <2> QED
    BY <2>2 DEF Dict, Chained, Nearest
<1>2. /\ d2 \in DRecord /\ d2.cmp = cmp /\ d2.root = d.root /\ d2.count = d.count
      /\ d2.dirty = d.dirty /\ d2.child = d.child /\ d2.nbr = d.nbr /\ d2.end = d.end
      /\ d2.position = d.position
  BY <1>1 DEF DRecord
<1>3. Tree(d2.cmp, d2.child, d2.root, {})
  BY <1>2, TreeEmpty
<1>4. Chained(d2.cmp, {}, d2.nbr, d2.end)
  BY <1>1, <1>2 DEF Chained, Nearest
<1>5. Dict(d2, K)
  BY <1>1, <1>2, <1>3, <1>4 DEF Dict
<1>6. Ranked(d2)
  BY <1>2 DEF Ranked, DPath
<1> QED
  BY <1>1, <1>5, <1>6

-----------------------------------------------------------------------------
(* The traversals that call back.                                          *)

\* a deletion leaves the index right, or marked dirty
LEMMA DeleteRanked ==
  ASSUME DictKeyAssumption, NEW d, NEW K, Dict(d, K), Ranked(d), NEW key \in DictKey,
         NEW v, v = DDelete(d, key)
  PROVE  Dict(v, K \ {key}) /\ v.cmp = d.cmp /\ Ranked(v)
<1>1. /\ Dict(v, K \ {key}) /\ v.cmp = d.cmp
      /\ key \in K => v.dirty
      /\ key \notin K => SameButTree(d, v)
  BY DeleteHolds
<1>2. Ranked(v)
  BY <1>1, RankedSame DEF Ranked
<1> QED
  BY <1>1, <1>2

\* the elements a whole traversal deletes
Doomed(c, K, gone, stop) == {k \in gone : \A q \in stop \cap K : ~Lies(c, "l", q, k)}

\* where a traversal of the keys K stands: those before t.e are done with
Visiting(c, K, gone, stop, t) ==
  /\ t.d.cmp = c /\ Ranked(t.d) /\ t.e \in K \cup {DNull}
  /\ t.e = DNull => Dict(t.d, K \ Doomed(c, K, gone, stop))
  /\ t.e # DNull => /\ Dict(t.d, K \ (gone \cap Part(c, K, "l", t.e)))
                    /\ \A q \in stop \cap K : ~Lies(c, "l", q, t.e)

\* how many elements are ahead
Ahead(c, K, t) == IF t.e = DNull THEN 0 ELSE Cardinality(Part(c, K, "r", t.e)) + 1

\* an element is visited
LEMMA VisitStep ==
  ASSUME DictKeyAssumption, NEW c \in DOrder, NEW K \in SUBSET DictKey, NEW gone \in SUBSET K,
         NEW stop, NEW t, Visiting(c, K, gone, stop, t), t.e # DNull,
         NEW t2, t2 = DVisit(gone, stop, t)
  PROVE  /\ Visiting(c, K, gone, stop, t2) /\ Ahead(c, K, t2) < Ahead(c, K, t)
         /\ t2 = [d |-> t2.d, e |-> t2.e]
<1> PICK e, y, D, l, r : /\ e = t.e /\ y = t.d.nbr["r"][e] /\ l = "l" /\ r = "r"
                         /\ D = K \ (gone \cap Part(c, K, "l", e))
  OBVIOUS
<1>1. /\ Ordered(c) /\ l \in DSide /\ r \in DSide /\ DOther(l) = r /\ DOther(r) = l
      /\ DNull \notin DictKey /\ K \in SUBSET DictKey
  BY Order, Sides, Apart
<1>2. /\ e \in K /\ e \in DictKey /\ Dict(t.d, D) /\ t.d.cmp = c /\ Ranked(t.d)
      /\ \A q \in stop \cap K : ~Lies(c, l, q, e)
  BY DEF Visiting
<1>3. t2 = [d |-> IF e \in gone THEN DDelete(t.d, e) ELSE t.d, e |-> IF e \in stop THEN DNull ELSE y]
  BY <1>2 DEF DVisit
<1> PICK v, x : v = t2.d /\ x = t2.e
  OBVIOUS
<1>4. v = (IF e \in gone THEN DDelete(t.d, e) ELSE t.d) /\ x = (IF e \in stop THEN DNull ELSE y)
  BY <1>3
<1>5. Dict(v, K \ (gone \cap (Part(c, K, l, e) \cup {e}))) /\ v.cmp = c /\ Ranked(v)
  <2>1. CASE e \in gone
    <3>1. Dict(v, D \ {e}) /\ v.cmp = c /\ Ranked(v)
      <4> PICK d : d = t.d
        OBVIOUS
      <4>1. DictKeyAssumption /\ Dict(d, D) /\ Ranked(d) /\ e \in DictKey /\ v = DDelete(d, e)
        BY <1>2, <1>4, <2>1
      <4>2. Dict(v, D \ {e}) /\ v.cmp = d.cmp /\ Ranked(v)
        BY ONLY <4>1, DeleteRanked
      <4> QED
        BY <1>2, <4>2
    <3>2. D \ {e} = K \ (gone \cap (Part(c, K, l, e) \cup {e}))
      BY <2>1
    <3> QED
      BY <3>1, <3>2
  <2>2. CASE e \notin gone
    <3>1. D = K \ (gone \cap (Part(c, K, l, e) \cup {e}))
      BY <2>2
    <3> QED
      BY <1>2, <1>4, <2>2, <3>1
  <2> QED
    BY <2>1, <2>2
<1>6. Part(c, D, r, e) = Part(c, K, r, e) /\ e \in D
  <2>1. \A k \in K : Lies(c, r, k, e) => ~Lies(c, l, k, e)
    BY ONLY <1>1, <1>2 DEF Ordered
  <2>2. ~Lies(c, l, e, e)
    BY ONLY <1>1, <1>2 DEF Ordered
  <2> QED
    BY <1>2, <2>1, <2>2 DEF Part
<1>7. Nearest(c, Part(c, K, r, e), r, y)
  <2>1. Chained(c, D, t.d.nbr, t.d.end)
    BY <1>2 DEF Dict
  <2> QED
    BY <1>1, <1>6, <2>1 DEF Chained
<1>8. \A k \in K : k = e \/ Lies(c, l, k, e) \/ Lies(c, r, k, e)
  BY ONLY <1>1, <1>2 DEF Ordered
<1>9. CASE e \in stop
  <2>1. Doomed(c, K, gone, stop) = gone \cap (Part(c, K, l, e) \cup {e})
    <3>1. ASSUME NEW k \in gone, \A q \in stop \cap K : ~Lies(c, l, q, k)
          PROVE  k \in Part(c, K, l, e) \cup {e}
      <4>1. k \in K /\ ~Lies(c, l, e, k)
        BY <1>2, <1>9, <3>1
      <4>2. ~Lies(c, r, k, e)
        BY ONLY <1>1, <1>2, <4>1 DEF Ordered
      <4> QED
        BY <1>8, <4>1, <4>2 DEF Part
    <3>2. ASSUME NEW k \in gone, k \in Part(c, K, l, e) \cup {e}, NEW q \in stop \cap K, Lies(c, l, q, k)
          PROVE  FALSE
      <4>1. k \in K /\ q \in K /\ (k = e \/ Lies(c, l, k, e))
        BY <3>2 DEF Part
      <4>2. Lies(c, l, q, e)
        BY ONLY <1>1, <1>2, <3>2, <4>1 DEF Ordered
      <4> QED
        BY <1>2, <4>2
    <3> QED
      BY <3>1, <3>2 DEF Doomed
  <2>2. x = DNull
    BY <1>4, <1>9
  <2>3. Visiting(c, K, gone, stop, t2)
    BY <1>5, <2>1, <2>2 DEF Visiting
  <2>4. Ahead(c, K, t2) = 0 /\ Ahead(c, K, t) = Cardinality(Part(c, K, r, e)) + 1
    BY <1>2, <2>2 DEF Ahead
  <2>5. Cardinality(Part(c, K, r, e)) \in Nat
    <3> PICK A : A = Part(c, K, r, e)
      OBVIOUS
    <3>1. A \in SUBSET DictKey
      BY DEF Part
    <3> QED
      BY <3>1, KeysFinite
  <2> QED
    BY <1>3, <2>3, <2>4, <2>5
<1>10. CASE e \notin stop /\ y = DNull
  <2>1. Part(c, K, r, e) = {}
    BY <1>1, <1>7, <1>10 DEF Nearest, Part
  <2>2. stop \cap K = {}
    BY <1>2, <1>8, <1>10, <2>1 DEF Part
  <2>3. Doomed(c, K, gone, stop) = gone
    BY <2>2 DEF Doomed
  <2>4. gone \cap (Part(c, K, l, e) \cup {e}) = gone
    BY <1>8, <2>1 DEF Part
  <2>5. x = DNull
    BY <1>4, <1>10
  <2>6. Visiting(c, K, gone, stop, t2)
    BY <1>5, <2>3, <2>4, <2>5 DEF Visiting
  <2>7. Ahead(c, K, t2) = 0 /\ Ahead(c, K, t) = Cardinality(Part(c, K, r, e)) + 1
    BY <1>2, <2>5 DEF Ahead
  <2>8. Cardinality(Part(c, K, r, e)) = 0
    BY <2>1, FS_EmptySet
  <2> QED
    BY <1>3, <2>6, <2>7, <2>8
<1>11. CASE e \notin stop /\ y # DNull
  <2>1. /\ y \in K /\ Lies(c, r, y, e)
        /\ \A k \in K : Lies(c, r, k, e) => k = y \/ Lies(c, r, k, y)
    BY <1>7, <1>11 DEF Nearest, Part
  <2>2. Part(c, K, l, y) = Part(c, K, l, e) \cup {e}
    <3>1. \A k \in K : Lies(c, l, k, e) => Lies(c, l, k, y)
      BY ONLY <1>1, <1>2, <2>1 DEF Ordered
    <3>2. Lies(c, l, e, y)
      BY ONLY <1>1, <1>2, <2>1 DEF Ordered
    <3>3. \A k \in K : Lies(c, l, k, y) => k = e \/ Lies(c, l, k, e)
      <4>1. \A k \in K : Lies(c, l, k, y) => k # y /\ ~Lies(c, r, k, y)
        BY ONLY <1>1, <2>1 DEF Ordered
      <4> QED
        BY <1>8, <2>1, <4>1
    <3> QED
      BY <1>2, <3>1, <3>2, <3>3 DEF Part
  <2>3. \A q \in stop \cap K : ~Lies(c, l, q, y)
    BY <1>2, <1>11, <2>2 DEF Part
  <2>4. x = y
    BY <1>4, <1>11
  <2>5. Visiting(c, K, gone, stop, t2)
    BY <1>1, <1>5, <1>11, <2>1, <2>2, <2>3, <2>4 DEF Visiting
  <2>6. Ahead(c, K, t2) = Cardinality(Part(c, K, r, y)) + 1 /\ Ahead(c, K, t) = Cardinality(Part(c, K, r, e)) + 1
    BY <1>2, <1>11, <2>4 DEF Ahead
  <2>7. Cardinality(Part(c, K, r, e)) = Cardinality(Part(c, K, r, y)) + 1 /\ Cardinality(Part(c, K, r, y)) \in Nat
    <3> PICK A, B : A = Part(c, K, r, e) /\ B = Part(c, K, r, y)
      OBVIOUS
    <3>1. \A k \in K : Lies(c, r, k, y) => Lies(c, r, k, e)
      BY ONLY <1>1, <1>2, <2>1 DEF Ordered
    <3>2. ~Lies(c, r, y, y)
      BY ONLY <1>1, <2>1 DEF Ordered
    <3>3. B \in SUBSET DictKey /\ y \notin B /\ A = B \cup {y}
      BY <2>1, <3>1, <3>2 DEF Part
    <3> QED
      BY <3>3, KeysFinite
  <2> QED
    BY <1>3, <2>5, <2>6, <2>7
<1> QED
  BY <1>9, <1>10, <1>11

\* a traversal deletes what it is told to, up to where it is stopped
LEMMA VisitAllHolds ==
  ASSUME DictKeyAssumption, NEW d, NEW K, Dict(d, K), Ranked(d), NEW gone \in SUBSET K, NEW stop,
         NEW v, v = DVisitAll(d, gone, stop)
  PROVE  /\ Dict(v, K \ Doomed(d.cmp, K, gone, stop)) /\ Ranked(v) /\ v.cmp = d.cmp
<1> PICK c : c = d.cmp
  OBVIOUS
<1> DEFINE T == {t \in [d : DRecord, e : DPointer] : Visiting(c, K, gone, stop, t)}
           F == [t \in T |-> DVisit(gone, stop, t)]
           End == {t \in T : t.e = DNull}
           Size(t) == Ahead(c, K, t)
           Enough == [t \in T |-> {b \in Nat : Size(t) <= b}]
           a == [d |-> d, e |-> d.end["l"]]
           C == Cardinality(DictKey)
           turn[k \in Nat] ==
             IF k = 0 THEN [d |-> d, e |-> d.end["l"]]
             ELSE DVisit(gone, stop, turn[k - 1])
<1>1. /\ c \in DOrder /\ Ordered(c) /\ K \in SUBSET DictKey /\ d \in DRecord
      /\ "l" \in DSide /\ "r" \in DSide /\ DOther("l") = "r" /\ DNull \notin DictKey
  BY Order, Sides, Apart DEF Dict, DRecord
<1>2. ASSUME NEW t \in T
      PROVE  /\ t.e = DNull => DVisit(gone, stop, t) = t
             /\ t.e # DNull => DVisit(gone, stop, t) \in T /\ Size(DVisit(gone, stop, t)) < Size(t)
  <2>1. t.e = DNull => DVisit(gone, stop, t) = t
    BY DEF DVisit
  <2>2. ASSUME t.e # DNull
        PROVE  DVisit(gone, stop, t) \in T /\ Size(DVisit(gone, stop, t)) < Size(t)
    <3> PICK u : u = DVisit(gone, stop, t)
      OBVIOUS
    <3>1. Visiting(c, K, gone, stop, t)
      OBVIOUS
    <3>2. /\ DictKeyAssumption /\ c \in DOrder /\ K \in SUBSET DictKey /\ gone \in SUBSET K
          /\ Visiting(c, K, gone, stop, t) /\ t.e # DNull /\ u = DVisit(gone, stop, t)
      BY <1>1, <2>2, <3>1
    <3>3. /\ Visiting(c, K, gone, stop, u) /\ Ahead(c, K, u) < Ahead(c, K, t)
          /\ u = [d |-> u.d, e |-> u.e]
      BY ONLY <3>2, VisitStep
    <3>4. u.d \in DRecord /\ u.e \in DPointer
      BY <1>1, <3>3 DEF Visiting, Dict, DPointer
    <3> QED
      BY <3>3, <3>4
  <2> QED
    BY <2>1, <2>2
<1>3. \A t \in T : Size(t) \in Nat /\ Size(t) <= C
  <2> SUFFICES ASSUME NEW t \in T, t.e # DNull PROVE Size(t) \in Nat /\ Size(t) <= C
    <3>1. C \in Nat
      BY FS_CardinalityType DEF DictKeyAssumption
    <3> QED
      BY <3>1 DEF Ahead
  <2> PICK A, B, e : e = t.e /\ A = Part(c, K, "r", e) /\ B = A \cup {e}
    OBVIOUS
  <2>1. e \in K /\ e \in DictKey
    BY <1>1 DEF Visiting
  <2>2. ~Lies(c, "r", e, e)
    BY ONLY <1>1, <2>1 DEF Ordered
  <2>3. A \in SUBSET DictKey /\ e \notin A /\ B \in SUBSET DictKey
    BY <1>1, <2>1, <2>2 DEF Part
  <2>4. Cardinality(A) \in Nat /\ Cardinality(B) = Cardinality(A) + 1
    BY <2>3, KeysFinite
  <2>5. Cardinality(B) <= C
    BY <2>3, FS_Subset DEF DictKeyAssumption
  <2>6. Size(t) = Cardinality(A) + 1
    BY DEF Ahead
  <2> HIDE DEF Size, C
  <2> QED
    BY ONLY <2>4, <2>5, <2>6
<1>4. C \in Nat
  BY FS_CardinalityType DEF DictKeyAssumption
<1>5. a \in T
  <2> PICK e : e = d.end["l"]
    OBVIOUS
  <2>1. Nearest(c, K, "r", e) /\ e \in DPointer
    BY <1>1 DEF Dict, Chained, DRecord
  <2>2. CASE K = {}
    <3>1. e = DNull
      BY <2>1, <2>2 DEF Nearest
    <3>2. K \ Doomed(c, K, gone, stop) = K
      BY <2>2
    <3> QED
      BY <1>1, <2>1, <3>1, <3>2 DEF Visiting
  <2>3. CASE K # {}
    <3>1. e \in K /\ \A x \in K : x = e \/ Lies(c, "r", x, e)
      BY <2>1, <2>3 DEF Nearest
    <3>2. \A x \in K : ~Lies(c, "l", x, e)
      <4>1. \A x \in K : Lies(c, "r", x, e) => ~Lies(c, "l", x, e)
        BY ONLY <1>1, <3>1 DEF Ordered
      <4>2. ~Lies(c, "l", e, e)
        BY ONLY <1>1, <3>1 DEF Ordered
      <4> QED
        BY <3>1, <4>1, <4>2
    <3>3. K \ (gone \cap Part(c, K, "l", e)) = K
      BY <3>2 DEF Part
    <3>4. e # DNull
      BY <1>1, <3>1
    <3> QED
      BY <1>1, <2>1, <3>1, <3>2, <3>3, <3>4 DEF Visiting
  <2> QED
    BY <2>2, <2>3
<1>6. /\ StepOn(T, F) /\ (\A t \in T : t \in End => F[t] = t)
      /\ Enough \in [T -> SUBSET Nat]
      /\ (\A t \in T : t \notin End => \A b \in Enough[t] : b - 1 \in Enough[F[t]])
      /\ a \in T /\ C \in Enough[a]
  <2>1. \A t \in T : t \in End => F[t] = t
    BY <1>2
  <2>2. \A t \in T : F[t] \in T /\ (t \notin End => Size(F[t]) < Size(t))
    <3>1. \A t \in T : F[t] = DVisit(gone, stop, t)
      OBVIOUS
    <3>2. \A t \in T : t \notin End => t.e # DNull
      OBVIOUS
    <3>3. \A t \in T : t.e = DNull => F[t] \in T
      BY <1>2, <3>1
    <3> HIDE DEF F, T, End, Size
    <3> QED
      BY <1>2, <3>1, <3>2, <3>3
  <2>3. \A t \in T : Enough[t] = {b \in Nat : Size(t) <= b}
    OBVIOUS
  <2>4. Enough \in [T -> SUBSET Nat]
    OBVIOUS
  <2>5. F = [t \in T |-> F[t]]
    OBVIOUS
  <2> HIDE DEF F, End, T, Size, Enough, a, C
  <2>6. StepOn(T, F)
    BY <2>2, <2>5 DEF StepOn
  <2>7. ASSUME NEW t \in T, t \notin End, NEW b \in Enough[t] PROVE b - 1 \in Enough[F[t]]
    <3>1. b \in Nat /\ Size(t) <= b /\ Size(F[t]) < Size(t) /\ F[t] \in T
      BY <2>2, <2>3, <2>7
    <3>2. Size(t) \in Nat /\ Size(F[t]) \in Nat
      BY <1>3, <3>1
    <3>3. b - 1 \in Nat /\ Size(F[t]) <= b - 1
      BY ONLY <3>1, <3>2
    <3> QED
      BY <2>3, <3>1, <3>3
  <2>8. C \in Enough[a]
    BY <1>3, <1>4, <1>5, <2>3
  <2> QED
    BY <1>5, <2>1, <2>4, <2>6, <2>7, <2>8
<1>7. Follows(turn, T, a, F)
  <2>1. PICK g \in [Nat -> T] : LoopStates(a, F, g)
    <3> HIDE DEF F, T, a
    <3> QED
      BY <1>5, <1>6, Loops DEF LoopDefined
  <2>2. g = [k \in Nat |-> IF k = 0 THEN [d |-> d, e |-> d.end["l"]] ELSE DVisit(gone, stop, g[k - 1])]
    <3>1. \A k \in Nat : k # 0 => F[g[k - 1]] = DVisit(gone, stop, g[k - 1])
      BY <2>1
    <3>2. a = [d |-> d, e |-> d.end["l"]]
      OBVIOUS
    <3> HIDE DEF F, T, a
    <3> QED
      BY <2>1, <3>1, <3>2 DEF LoopStates
  <2>3. turn = [k \in Nat |-> IF k = 0 THEN [d |-> d, e |-> d.end["l"]] ELSE DVisit(gone, stop, turn[k - 1])]
    BY <2>2
  <2>4. turn[0] = a /\ \A k \in Nat : turn[k + 1] = DVisit(gone, stop, turn[k])
    <3>1. \A k \in Nat : k + 1 \in Nat /\ k + 1 # 0 /\ (k + 1) - 1 = k
      OBVIOUS
    <3> HIDE DEF turn
    <3> QED
      BY <2>3, <3>1
  <2> HIDE DEF turn
  <2>5. \A k \in Nat : turn[k] \in T => turn[k + 1] = F[turn[k]]
    BY <2>4
  <2> HIDE DEF F, T, a
  <2> QED
    BY <2>4, <2>5 DEF Follows
<1>8. turn[C] \in T /\ turn[C] \in End
  <2> PICK f : f = turn
    OBVIOUS
  <2>1. Follows(f, T, a, F)
    BY <1>7
  <2> HIDE DEF T, F, End, Enough, C, turn, a
  <2>2. f[C] \in T /\ f[C] \in End
    BY ONLY <1>6, <2>1, LoopReaches
  <2> QED
    BY <2>2
<1>9. v = turn[C].d
  BY DEF DVisitAll
<1> HIDE DEF turn, C
<1> QED
  BY <1>8, <1>9 DEF Visiting

-----------------------------------------------------------------------------
(* The invariant of the dictionary.                                        *)

DIteration == [on : BOOLEAN, cur : DPointer, next : DPointer,
               start : SUBSET DictKey, seen : SUBSET DictKey]

\* what an iteration has shown is behind its current element; what it has
\* still to show of the keys that were there is its next element or beyond it
Iterating(c, K, it) ==
  /\ it \in DIteration
  /\ ~it.on => it.cur = DNull
  /\ it.on => /\ it.next \in K \cup {DNull}
              /\ it.cur # DNull => \A k \in it.seen : Lies(c, "l", k, it.cur)
              /\ it.next # DNull => it.cur # DNull /\ Lies(c, "r", it.next, it.cur)
              /\ \A k \in it.start \ (it.seen \cup {it.cur}) :
                   k \in K /\ it.next # DNull /\ (k = it.next \/ Lies(c, "r", k, it.next))

DictInv == Dict(dict, dkeys) /\ Ranked(dict) /\ Iterating(dict.cmp, dkeys, diter)

\* the property of iterations
LEMMA DictIterationFollows ==
  ASSUME DictKeyAssumption, DictInv
  PROVE  DictIteration
<1> PICK d, K, c, it : d = dict /\ K = dkeys /\ c = d.cmp /\ it = diter
  OBVIOUS
<1>1. /\ Dict(d, K) /\ c \in DOrder /\ Ordered(c) /\ K \in SUBSET DictKey /\ d \in DRecord
      /\ Iterating(c, K, it) /\ "r" \in DSide /\ "l" \in DSide
  BY Order, Sides DEF Dict, DRecord, DictInv
<1> SUFFICES ASSUME it.on
             PROVE  /\ \A k \in it.seen : it.cur # DNull => DBefore(d, k, it.cur)
                    /\ it.start \ (it.seen \cup {it.cur}) \subseteq ToSet(DPath(d, "r", it.next))
  BY DEF DictIteration
<1>2. ASSUME NEW k \in it.seen, it.cur # DNull PROVE DBefore(d, k, it.cur)
  <2>1. k \in DictKey /\ it.cur \in DictKey /\ Lies(c, "l", k, it.cur)
    BY <1>1, <1>2 DEF Iterating, DIteration, DPointer
  <2> QED
    BY <1>1, <2>1, SideLies
<1>3. ASSUME NEW k \in it.start \ (it.seen \cup {it.cur}) PROVE k \in ToSet(DPath(d, "r", it.next))
  <2> PICK n, p : n = it.next /\ p = DPath(d, "r", n)
    OBVIOUS
  <2>1. k \in K /\ n \in K /\ (k = n \/ Lies(c, "r", k, n))
    BY <1>1, <1>3 DEF Iterating
  <2>2. ToSet(p) = {n} \cup Part(c, K, "r", n)
    BY <1>1, <2>1, PathIs
  <2> QED
    BY <2>1, <2>2 DEF Part
<1> QED
  BY <1>2, <1>3

\* a new dictionary satisfies the invariant
LEMMA DictInitInv ==
  ASSUME DictKeyAssumption, DictInit
  PROVE  DictInv
<1>1. PICK cmp \in DOrder : dict = mowgli_dictionary_create(cmp)
  BY DEF DictInit, DOrder
<1>2. Dict(dict, dkeys) /\ Ranked(dict)
  BY <1>1, CreateHolds DEF DictInit
<1>3. Iterating(dict.cmp, dkeys, diter)
  BY DEF DictInit, Iterating, DIteration, DIdle, DPointer
<1> QED
  BY <1>2, <1>3 DEF DictInv

\* the iteration when a key comes or goes that is not ahead of it
LEMMA IteratingKept ==
  ASSUME NEW c, Ordered(c), DictKeyAssumption, NEW K, NEW it, Iterating(c, K, it),
         NEW J, \/ K \subseteq J
                \/ \E key \in DictKey : (it.on => key = it.cur) /\ J = K \ {key}
  PROVE  Iterating(c, J, it)
<1>1. CASE K \subseteq J
  BY <1>1 DEF Iterating
<1>2. ASSUME NEW key \in DictKey, it.on => key = it.cur, J = K \ {key} PROVE Iterating(c, J, it)
  <2>1. CASE ~it.on
    BY <2>1 DEF Iterating
  <2>2. CASE it.on
    <3>1. it.next \in DPointer /\ (it.next # DNull => it.next \in DictKey)
      BY DEF Iterating, DIteration, DPointer
    <3>2. it.next # DNull => it.next # it.cur
      <4>1. "r" \in DSide
        BY Sides
      <4>2. \A x \in DictKey : ~Lies(c, "r", x, x)
        BY <4>1 DEF Ordered
      <4> QED
        BY <2>2, <3>1, <4>2 DEF Iterating
    <3> QED
      BY <1>2, <2>2, <3>2 DEF Iterating
  <2> QED
    BY <2>1, <2>2
<1> QED
  BY <1>1, <1>2

\* mowgli_dictionary_find and mowgli_dictionary_retrieve
LEMMA FindStep ==
  ASSUME DictKeyAssumption, DictInv, NEW k \in DictKey, mowgli_dictionary_find(k)
  PROVE  DictInv'
<1>1. Dict(dict, dkeys) /\ dict' = mowgli_dictionary_retune(dict, k) /\ UNCHANGED <<diter, dkeys>>
  BY DEF DictInv, mowgli_dictionary_find
<1>2. Dict(dict', dkeys) /\ SameButTree(dict, dict')
  BY <1>1, RetuneHolds DEF Retuned
<1>3. Ranked(dict')
  BY <1>2, RankedSame DEF DictInv
<1> QED
  BY <1>1, <1>2, <1>3 DEF DictInv, SameButTree

\* mowgli_dictionary_add
LEMMA AddStep ==
  ASSUME DictKeyAssumption, DictInv, NEW k \in DictKey, mowgli_dictionary_add(k)
  PROVE  DictInv'
<1> PICK d : d = mowgli_dictionary_retune(dict, k)
  OBVIOUS
<1>1. /\ Dict(dict, dkeys) /\ Ranked(dict) /\ Iterating(dict.cmp, dkeys, diter)
      /\ dict' = (IF DFound(d, k) THEN d ELSE mowgli_dictionary_link(d, k))
      /\ dkeys' = dkeys \cup {k} /\ diter' = diter
  BY DEF DictInv, mowgli_dictionary_add
<1>2. Dict(d, dkeys) /\ SameButTree(dict, d) /\ (DFound(d, k) <=> k \in dkeys)
  BY <1>1, RetuneHolds DEF Retuned
<1>3. Dict(dict', dkeys') /\ dict'.cmp = dict.cmp /\ Ranked(dict')
  <2>1. CASE k \in dkeys
    <3>1. dict' = d /\ dkeys' = dkeys
      BY <1>1, <1>2, <2>1
    <3>2. Ranked(d)
      BY <1>1, <1>2, RankedSame
    <3> QED
      BY <1>2, <3>1, <3>2 DEF SameButTree
  <2>2. CASE k \notin dkeys
    <3> PICK v : v = mowgli_dictionary_link(d, k)
      OBVIOUS
    <3>1. Dict(v, dkeys \cup {k}) /\ v.cmp = d.cmp /\ v.dirty
      BY <1>2, <2>2, LinkHolds
    <3> QED
      BY <1>1, <1>2, <2>2, <3>1 DEF SameButTree, Ranked
  <2> QED
    BY <2>1, <2>2
<1>4. Ordered(dict.cmp)
  BY <1>1, Order DEF Dict, DRecord
<1>5. Iterating(dict.cmp, dkeys', diter)
  BY <1>1, <1>4, IteratingKept
<1> QED
  BY <1>1, <1>3, <1>5 DEF DictInv

\* mowgli_dictionary_delete
LEMMA DeleteStep ==
  ASSUME DictKeyAssumption, DictInv, NEW k \in DictKey, mowgli_dictionary_delete(k)
  PROVE  DictInv'
<1>1. /\ Dict(dict, dkeys) /\ Ranked(dict) /\ Iterating(dict.cmp, dkeys, diter)
      /\ diter.on => k = diter.cur
      /\ dict' = DDelete(dict, k) /\ dkeys' = dkeys \ {k} /\ diter' = diter
  BY DEF DictInv, mowgli_dictionary_delete
<1>2. Dict(dict', dkeys') /\ dict'.cmp = dict.cmp /\ Ranked(dict')
  BY <1>1, DeleteRanked
<1>3. Ordered(dict.cmp)
  BY <1>1, Order DEF Dict, DRecord
<1>4. Iterating(dict.cmp, dkeys', diter)
  BY <1>1, <1>3, IteratingKept
<1> QED
  BY <1>1, <1>2, <1>4 DEF DictInv

\* mowgli_dictionary_get_linear_index
LEMMA LinearIndexStep ==
  ASSUME DictKeyAssumption, DictInv, NEW k \in DictKey, mowgli_dictionary_get_linear_index(k)
  PROVE  DictInv'
<1> PICK d : d = mowgli_dictionary_retune(dict, k)
  OBVIOUS
<1>1. /\ Dict(dict, dkeys) /\ Ranked(dict) /\ Iterating(dict.cmp, dkeys, diter)
      /\ dict' = (IF DFound(d, k) /\ d.dirty THEN DPositions(d) ELSE d)
      /\ dkeys' = dkeys /\ diter' = diter
  BY DEF DictInv, mowgli_dictionary_get_linear_index
<1>2. Dict(d, dkeys) /\ SameButTree(dict, d) /\ Ranked(d)
  BY <1>1, RetuneHolds, RankedSame DEF Retuned
<1>3. Dict(dict', dkeys) /\ dict'.cmp = dict.cmp /\ Ranked(dict')
  <2> PICK v : v = DPositions(d)
    OBVIOUS
  <2>1. Dict(v, dkeys) /\ Ranked(v) /\ v.cmp = d.cmp
    BY <1>2, PositionsHold
  <2> QED
    BY <1>1, <1>2, <2>1 DEF SameButTree
<1> QED
  BY <1>1, <1>3 DEF DictInv

\* mowgli_dictionary_set_comparator_func
LEMMA ComparatorStep ==
  ASSUME DictKeyAssumption, DictInv, NEW cmp \in DOrder, mowgli_dictionary_set_comparator_func(cmp)
  PROVE  DictInv'
<1>1. /\ Dict(dict, dkeys) /\ Ranked(dict) /\ Iterating(dict.cmp, dkeys, diter)
      /\ dict.root = DNull /\ ~diter.on /\ dict' = [dict EXCEPT !.cmp = cmp]
      /\ dkeys' = dkeys /\ diter' = diter
  BY DEF DictInv, mowgli_dictionary_set_comparator_func
<1>2. Dict(dict', dkeys) /\ Ranked(dict')
  BY <1>1, ComparatorHolds
<1>3. Iterating(dict'.cmp, dkeys, diter)
  BY <1>1 DEF Iterating
<1> QED
  BY <1>1, <1>2, <1>3 DEF DictInv

\* mowgli_dictionary_destroy
LEMMA DestroyStep ==
  ASSUME DictKeyAssumption, DictInv, NEW cmp \in DOrder, mowgli_dictionary_destroy(cmp)
  PROVE  DictInv'
<1>1. /\ Dict(dict, dkeys) /\ Iterating(dict.cmp, dkeys, diter)
      /\ ~diter.on /\ dict' = mowgli_dictionary_create(cmp)
      /\ dkeys' = dkeys \ ToSet(DPath(dict, "r", dict.end["l"])) /\ diter' = diter
  BY DEF DictInv, mowgli_dictionary_destroy
<1>2. dkeys' = {}
  <2> PICK p : p = DPath(dict, "r", dict.end["l"])
    OBVIOUS
  <2>1. "r" \in DSide /\ DOther("r") = "l"
    BY Sides
  <2>2. ToSet(p) = dkeys
    BY <1>1, <2>1, ListIs
  <2> QED
    BY <1>1, <2>2
<1>3. Dict(dict', dkeys') /\ Ranked(dict')
  BY <1>1, <1>2, CreateHolds
<1>4. Iterating(dict'.cmp, dkeys', diter)
  BY <1>1 DEF Iterating
<1> QED
  BY <1>1, <1>3, <1>4 DEF DictInv

\* mowgli_dictionary_foreach and mowgli_dictionary_search
LEMMA TraverseStep ==
  ASSUME DictKeyAssumption, DictInv, NEW gone, NEW stop \in SUBSET DictKey, DictTraverse(gone, stop)
  PROVE  DictInv'
<1> PICK d, K, c, X : d = dict /\ K = dkeys /\ c = d.cmp /\ X = Doomed(c, K, gone, stop)
  OBVIOUS
<1>1. /\ Dict(d, K) /\ Ranked(d) /\ Iterating(c, K, diter) /\ ~diter.on /\ gone \in SUBSET K
      /\ dict' = DVisitAll(d, gone, stop) /\ diter' = diter
      /\ dkeys' = K \ {k \in gone : \A q \in stop \cap K : ~DBefore(d, q, k)}
  BY DEF DictInv, DictTraverse
<1>2. /\ Dict(dict', K \ X) /\ Ranked(dict') /\ dict'.cmp = c
  BY <1>1, VisitAllHolds
<1>3. dkeys' = K \ X
  <2>1. c \in DOrder /\ K \in SUBSET DictKey
    BY <1>1 DEF Dict, DRecord
  <2>2. \A q, k \in DictKey : DBefore(d, q, k) <=> Lies(c, "l", q, k)
    BY <2>1, SideLies
  <2>3. X = {k \in gone : \A q \in stop \cap K : ~DBefore(d, q, k)}
    BY <1>1, <2>1, <2>2 DEF Doomed
  <2> QED
    BY <1>1, <2>3
<1>4. Iterating(c, dkeys', diter)
  BY <1>1 DEF Iterating
<1> QED
  BY <1>1, <1>2, <1>3, <1>4 DEF DictInv

\* mowgli_dictionary_foreach_start
LEMMA ForeachStartStep ==
  ASSUME DictKeyAssumption, DictInv, mowgli_dictionary_foreach_start
  PROVE  DictInv'
<1> PICK d, K, c, e, n : d = dict /\ K = dkeys /\ c = d.cmp /\ e = d.end["l"] /\ n = DNextOf(d, e)
  OBVIOUS
<1>1. /\ Dict(d, K) /\ c \in DOrder /\ Ordered(c) /\ K \in SUBSET DictKey /\ d \in DRecord
      /\ "l" \in DSide /\ "r" \in DSide /\ DOther("l") = "r" /\ DNull \notin DictKey
  BY Order, Sides, Apart DEF DictInv, Dict, DRecord
<1>2. /\ diter' = [on |-> TRUE, cur |-> e, next |-> n, start |-> K, seen |-> {}]
      /\ dict' = d /\ dkeys' = K
  BY DEF mowgli_dictionary_foreach_start
<1>3. Nearest(c, K, "r", e) /\ (e \in K => Nearest(c, Part(c, K, "r", e), "r", d.nbr["r"][e]))
  BY <1>1 DEF Dict, Chained
<1>4. Iterating(c, K, diter')
  <2>1. CASE K = {}
    <3>1. e = DNull /\ n = DNull
      BY <1>3, <2>1 DEF Nearest, DNextOf
    <3> QED
      BY <1>2, <2>1, <3>1 DEF Iterating, DIteration, DPointer
  <2>2. CASE K # {}
    <3>1. e \in K /\ (\A x \in K : x = e \/ Lies(c, "r", x, e)) /\ n = d.nbr["r"][e]
      BY <1>1, <1>3, <2>2 DEF Nearest, DNextOf
    <3>2. Nearest(c, Part(c, K, "r", e), "r", n)
      BY <1>3, <3>1
    <3>3. n = DNull \/ (n \in K /\ Lies(c, "r", n, e))
      BY <3>2 DEF Nearest, Part
    <3>4. \A k \in K \ {e} : n # DNull /\ (k = n \/ Lies(c, "r", k, n))
      BY <1>1, <3>1, <3>2 DEF Nearest, Part
    <3>5. diter' \in DIteration
      BY <1>1, <1>2, <3>1, <3>3 DEF DIteration, DPointer
    <3> QED
      BY <1>1, <1>2, <3>1, <3>3, <3>4, <3>5 DEF Iterating
  <2> QED
    BY <2>1, <2>2
<1> QED
  BY <1>1, <1>2, <1>4 DEF DictInv

\* mowgli_dictionary_foreach_next
LEMMA ForeachNextStep ==
  ASSUME DictKeyAssumption, DictInv, mowgli_dictionary_foreach_next
  PROVE  DictInv'
<1> PICK d, K, c, it, e, n, m : /\ d = dict /\ K = dkeys /\ c = d.cmp /\ it = diter
                                /\ e = it.cur /\ n = it.next /\ m = DNextOf(d, n)
  OBVIOUS
<1>1. /\ Dict(d, K) /\ c \in DOrder /\ Ordered(c) /\ K \in SUBSET DictKey /\ d \in DRecord
      /\ "l" \in DSide /\ "r" \in DSide /\ DOther("l") = "r" /\ DOther("r") = "l" /\ DNull \notin DictKey
  BY Order, Sides, Apart DEF DictInv, Dict, DRecord
<1>2. /\ it \in DIteration /\ it.on /\ e \in DictKey /\ n \in K \cup {DNull}
      /\ it.seen \in SUBSET DictKey /\ it.start \in SUBSET DictKey
      /\ \A k \in it.seen : Lies(c, "l", k, e)
      /\ n # DNull => Lies(c, "r", n, e)
      /\ \A k \in it.start \ (it.seen \cup {e}) : k \in K /\ n # DNull /\ (k = n \/ Lies(c, "r", k, n))
  BY DEF DictInv, Iterating, DIteration, DPointer, mowgli_dictionary_foreach_next
<1> PICK w : w = [it EXCEPT !.seen = it.seen \cup {e}, !.cur = n, !.next = m]
  OBVIOUS
<1>3. diter' = w /\ dict' = d /\ dkeys' = K
  BY DEF mowgli_dictionary_foreach_next, DAdvance
<1>4. /\ w.seen = it.seen \cup {e} /\ w.cur = n /\ w.next = m /\ w.on /\ w.start = it.start
      /\ (m \in DPointer => w \in DIteration)
  BY <1>1, <1>2 DEF DIteration, DPointer
<1>5. CASE n = DNull
  <2>1. m = DNull
    BY <1>5 DEF DNextOf
  <2>2. \A k \in it.start : k \in it.seen \cup {e}
    BY <1>2, <1>5
  <2>3. Iterating(c, K, w)
    BY <1>4, <1>5, <2>1, <2>2 DEF Iterating, DPointer
  <2> QED
    BY <1>1, <1>3, <2>3 DEF DictInv
<1>6. CASE n # DNull
  <2>1. n \in K /\ n \in DictKey /\ m = d.nbr["r"][n] /\ Lies(c, "r", n, e)
    BY <1>1, <1>2, <1>6 DEF DNextOf
  <2>2. Nearest(c, Part(c, K, "r", n), "r", m)
    BY <1>1, <2>1 DEF Dict, Chained
  <2>3. m = DNull \/ (m \in K /\ Lies(c, "r", m, n))
    BY <2>2 DEF Nearest, Part
  <2>4. \A k \in it.start \ (w.seen \cup {n}) : k \in K /\ m # DNull /\ (k = m \/ Lies(c, "r", k, m))
    <3> TAKE k \in it.start \ (w.seen \cup {n})
    <3>1. k \in K /\ Lies(c, "r", k, n)
      BY <1>2, <1>4
    <3> QED
      BY <1>1, <2>2, <3>1 DEF Nearest, Part
  <2>5. \A k \in w.seen : Lies(c, "l", k, n)
    <3>1. Lies(c, "l", e, n)
      BY ONLY <1>1, <1>2, <2>1 DEF Ordered
    <3>2. \A k \in DictKey : Lies(c, "l", k, e) => Lies(c, "l", k, n)
      BY ONLY <1>1, <1>2, <2>1, <3>1 DEF Ordered
    <3> QED
      BY <1>2, <1>4, <3>1, <3>2
  <2>6. m \in DPointer
    BY <1>1, <2>3 DEF DPointer
  <2>7. Iterating(c, K, w)
    BY <1>4, <2>1, <2>3, <2>4, <2>5, <2>6, <1>6 DEF Iterating
  <2> QED
    BY <1>1, <1>3, <2>7 DEF DictInv
<1> QED
  BY <1>5, <1>6

\* every call keeps the invariant
LEMMA DictNextInv ==
  ASSUME DictKeyAssumption, DictInv, [DictNext]_dictVars
  PROVE  DictInv'
<1>1. ASSUME NEW k \in DictKey, mowgli_dictionary_find(k) PROVE DictInv'
  BY <1>1, FindStep
<1>2. ASSUME NEW k \in DictKey, mowgli_dictionary_add(k) PROVE DictInv'
  BY <1>2, AddStep
<1>3. ASSUME NEW k \in DictKey, mowgli_dictionary_delete(k) PROVE DictInv'
  BY <1>3, DeleteStep
<1>4. ASSUME NEW k \in DictKey, mowgli_dictionary_get_linear_index(k) PROVE DictInv'
  BY <1>4, LinearIndexStep
<1>5. ASSUME NEW cmp \in {"up", "down"}, mowgli_dictionary_set_comparator_func(cmp) PROVE DictInv'
  BY <1>5, ComparatorStep DEF DOrder
<1>6. ASSUME NEW cmp \in {"up", "down"}, mowgli_dictionary_destroy(cmp) PROVE DictInv'
  BY <1>6, DestroyStep DEF DOrder
<1>7. CASE mowgli_dictionary_foreach_start
  BY <1>7, ForeachStartStep
<1>8. CASE mowgli_dictionary_foreach_next
  BY <1>8, ForeachNextStep
<1>9. CASE DictIterationOver
  <2>1. Iterating(dict.cmp, dkeys, DIdle)
    BY DEF Iterating, DIteration, DIdle, DPointer
  <2> QED
    BY <1>9, <2>1 DEF DictIterationOver, DictInv
<1>10. ASSUME NEW gone \in SUBSET DictKey, mowgli_dictionary_foreach(gone) PROVE DictInv'
  <2>1. {} \in SUBSET DictKey /\ DictTraverse(gone, {})
    BY <1>10 DEF mowgli_dictionary_foreach
  <2> QED
    BY <2>1, TraverseStep
<1>11. ASSUME NEW gone \in SUBSET DictKey, NEW k \in dkeys, mowgli_dictionary_search(gone, k) PROVE DictInv'
  <2>1. {k} \in SUBSET DictKey /\ DictTraverse(gone, {k})
    BY <1>11 DEF mowgli_dictionary_search, DictInv, Dict
  <2> QED
    BY <2>1, TraverseStep
<1>12. CASE UNCHANGED dictVars
  BY <1>12 DEF DictInv, dictVars
<1> QED
  BY <1>1, <1>2, <1>3, <1>4, <1>5, <1>6, <1>7, <1>8, <1>9, <1>10, <1>11, <1>12 DEF DictNext

\* the invariant holds of every dictionary
LEMMA DictInvariant == DictSpec => []DictInv
<1>1. DictInit => DictInv
  BY DictKeyAssumption, DictInitInv
<1>2. DictInv /\ [DictNext]_dictVars => DictInv'
  BY DictKeyAssumption, DictNextInv
<1> QED
  BY <1>1, <1>2, PTL DEF DictSpec

(* Whatever was looked up, added, deleted and visited, in whatever order:   *)
(* the list is the keys in order, both ways, count is their number, the     *)
(* tree has the same keys on their sides, a lookup finds a key exactly when *)
(* it is there, and an index that is not marked dirty is right.             *)
THEOREM DictSortedHolds == DictSpec => []DictSorted
<1>1. DictInv => DictSorted
  BY DictKeyAssumption, DictSortedFollows DEF DictInv
<1> QED
  BY <1>1, DictInvariant, PTL

(* An iteration whose current element may be deleted, with any keys added   *)
(* and looked up meanwhile, shows the keys in order and leaves out none     *)
(* that was there when it began: they are all ahead of the next element the *)
(* iteration has saved.                                                     *)
THEOREM DictIterationHolds == DictSpec => []DictIteration
<1>1. DictInv => DictIteration
  BY DictKeyAssumption, DictIterationFollows
<1> QED
  BY <1>1, DictInvariant, PTL
=============================================================================
