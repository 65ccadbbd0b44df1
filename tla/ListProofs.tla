----------------------------- MODULE ListProofs -----------------------------
(* What adding and deleting nodes does to the set of a list's members and  *)
(* to their order, for every list; and what a loop computes, for every     *)
(* step it can take.                                                       *)
EXTENDS Lists, FiniteSetTheorems, SequenceTheorems, WellFoundedInduction, TLAPS

Injective(s) == \A i, j \in DOMAIN s : s[i] = s[j] => i = j

-----------------------------------------------------------------------------
(* Deleting a node from a list without repetitions.                        *)

LEMMA UnlinkProperties ==
  ASSUME NEW S, NEW list \in Seq(S), NEW b \in ToSet(list),
         \A i, j \in DOMAIN list : list[i] = list[j] => i = j
  PROVE  \E p \in 1 .. Len(list) :
           /\ list[p] = b
           /\ Unlink(list, b) \in Seq(S)
           /\ Len(Unlink(list, b)) = Len(list) - 1
           /\ \A i \in 1 .. Len(list) - 1 :
                Unlink(list, b)[i] = IF i < p THEN list[i] ELSE list[i + 1]
<1> DEFINE p == CHOOSE i \in DOMAIN list : list[i] = b
           u == SubSeq(list, 1, p - 1)
           v == SubSeq(list, p + 1, Len(list))
<1>1. p \in 1 .. Len(list) /\ list[p] = b
  BY DEF ToSet
<1> HIDE DEF p
<1>2. /\ u \in Seq(S)
      /\ Len(u) = p - 1
      /\ \A i \in 1 .. p - 1 : u[i] = list[i]
  BY <1>1
<1>3. /\ v \in Seq(S)
      /\ Len(v) = Len(list) - p
      /\ \A i \in 1 .. Len(list) - p : v[i] = list[p + i]
  BY <1>1
<1> HIDE DEF u, v
<1>4. /\ u \o v \in Seq(S)
      /\ Len(u \o v) = Len(list) - 1
      /\ \A i \in 1 .. Len(list) - 1 :
           (u \o v)[i] = IF i < p THEN list[i] ELSE list[i + 1]
  <2>1. /\ u \o v \in Seq(S)
        /\ Len(u \o v) = Len(u) + Len(v)
        /\ \A i \in 1 .. Len(u) + Len(v) :
             (u \o v)[i] = IF i <= Len(u) THEN u[i] ELSE v[i - Len(u)]
    BY <1>2, <1>3, ConcatProperties, ZenonT(40)
  <2> QED
    BY <2>1, <1>1, <1>2, <1>3
<1>5. Unlink(list, b) = u \o v
  BY DEF Unlink, IndexOf, RemoveAt, u, v, p
<1> QED
  BY <1>1, <1>4, <1>5

LEMMA UnlinkSet ==
  ASSUME NEW S, NEW list \in Seq(S), NEW b \in ToSet(list),
         \A i, j \in DOMAIN list : list[i] = list[j] => i = j
  PROVE  /\ Unlink(list, b) \in Seq(S)
         /\ ToSet(Unlink(list, b)) = ToSet(list) \ {b}
         /\ \A i, j \in DOMAIN Unlink(list, b) :
              Unlink(list, b)[i] = Unlink(list, b)[j] => i = j
         /\ \A i, j \in DOMAIN Unlink(list, b) :
              i < j => \E k, l \in DOMAIN list :
                         /\ k < l
                         /\ list[k] = Unlink(list, b)[i]
                         /\ list[l] = Unlink(list, b)[j]
<1> DEFINE u == Unlink(list, b)
           n == Len(list)
<1>1. PICK p \in 1 .. n :
        /\ list[p] = b /\ u \in Seq(S) /\ Len(u) = n - 1
        /\ \A i \in 1 .. n - 1 : u[i] = IF i < p THEN list[i] ELSE list[i + 1]
  BY UnlinkProperties
<1>2. n \in Nat /\ DOMAIN list = 1 .. n
  OBVIOUS
<1> HIDE DEF u, n
<1>3. DOMAIN u = 1 .. n - 1
  BY <1>1
<1> DEFINE K(i) == IF i < p THEN i ELSE i + 1
<1>4. \A i \in 1 .. n - 1 : /\ K(i) \in 1 .. n /\ K(i) # p /\ u[i] = list[K(i)]
  BY <1>1, <1>2
<1>5. \A i, j \in 1 .. n - 1 : (i < j => K(i) < K(j)) /\ (K(i) = K(j) => i = j)
  BY <1>1, <1>2
<1>6. \A k \in 1 .. n : k # p => \E i \in 1 .. n - 1 : K(i) = k
  <2>1. SUFFICES ASSUME NEW k \in 1 .. n, k # p PROVE \E i \in 1 .. n - 1 : K(i) = k
    OBVIOUS
  <2>2. CASE k < p
    <3>1. k \in 1 .. n - 1 /\ K(k) = k
      BY <1>1, <1>2, <2>2
    <3> QED
      BY <3>1
  <2>3. CASE k > p
    <3>1. k - 1 \in 1 .. n - 1 /\ K(k - 1) = k
      BY <1>1, <1>2, <2>3
    <3> QED
      BY <3>1
  <2> QED
    BY <1>1, <1>2, <2>1, <2>2, <2>3
<1> HIDE DEF K
<1>7. ToSet(u) = ToSet(list) \ {b}
  <2>1. ASSUME NEW x \in ToSet(u) PROVE x \in ToSet(list) \ {b}
    <3>1. PICK i \in 1 .. n - 1 : x = u[i]
      BY <1>3 DEF ToSet
    <3> QED
      BY <1>1, <1>2, <1>4, <3>1, SMTT(40) DEF ToSet
  <2>2. ASSUME NEW x \in ToSet(list) \ {b} PROVE x \in ToSet(u)
    <3>1. PICK k \in 1 .. n : x = list[k]
      BY <1>2 DEF ToSet
    <3>2. PICK i \in 1 .. n - 1 : K(i) = k
      BY <1>1, <1>6, <3>1
    <3> QED
      BY <1>3, <1>4, <3>1, <3>2 DEF ToSet
  <2> QED
    BY <2>1, <2>2
<1>8. \A i, j \in DOMAIN u : u[i] = u[j] => i = j
  BY <1>2, <1>3, <1>4, <1>5
<1>9. \A i, j \in DOMAIN u :
        i < j => \E k, l \in DOMAIN list : k < l /\ list[k] = u[i] /\ list[l] = u[j]
  BY <1>2, <1>3, <1>4, <1>5
<1> QED
  BY <1>1, <1>7, <1>8, <1>9 DEF u

LEMMA ConsSet ==
  ASSUME NEW S, NEW list \in Seq(S), NEW b \in S, b \notin ToSet(list),
         \A i, j \in DOMAIN list : list[i] = list[j] => i = j
  PROVE  LET L == <<b>> \o list
         IN  /\ L \in Seq(S)
             /\ L[1] = b
             /\ ToSet(L) = ToSet(list) \cup {b}
             /\ \A i, j \in DOMAIN L : L[i] = L[j] => i = j
             /\ \A i \in DOMAIN L : i # 1 => i - 1 \in DOMAIN list /\ L[i] = list[i - 1]
<1> DEFINE L == <<b>> \o list
           n == Len(list)
<1>1. /\ L \in Seq(S) /\ n \in Nat /\ DOMAIN list = 1 .. n /\ DOMAIN L = 1 .. n + 1
      /\ L[1] = b /\ \A i \in 2 .. n + 1 : L[i] = list[i - 1]
  OBVIOUS
<1> HIDE DEF L, n
<1>2. \A i \in DOMAIN L : i # 1 => i - 1 \in DOMAIN list /\ L[i] = list[i - 1]
  BY <1>1
<1>3. ToSet(L) = ToSet(list) \cup {b}
  <2>1. ASSUME NEW x \in ToSet(L) PROVE x \in ToSet(list) \cup {b}
    BY <1>1, <1>2 DEF ToSet
  <2>2. ASSUME NEW x \in ToSet(list) PROVE x \in ToSet(L)
    <3>1. PICK i \in 1 .. n : x = list[i]
      BY <1>1 DEF ToSet
    <3>2. i + 1 \in DOMAIN L /\ L[i + 1] = list[i]
      BY <1>1, <3>1
    <3> QED
      BY <3>1, <3>2 DEF ToSet
  <2>3. b \in ToSet(L)
    <3>1. 1 \in DOMAIN L
      BY <1>1
    <3> QED
      BY <1>1, <3>1 DEF ToSet
  <2> QED
    BY <2>1, <2>2, <2>3
<1>4. ASSUME NEW i \in DOMAIN L, NEW j \in DOMAIN L, L[i] = L[j] PROVE i = j
  <2>1. \A k \in DOMAIN L : k # 1 => L[k] # b
    BY <1>2 DEF ToSet
  <2>2. CASE i = 1 \/ j = 1
    BY <1>1, <1>4, <2>1, <2>2
  <2>3. CASE i # 1 /\ j # 1
    <3>1. i - 1 \in DOMAIN list /\ j - 1 \in DOMAIN list /\ list[i - 1] = list[j - 1]
      BY <1>2, <1>4, <2>3
    <3>2. i - 1 = j - 1
      BY <3>1
    <3>3. i \in 1 .. n + 1 /\ j \in 1 .. n + 1
      BY <1>1
    <3> QED
      BY <1>1, <3>2, <3>3
  <2> QED
    BY <2>2, <2>3
<1> QED
  BY <1>1, <1>2, <1>3, <1>4 DEF L

LEMMA SnocSet ==
  ASSUME NEW S, NEW list \in Seq(S), NEW b \in S, b \notin ToSet(list),
         \A i, j \in DOMAIN list : list[i] = list[j] => i = j
  PROVE  LET L == Append(list, b)
         IN  /\ L \in Seq(S)
             /\ ToSet(L) = ToSet(list) \cup {b}
             /\ \A i, j \in DOMAIN L : L[i] = L[j] => i = j
             /\ \A i, j \in DOMAIN L :
                  i < j => /\ i \in DOMAIN list /\ L[i] = list[i]
                           /\ L[j] = b \/ (j \in DOMAIN list /\ L[j] = list[j])
<1> DEFINE L == Append(list, b)
           n == Len(list)
<1>1. /\ L \in Seq(S) /\ n \in Nat /\ DOMAIN list = 1 .. n /\ DOMAIN L = 1 .. n + 1
      /\ L[n + 1] = b /\ \A i \in 1 .. n : L[i] = list[i]
  OBVIOUS
<1> HIDE DEF L, n
<1>2. \A i \in DOMAIN L : i # n + 1 => i \in DOMAIN list /\ L[i] = list[i]
  BY <1>1
<1>3. ToSet(L) = ToSet(list) \cup {b}
  <2>1. ASSUME NEW x \in ToSet(L) PROVE x \in ToSet(list) \cup {b}
    BY <1>1, <1>2 DEF ToSet
  <2>2. ASSUME NEW x \in ToSet(list) PROVE x \in ToSet(L)
    <3>1. PICK i \in 1 .. n : x = list[i]
      BY <1>1 DEF ToSet
    <3>2. i \in DOMAIN L /\ L[i] = list[i]
      BY <1>1, <3>1
    <3> QED
      BY <3>1, <3>2 DEF ToSet
  <2>3. b \in ToSet(L)
    <3>1. n + 1 \in DOMAIN L
      BY <1>1
    <3> QED
      BY <1>1, <3>1 DEF ToSet
  <2> QED
    BY <2>1, <2>2, <2>3
<1>4. ASSUME NEW i \in DOMAIN L, NEW j \in DOMAIN L, L[i] = L[j] PROVE i = j
  <2>1. \A k \in DOMAIN L : k # n + 1 => L[k] # b
    BY <1>2 DEF ToSet
  <2>2. CASE i = n + 1 \/ j = n + 1
    BY <1>1, <1>4, <2>1, <2>2
  <2>3. CASE i # n + 1 /\ j # n + 1
    BY <1>2, <1>4, <2>3
  <2> QED
    BY <2>2, <2>3
<1>5. ASSUME NEW i \in DOMAIN L, NEW j \in DOMAIN L, i < j
      PROVE  /\ i \in DOMAIN list /\ L[i] = list[i]
             /\ L[j] = b \/ (j \in DOMAIN list /\ L[j] = list[j])
  <2>1. i # n + 1
    BY <1>1, <1>5
  <2> QED
    BY <1>1, <1>2, <2>1
<1> QED
  BY <1>1, <1>3, <1>4, <1>5 DEF L

-----------------------------------------------------------------------------
(* Minima, and the nodes of a list.                                        *)

LEMMA NatMin ==
  ASSUME NEW S \in SUBSET Nat, S # {}
  PROVE  Min(S) \in S /\ \A y \in S : Min(S) <= y
<1> DEFINE R == OpToRel(<, Nat)
<1>1. IsWellFoundedOn(R, Nat)
  BY NatLessThanWellFounded
<1>2. \A x, y \in Nat : x < y => <<x, y>> \in R
  BY DEF OpToRel
<1> HIDE DEF R
<1>3. PICK x \in S : \A y \in S : ~ (<<y, x>> \in R)
  BY <1>1, WFMin
<1>4. \A y \in S : x <= y
  <2> SUFFICES ASSUME NEW y \in S, ~(x <= y) PROVE FALSE
    OBVIOUS
  <2>1. x \in Nat /\ y \in Nat /\ y < x
    OBVIOUS
  <2> QED
    BY <1>2, <1>3, <2>1
<1> QED
  BY <1>4 DEF Min

LEMMA NextOnList ==
  ASSUME NEW S, NEW list \in Seq(S), Injective(list), NEW null, null \notin S,
         NEW x \in ToSet(list) \cup {null}
  PROVE  /\ NextNode(list, x, null) \in ToSet(list) \cup {null}
         /\ x # null => NextNode(list, x, null) # x
         /\ x = null => NextNode(list, x, null) = null
<1>1. CASE x = null
  BY <1>1 DEF NextNode
<1>2. CASE x # null
  <2> DEFINE i == IndexOf(list, x)
  <2>1. i \in 1 .. Len(list) /\ list[i] = x /\ DOMAIN list = 1 .. Len(list)
    BY <1>2 DEF ToSet, IndexOf
  <2> HIDE DEF i
  <2>2. Len(list) \in Nat /\ x \in S
    BY <1>2, <2>1
  <2>3. NextNode(list, x, null) = IF i = Len(list) THEN null ELSE list[i + 1]
    BY <1>2 DEF NextNode, i
  <2>4. CASE i = Len(list)
    BY <1>2, <2>3, <2>4
  <2>5. CASE i # Len(list)
    <3>1. i + 1 \in 1 .. Len(list) /\ i + 1 # i
      BY <2>1, <2>2, <2>5
    <3>2. list[i + 1] # x
      BY <2>1, <3>1 DEF Injective
    <3>3. list[i + 1] \in ToSet(list)
      BY <2>1, <3>1 DEF ToSet
    <3> QED
      BY <1>2, <2>3, <2>5, <3>2, <3>3
  <2> QED
    BY <2>4, <2>5
<1> QED
  BY <1>1, <1>2

LEMMA AppendSet ==
  ASSUME NEW S, NEW list \in Seq(S), NEW x \in S
  PROVE  ToSet(Append(list, x)) = ToSet(list) \cup {x}
<1>1. /\ Len(list) \in Nat /\ DOMAIN list = 1 .. Len(list)
      /\ DOMAIN Append(list, x) = 1 .. Len(list) + 1
      /\ \A i \in 1 .. Len(list) : Append(list, x)[i] = list[i]
      /\ Append(list, x)[Len(list) + 1] = x
  OBVIOUS
<1>2. ToSet(Append(list, x)) \subseteq ToSet(list) \cup {x}
  BY <1>1 DEF ToSet
<1>3. ToSet(list) \subseteq ToSet(Append(list, x))
  BY <1>1 DEF ToSet
<1>4. x \in ToSet(Append(list, x))
  BY <1>1 DEF ToSet
<1> QED
  BY <1>2, <1>3, <1>4

LEMMA HeadOnList ==
  ASSUME NEW S, NEW list \in Seq(S), NEW null
  PROVE  HeadNode(list, null) \in ToSet(list) \cup {null}
<1>1. CASE list = << >>
  BY <1>1 DEF HeadNode
<1>2. CASE list # << >>
  <2>1. 1 \in DOMAIN list /\ Head(list) = list[1]
    BY <1>2
  <2> QED
    BY <1>2, <2>1 DEF HeadNode, ToSet
<1> QED
  BY <1>1, <1>2

-----------------------------------------------------------------------------
(* Deleting several nodes.                                                 *)

LEMMA IndexOfInjective ==
  ASSUME NEW S, NEW list \in Seq(S), Injective(list), NEW i \in 1 .. Len(list)
  PROVE  IndexOf(list, list[i]) = i
  BY DEF IndexOf, Injective

LEMMA SeqOfSeq ==
  ASSUME NEW S, NEW k \in Nat, NEW s \in Seq(S), Len(s) <= k
  PROVE  s \in SeqOf(S, k)
<1>1. Len(s) \in 0 .. k /\ s \in [1 .. Len(s) -> S]
  OBVIOUS
<1> QED
  BY <1>1 DEF SeqOf

\* s is what is left of l when the nodes outside T are deleted
IsKept(l, T, s) ==
  /\ s \in SeqOf({n \in ToSet(l) : n \in T}, Len(l))
  /\ ToSet(s) = {n \in ToSet(l) : n \in T}
  /\ \A i, j \in DOMAIN s : i < j => IndexOf(l, s[i]) < IndexOf(l, s[j])

\* one more node at the end
LEMMA KeptAppend ==
  ASSUME NEW S, NEW T, NEW k \in Nat, NEW l \in Seq(S), Len(l) = k + 1, Injective(l),
         NEW f \in Seq(S), Len(f) = k, \A i \in 1 .. k : f[i] = l[i],
         NEW s, IsKept(f, T, s)
  PROVE  \E u : IsKept(l, T, u)
<1> DEFINE x == l[k + 1]
           rest == {n \in ToSet(f) : n \in T}
<1>1. ToSet(l) = ToSet(f) \cup {x} /\ x \notin ToSet(f)
  <2>1. DOMAIN l = 1 .. k + 1 /\ DOMAIN f = 1 .. k
    OBVIOUS
  <2>2. ToSet(l) \subseteq ToSet(f) \cup {x}
    BY <2>1 DEF ToSet
  <2>3. ToSet(f) \subseteq ToSet(l) /\ x \in ToSet(l)
    BY <2>1 DEF ToSet
  <2>4. x \notin ToSet(f)
    BY <2>1 DEF ToSet, Injective
  <2> QED
    BY <2>2, <2>3, <2>4
<1>2. /\ \A y \in ToSet(f) : IndexOf(l, y) = IndexOf(f, y) /\ IndexOf(f, y) \in 1 .. k
      /\ IndexOf(l, x) = k + 1
  <2>1. Injective(f)
    BY DEF Injective
  <2>2. \A i \in 1 .. k : IndexOf(f, f[i]) = i
    BY <2>1, IndexOfInjective
  <2>3. \A i \in 1 .. k + 1 : IndexOf(l, l[i]) = i
    BY IndexOfInjective
  <2>4. \A y \in ToSet(f) : \E i \in 1 .. k : y = f[i]
    BY DEF ToSet
  <2> QED
    BY <2>2, <2>3, <2>4
<1>3. PICK m \in 0 .. k : s \in [1 .. m -> rest]
  BY DEF IsKept, SeqOf
<1>4. s \in Seq(rest) /\ Len(s) = m /\ DOMAIN s = 1 .. m /\ ToSet(s) = rest
  BY <1>3 DEF IsKept
<1>5. \A i, j \in 1 .. m : i < j => IndexOf(l, s[i]) < IndexOf(l, s[j])
  <2>1. \A i \in 1 .. m : s[i] \in ToSet(f)
    BY <1>3
  <2> QED
    BY <1>2, <1>4, <2>1 DEF IsKept
<1>6. CASE x \notin T
  <2>1. {n \in ToSet(l) : n \in T} = rest
    BY <1>1, <1>6
  <2> HIDE DEF rest
  <2>2. s \in SeqOf(rest, Len(l))
    BY <1>3, <1>4, SeqOfSeq
  <2> QED
    BY <1>4, <1>5, <2>1, <2>2 DEF IsKept
<1>7. CASE x \in T
  <2> DEFINE u == Append(s, x)
             all == {n \in ToSet(l) : n \in T}
  <2>1. all = rest \cup {x}
    BY <1>1, <1>7
  <2>2. u \in Seq(all) /\ Len(u) = m + 1 /\ DOMAIN u = 1 .. m + 1 /\ u[m + 1] = x
        /\ \A i \in 1 .. m : u[i] = s[i]
    <3>1. s \in Seq(all) /\ x \in all
      BY <1>4, <2>1
    <3> HIDE DEF all
    <3> QED
      BY <1>3, <1>4, <3>1
  <2>3. ToSet(u) = all
    <3>1. s \in Seq(all) /\ x \in all
      BY <1>4, <2>1
    <3> QED
      BY <1>4, <2>1, <3>1, AppendSet
  <2>4. u \in SeqOf(all, Len(l))
    <3> HIDE DEF all, u
    <3> QED
      BY <1>3, <2>2, SeqOfSeq
  <2>5. ASSUME NEW i \in DOMAIN u, NEW j \in DOMAIN u, i < j
        PROVE  IndexOf(l, u[i]) < IndexOf(l, u[j])
    <3>1. i \in 1 .. m /\ u[i] = s[i] /\ s[i] \in ToSet(f)
      BY <1>3, <2>2, <2>5
    <3>2. CASE j = m + 1
      <4>1. IndexOf(l, u[i]) \in 1 .. k /\ IndexOf(l, u[j]) = k + 1
        BY <1>2, <2>2, <3>1, <3>2
      <4> QED
        BY <4>1
    <3>3. CASE j # m + 1
      <4>1. j \in 1 .. m /\ u[j] = s[j]
        BY <1>3, <2>2, <3>3
      <4> QED
        BY <1>5, <2>5, <3>1, <4>1
    <3> QED
      BY <3>2, <3>3
  <2> HIDE DEF u
  <2> QED
    BY <2>3, <2>4, <2>5 DEF IsKept
<1> QED
  BY <1>6, <1>7

\* by induction on the length: there is no shortest list that has no rest
LEMMA KeptExists ==
  ASSUME NEW S, NEW T, NEW list \in Seq(S), Injective(list)
  PROVE  \E s : IsKept(list, T, s)
<1> DEFINE Bad == {k \in Nat : \E l \in Seq(S) : /\ Injective(l) /\ Len(l) = k
                                                 /\ ~ \E s : IsKept(l, T, s)}
<1> SUFFICES ASSUME Bad # {} PROVE FALSE
  OBVIOUS
<1> DEFINE k == Min(Bad)
<1>1. k \in Bad /\ \A j \in Bad : k <= j
  BY NatMin
<1>2. PICK l \in Seq(S) : Injective(l) /\ Len(l) = k /\ ~ \E s : IsKept(l, T, s)
  BY <1>1
<1>3. k \in Nat
  BY <1>1
<1> HIDE DEF k, Bad
<1>4. \A j \in Nat : j < k => j \notin Bad
  BY <1>1, <1>3
<1>5. ASSUME NEW j \in Nat, j < k, NEW f \in Seq(S), Injective(f), Len(f) = j
      PROVE  \E s : IsKept(f, T, s)
  BY <1>4, <1>5 DEF Bad
<1>6. CASE k = 0
  <2>1. l = << >> /\ Len(l) = 0
    BY <1>2, <1>6
  <2>2. ToSet(<< >>) = {}
    BY DEF ToSet
  <2>3. {n \in ToSet(l) : n \in T} = {}
    BY <2>1, <2>2
  <2>4. << >> \in SeqOf({}, 0)
    <3>1. << >> \in [1 .. 0 -> {}] /\ 0 \in 0 .. 0
      OBVIOUS
    <3> QED
      BY <3>1, Zenon DEF SeqOf
  <2>5. IsKept(l, T, << >>)
    <3>1. DOMAIN << >> = {}
      OBVIOUS
    <3> QED
      BY <2>1, <2>2, <2>3, <2>4, <3>1, Zenon DEF IsKept
  <2> QED
    BY <1>2, <2>5
<1>7. CASE k # 0
  <2> DEFINE f == SubSeq(l, 1, k - 1)
  <2>1. k - 1 \in Nat /\ f \in Seq(S) /\ Len(f) = k - 1 /\ \A i \in 1 .. k - 1 : f[i] = l[i]
    BY <1>2, <1>3, <1>7
  <2> HIDE DEF f
  <2>2. Injective(f)
    BY <1>2, <1>3, <2>1, SMTT(30) DEF Injective
  <2>3. PICK s : IsKept(f, T, s)
    BY <1>3, <1>5, <2>1, <2>2
  <2>4. Len(l) = (k - 1) + 1
    BY <1>2, <1>3
  <2>5. \E u : IsKept(l, T, u)
    BY <1>2, <2>1, <2>3, <2>4, KeptAppend, SMTT(30)
  <2> QED
    BY <1>2, <2>5
<1> QED
  BY <1>6, <1>7

LEMMA KeptSet ==
  ASSUME NEW S, NEW T, NEW list \in Seq(S), Injective(list)
  PROVE  /\ Kept(list, T) \in Seq(S)
         /\ ToSet(Kept(list, T)) = ToSet(list) \cap T
         /\ Injective(Kept(list, T))
<1> DEFINE s == Kept(list, T)
<1>1. IsKept(list, T, s)
  <2>1. s = CHOOSE u \in SeqOf({n \in ToSet(list) : n \in T}, Len(list)) :
               /\ ToSet(u) = {n \in ToSet(list) : n \in T}
               /\ \A i, j \in DOMAIN u : i < j => IndexOf(list, u[i]) < IndexOf(list, u[j])
    BY DEF Kept
  <2>2. PICK u : IsKept(list, T, u)
    BY KeptExists
  <2> QED
    BY <2>1, <2>2 DEF IsKept
<1> HIDE DEF s
<1>2. PICK m \in 0 .. Len(list) : s \in [1 .. m -> {n \in ToSet(list) : n \in T}]
  BY <1>1 DEF IsKept, SeqOf
<1>3. s \in Seq(S) /\ DOMAIN s = 1 .. m
  BY <1>2 DEF ToSet
<1>4. Injective(s)
  <2> SUFFICES ASSUME NEW i \in 1 .. m, NEW j \in 1 .. m, s[i] = s[j], i < j PROVE FALSE
    BY <1>3 DEF Injective
  <2>1. s[i] \in ToSet(list)
    BY <1>2
  <2>2. IndexOf(list, s[i]) \in 1 .. Len(list)
    BY <2>1 DEF ToSet, IndexOf
  <2>3. IndexOf(list, s[i]) < IndexOf(list, s[j])
    BY <1>1, <1>3 DEF IsKept
  <2> QED
    BY <2>2, <2>3
<1> QED
  BY <1>1, <1>3, <1>4 DEF IsKept, s

-----------------------------------------------------------------------------
(* The order of a list's members.                                          *)

Precedes(s, x, y) == \E i, j \in DOMAIN s : i < j /\ s[i] = x /\ s[j] = y

LEMMA PrecedesOrder ==
  ASSUME NEW S, NEW s \in Seq(S), Injective(s), NEW x, NEW y
  PROVE  /\ ~Precedes(s, x, x)
         /\ Precedes(s, x, y) => x \in ToSet(s) /\ y \in ToSet(s) /\ ~Precedes(s, y, x)
         /\ x \in ToSet(s) /\ y \in ToSet(s) /\ x # y => Precedes(s, x, y) \/ Precedes(s, y, x)
<1>1. DOMAIN s \subseteq Int
  OBVIOUS
<1>2. ~Precedes(s, x, x)
  BY <1>1 DEF Precedes, Injective
<1>3. Precedes(s, x, y) => x \in ToSet(s) /\ y \in ToSet(s)
  BY DEF Precedes, ToSet
<1>4. Precedes(s, x, y) => ~Precedes(s, y, x)
  BY <1>1 DEF Precedes, Injective
<1>5. x \in ToSet(s) /\ y \in ToSet(s) /\ x # y => Precedes(s, x, y) \/ Precedes(s, y, x)
  <2> SUFFICES ASSUME x \in ToSet(s), y \in ToSet(s), x # y
               PROVE  Precedes(s, x, y) \/ Precedes(s, y, x)
    OBVIOUS
  <2>1. PICK i \in DOMAIN s : s[i] = x
    BY DEF ToSet
  <2>2. PICK j \in DOMAIN s : s[j] = y
    BY DEF ToSet
  <2>3. i < j \/ j < i
    BY <1>1, <2>1, <2>2
  <2> QED
    BY <2>1, <2>2, <2>3 DEF Precedes
<1> QED
  BY <1>2, <1>3, <1>4, <1>5

(* Deleting a node keeps the order of the others.                          *)
LEMMA UnlinkPrecedes ==
  ASSUME NEW S, NEW s \in Seq(S), Injective(s), NEW b \in ToSet(s), NEW x, NEW y,
         Precedes(s, x, y), x # b, y # b
  PROVE  Precedes(Unlink(s, b), x, y)
<1> DEFINE u == Unlink(s, b)
<1>1. /\ u \in Seq(S)
      /\ ToSet(u) = ToSet(s) \ {b}
      /\ Injective(u)
      /\ \A i, j \in DOMAIN u :
           i < j => \E k, l \in DOMAIN s : k < l /\ s[k] = u[i] /\ s[l] = u[j]
  BY UnlinkSet DEF Injective
<1> HIDE DEF u
<1>2. x # y /\ ~Precedes(s, y, x) /\ x \in ToSet(u) /\ y \in ToSet(u)
  BY <1>1, PrecedesOrder
<1>3. Precedes(u, y, x) => Precedes(s, y, x)
  BY <1>1 DEF Precedes
<1>4. Precedes(u, x, y) \/ Precedes(u, y, x)
  BY <1>1, <1>2, PrecedesOrder
<1> QED
  BY <1>2, <1>3, <1>4 DEF u

(* A new tail comes after all others.                                      *)
LEMMA AppendPrecedes ==
  ASSUME NEW S, NEW s \in Seq(S), Injective(s), NEW n \in S, n \notin ToSet(s)
  PROVE  /\ Append(s, n) \in Seq(S)
         /\ Injective(Append(s, n))
         /\ \A x, y : Precedes(s, x, y) => Precedes(Append(s, n), x, y)
<1> DEFINE a == Append(s, n)
<1>1. /\ a \in Seq(S)
      /\ Len(s) \in Nat /\ DOMAIN s = 1 .. Len(s) /\ DOMAIN a = 1 .. Len(s) + 1
      /\ \A i \in 1 .. Len(s) : a[i] = s[i]
      /\ a[Len(s) + 1] = n
  OBVIOUS
<1>2. \A i \in 1 .. Len(s) : s[i] # n
  BY <1>1 DEF ToSet
<1> HIDE DEF a
<1>3. Injective(a)
  BY <1>1, <1>2 DEF Injective
<1>4. \A x, y : Precedes(s, x, y) => Precedes(a, x, y)
  BY <1>1 DEF Precedes
<1> QED
  BY <1>1, <1>3, <1>4 DEF a

(* What follows x in a list.                                               *)
Rest(s, x) == SubSeq(s, IndexOf(s, x) + 1, Len(s))

LEMMA RestOfList ==
  ASSUME NEW S, NEW s \in Seq(S), Injective(s), NEW x \in ToSet(s)
  PROVE  LET r == Rest(s, x) IN
         /\ r \in Seq(S)
         /\ ToSet(r) = {y \in S : Precedes(s, x, y)}
         /\ r # << >> => /\ Precedes(s, x, Head(r))
                         /\ \A y : Precedes(s, x, y) /\ y # Head(r) => Precedes(s, Head(r), y)
                         /\ \A y : Precedes(s, y, x) => Precedes(s, y, Head(r))
<1> DEFINE p == IndexOf(s, x)
           r == Rest(s, x)
<1>1. p \in 1 .. Len(s) /\ s[p] = x /\ DOMAIN s = 1 .. Len(s) /\ Len(s) \in Nat
  BY DEF ToSet, IndexOf
<1> HIDE DEF p
<1>2. /\ r \in Seq(S) /\ DOMAIN r = 1 .. Len(s) - p /\ Len(r) = Len(s) - p
      /\ \A i \in 1 .. Len(s) - p : r[i] = s[p + i]
  <2>1. r = SubSeq(s, p + 1, Len(s))
    BY DEF p, Rest
  <2> HIDE DEF r
  <2> DEFINE v == SubSeq(s, p + 1, Len(s))
  <2>2. /\ v \in Seq(S)
        /\ Len(v) = Len(s) - p
        /\ \A i \in 1 .. Len(s) - p : v[i] = s[p + i]
    BY <1>1
  <2> HIDE DEF v
  <2>3. r = v
    BY <2>1 DEF v
  <2> QED
    BY <2>2, <2>3
<1> HIDE DEF r
<1>3. \A y : Precedes(s, x, y) <=> \E j \in p + 1 .. Len(s) : s[j] = y
  BY <1>1 DEF Precedes, Injective
<1>4. \A y : Precedes(s, y, x) <=> \E j \in 1 .. p - 1 : s[j] = y
  BY <1>1 DEF Precedes, Injective
<1>5. ASSUME NEW y \in ToSet(r) PROVE y \in S /\ Precedes(s, x, y)
  <2>1. PICK i \in 1 .. Len(s) - p : r[i] = y
    BY <1>2 DEF ToSet
  <2>2. p + i \in p + 1 .. Len(s) /\ s[p + i] = y /\ y \in S
    BY <1>1, <1>2, <2>1
  <2> QED
    BY <1>3, <2>2
<1>6. ASSUME NEW y \in S, Precedes(s, x, y) PROVE y \in ToSet(r)
  <2>1. PICK j \in p + 1 .. Len(s) : s[j] = y
    BY <1>3, <1>6
  <2>2. j - p \in 1 .. Len(s) - p /\ r[j - p] = y
    BY <1>1, <1>2, <2>1
  <2> QED
    BY <1>2, <2>2 DEF ToSet
<1>7. ASSUME r # << >>
      PROVE  /\ Precedes(s, x, Head(r))
             /\ \A y : Precedes(s, x, y) /\ y # Head(r) => Precedes(s, Head(r), y)
             /\ \A y : Precedes(s, y, x) => Precedes(s, y, Head(r))
  <2>1. 1 \in 1 .. Len(s) - p /\ Head(r) = s[p + 1] /\ p + 1 \in 1 .. Len(s)
    BY <1>1, <1>2, <1>7
  <2>2. Precedes(s, x, Head(r))
    BY <1>1, <2>1 DEF Precedes
  <2>3. ASSUME NEW y, Precedes(s, x, y), y # Head(r) PROVE Precedes(s, Head(r), y)
    <3>1. PICK j \in p + 1 .. Len(s) : s[j] = y
      BY <1>3, <2>3
    <3>2. p + 1 < j /\ j \in 1 .. Len(s)
      BY <1>1, <2>1, <2>3, <3>1
    <3> QED
      BY <1>1, <2>1, <3>1, <3>2 DEF Precedes
  <2>4. ASSUME NEW y, Precedes(s, y, x) PROVE Precedes(s, y, Head(r))
    <3>1. PICK j \in 1 .. p - 1 : s[j] = y
      BY <1>4, <2>4
    <3>2. j < p + 1 /\ j \in 1 .. Len(s)
      BY <1>1, <3>1
    <3> QED
      BY <1>1, <2>1, <3>1, <3>2 DEF Precedes
  <2> QED
    BY <2>2, <2>3, <2>4
<1>8. ToSet(r) = {y \in S : Precedes(s, x, y)}
  BY <1>5, <1>6
<1> QED
  BY <1>2, <1>7, <1>8 DEF r

-----------------------------------------------------------------------------
(* Sequences.                                                              *)

\* a function from the first m numbers is a sequence of length m
LEMMA FunctionIsSeq ==
  ASSUME NEW S, NEW m \in Nat, NEW f \in [1 .. m -> S]
  PROVE  f \in Seq(S) /\ Len(f) = m
<1>1. f \in Seq(S)
  BY SeqDef
<1>2. DOMAIN f = 1 .. Len(f) /\ Len(f) \in Nat /\ DOMAIN f = 1 .. m
  BY <1>1, LenProperties
<1> QED
  BY <1>1, <1>2

\* a sequence without repetitions is no longer than its set is large
LEMMA InjectiveLen ==
  ASSUME NEW S, IsFiniteSet(S), NEW s \in Seq(S), Injective(s)
  PROVE  Cardinality(S) \in Nat /\ Len(s) <= Cardinality(S)
<1>1. Len(s) \in Nat /\ s \in [1 .. Len(s) -> S] /\ DOMAIN s = 1 .. Len(s)
  OBVIOUS
<1>2. Cardinality(S) \in Nat
  BY FS_CardinalityType
<1> SUFFICES ASSUME Cardinality(S) < Len(s) PROVE FALSE
  BY <1>1, <1>2
<1>3. IsFiniteSet(1 .. Len(s)) /\ Cardinality(1 .. Len(s)) = Len(s)
  <2>1. PICK n \in Nat : n = Len(s)
    BY <1>1
  <2>2. IsFiniteSet(1 .. n) /\ Cardinality(1 .. n) = IF 1 > n THEN 0 ELSE n - 1 + 1
    BY FS_Interval
  <2>3. IsFiniteSet(1 .. n) /\ Cardinality(1 .. n) = n
    BY <2>2
  <2> QED
    BY <2>1, <2>3
<1>4. \E i, j \in 1 .. Len(s) : i # j /\ s[i] = s[j]
  BY <1>1, <1>2, <1>3, FS_PigeonHole
<1> QED
  BY <1>1, <1>4 DEF Injective

LEMMA SingleSeq ==
  ASSUME NEW S, NEW p \in Seq(S), Len(p) = 1
  PROVE  p = <<p[1]>>
<1> DEFINE q == <<p[1]>>
<1>1. p[1] \in S
  OBVIOUS
<1>2. q \in Seq(S) /\ Len(q) = 1 /\ \A i \in 1 .. 1 : q[i] = p[i]
  BY <1>1
<1> HIDE DEF q
<1>3. p = q
  BY <1>2, SeqEqual
<1> QED
  BY <1>3 DEF q

\* the first c elements of a sequence, and one more
LEMMA PrefixProperties ==
  ASSUME NEW S, NEW s \in Seq(S), NEW c \in Nat, c <= Len(s)
  PROVE  /\ SubSeq(s, 1, c) \in Seq(S) /\ Len(SubSeq(s, 1, c)) = c
         /\ \A i \in 1 .. c : SubSeq(s, 1, c)[i] = s[i]
         /\ c < Len(s) => Append(SubSeq(s, 1, c), s[c + 1]) = SubSeq(s, 1, c + 1)
<1> DEFINE u == SubSeq(s, 1, c)
           w == SubSeq(s, 1, c + 1)
           v == Append(u, s[c + 1])
<1>1. Len(s) \in Nat /\ \A i \in 1 .. Len(s) : s[i] \in S
  OBVIOUS
<1>2. u \in Seq(S) /\ Len(u) = c /\ \A i \in 1 .. c : u[i] = s[i]
  BY <1>1
<1>3. ASSUME c < Len(s) PROVE v = w
  <2>1. c + 1 \in 1 .. Len(s) /\ s[c + 1] \in S
    BY <1>1, <1>3
  <2>2. w \in Seq(S) /\ Len(w) = c + 1 /\ \A i \in 1 .. c + 1 : w[i] = s[i]
    BY <1>1, <2>1
  <2> HIDE DEF u
  <2>3. /\ v \in Seq(S) /\ Len(v) = c + 1 /\ v[c + 1] = s[c + 1]
        /\ \A i \in 1 .. c : v[i] = u[i]
    BY <1>2, <2>1
  <2> HIDE DEF v, w
  <2>4. \A i \in 1 .. c + 1 : i \in 1 .. c \/ i = c + 1
    OBVIOUS
  <2>5. \A i \in 1 .. c + 1 : v[i] = w[i]
    BY <1>2, <2>2, <2>3, <2>4
  <2> QED
    BY <2>2, <2>3, <2>5, SeqEqual
<1> QED
  BY <1>2, <1>3

LEMMA InsertAtProperties ==
  ASSUME NEW S, NEW s \in Seq(S), NEW n \in S, NEW i \in 1 .. Len(s) + 1
  PROVE  /\ InsertAt(s, i, n) \in Seq(S) /\ Len(InsertAt(s, i, n)) = Len(s) + 1
         /\ \A j \in 1 .. Len(s) + 1 :
              InsertAt(s, i, n)[j] = IF j < i THEN s[j] ELSE IF j = i THEN n ELSE s[j - 1]
<1> DEFINE N == Len(s)
           u == SubSeq(s, 1, i - 1)
           v == SubSeq(s, i, N)
           w == u \o <<n>>
           t == w \o v
<1>1. N \in Nat /\ i \in Nat /\ 1 <= i /\ i <= N + 1 /\ \A j \in 1 .. N : s[j] \in S
  OBVIOUS
<1>2. /\ u \in Seq(S) /\ Len(u) = i - 1
      /\ \A j \in 1 .. i - 1 : u[j] = s[j]
  <2>1. \A j \in 1 .. i - 1 : s[j] \in S
    BY <1>1
  <2>2. /\ u \in Seq(S)
        /\ Len(u) = IF 1 <= i - 1 THEN (i - 1) - 1 + 1 ELSE 0
        /\ \A j \in 1 .. (i - 1) - 1 + 1 : u[j] = s[1 + j - 1]
    BY <1>1, <2>1, SubSeqProperties
  <2> QED
    BY <1>1, <2>2
<1>3. /\ v \in Seq(S) /\ Len(v) = (N - i) + 1
      /\ \A j \in 1 .. (N - i) + 1 : v[j] = s[(i + j) - 1]
  <2>1. \A j \in i .. N : s[j] \in S
    BY <1>1
  <2>2. /\ v \in Seq(S)
        /\ Len(v) = IF i <= N THEN N - i + 1 ELSE 0
        /\ \A j \in 1 .. N - i + 1 : v[j] = s[i + j - 1]
    BY <1>1, <2>1, SubSeqProperties
  <2> QED
    BY <1>1, <2>2
<1> HIDE DEF u, v
<1>4. /\ w \in Seq(S) /\ Len(w) = i
      /\ \A j \in 1 .. i - 1 : w[j] = s[j]
      /\ w[i] = n
  <2>1. w \in Seq(S) /\ Len(w) = (i - 1) + 1
    BY <1>2
  <2>2. \A j \in 1 .. i : w[j] = IF j <= i - 1 THEN u[j] ELSE n
    BY <1>1, <1>2
  <2> QED
    BY <1>1, <1>2, <2>1, <2>2
<1> HIDE DEF w
<1>5. /\ t \in Seq(S) /\ Len(t) = i + ((N - i) + 1)
      /\ \A j \in 1 .. i + ((N - i) + 1) : t[j] = IF j <= i THEN w[j] ELSE v[j - i]
  BY <1>3, <1>4, ConcatProperties
<1>6. InsertAt(s, i, n) = t
  BY DEF InsertAt, u, v, w
<1> HIDE DEF t
<1>7. i + ((N - i) + 1) = N + 1
  BY <1>1
<1>8. ASSUME NEW j \in 1 .. N + 1
      PROVE  t[j] = IF j < i THEN s[j] ELSE IF j = i THEN n ELSE s[j - 1]
  <2>1. CASE j < i
    BY <1>1, <1>4, <1>5, <1>7, <2>1
  <2>2. CASE j = i
    BY <1>1, <1>4, <1>5, <1>7, <2>2
  <2>3. CASE j > i
    <3>1. j - i \in 1 .. (N - i) + 1 /\ (i + (j - i)) - 1 = j - 1 /\ ~(j <= i)
      BY <1>1, <2>3
    <3>2. t[j] = v[j - i] /\ v[j - i] = s[(i + (j - i)) - 1]
      BY <1>3, <1>5, <1>7, <3>1
    <3> QED
      BY <1>1, <2>3, <3>1, <3>2
  <2> QED
    BY <1>1, <2>1, <2>2, <2>3
<1> QED
  BY <1>5, <1>6, <1>7, <1>8

-----------------------------------------------------------------------------
(* Recursion and induction over the naturals, for sets and functions.      *)

LEMMA Induction ==
  ASSUME NEW P \in SUBSET Nat, 0 \in P, \A n \in P : n + 1 \in P
  PROVE  P = Nat
<1> DEFINE Missing == Nat \ P
<1>1. SUFFICES ASSUME Missing # {} PROVE FALSE
  OBVIOUS
<1>2. Missing \subseteq Nat
  OBVIOUS
<1> HIDE DEF Missing
<1>3. PICK n \in Missing : \A k \in Missing : n <= k
  BY <1>1, <1>2, NatMin
<1>4. n \in Nat /\ n \notin P /\ n # 0
  BY <1>3 DEF Missing
<1>5. n - 1 \in Nat /\ ~(n <= n - 1) /\ (n - 1) + 1 = n
  BY <1>4
<1>6. n - 1 \in P
  BY <1>3, <1>5 DEF Missing
<1> QED
  BY <1>4, <1>5, <1>6

(* F is a step on the set S, and the states a loop goes through that starts *)
(* with a and takes that step: g[k] is its state after k turns.             *)
StepOn(S, F) == F \in [S -> S]

LoopStates(a, F, g) == g = [k \in Nat |-> IF k = 0 THEN a ELSE F[g[k - 1]]]

LoopDefined(S, a, F) == \E g \in [Nat -> S] : LoopStates(a, F, g)

(* What a loop computes exists, whatever the step: a function defined by   *)
(* recursion over the naturals satisfies its definition.                   *)
LEMMA Loops ==
  \A S, F : StepOn(S, F) => \A a \in S : LoopDefined(S, a, F)
<1> SUFFICES ASSUME NEW S, NEW F \in [S -> S], NEW a \in S
             PROVE  \E g \in [Nat -> S] : LoopStates(a, F, g)
  BY DEF StepOn, LoopDefined
<1> DEFINE D(g, n) == /\ g \in [0 .. n -> S]
                      /\ g[0] = a
                      /\ \A i \in 0 .. n - 1 : g[i + 1] = F[g[i]]
           Some == {n \in Nat : \E g : D(g, n)}
<1>1. Some = Nat
  <2>1. 0 \in Some
    <3>1. D([i \in 0 .. 0 |-> a], 0)
      OBVIOUS
    <3> QED
      BY <3>1
  <2>2. ASSUME NEW n \in Some PROVE n + 1 \in Some
    <3>1. n \in Nat
      OBVIOUS
    <3>2. PICK g : D(g, n)
      OBVIOUS
    <3> DEFINE h == [i \in 0 .. n + 1 |-> IF i = n + 1 THEN F[g[n]] ELSE g[i]]
    <3>3. g[n] \in S /\ F[g[n]] \in S
      BY <3>1, <3>2
    <3>4. h \in [0 .. n + 1 -> S] /\ h[0] = a
      BY <3>1, <3>2, <3>3
    <3>5. ASSUME NEW i \in 0 .. n PROVE h[i + 1] = F[h[i]]
      <4>1. CASE i = n
        BY <3>1, <4>1
      <4>2. CASE i # n
        <5>1. i \in 0 .. n - 1 /\ i + 1 \in 0 .. n + 1 /\ i + 1 # n + 1 /\ i # n + 1
              /\ i \in 0 .. n + 1
          BY <3>1, <4>2
        <5>2. h[i + 1] = g[i + 1] /\ h[i] = g[i]
          BY <5>1
        <5> QED
          BY <3>2, <5>1, <5>2
      <4> QED
        BY <4>1, <4>2
    <3>6. 0 .. (n + 1) - 1 = 0 .. n
      BY <3>1
    <3>7. D(h, n + 1)
      <4> HIDE DEF h
      <4> QED
        BY <3>4, <3>5, <3>6
    <3> HIDE DEF h, D
    <3>8. \E gg : D(gg, n + 1)
      BY <3>7
    <3> QED
      BY <3>1, <3>8
  <2>3. Some \subseteq Nat
    OBVIOUS
  <2> HIDE DEF Some
  <2> QED
    BY <2>1, <2>2, <2>3, Induction
<1>2. ASSUME NEW n \in Nat, NEW m \in Nat, NEW g, NEW h, D(g, n), D(h, m)
      PROVE  \A i \in 0 .. n : i <= m => g[i] = h[i]
  <2> DEFINE Bad == {i \in Nat : i <= n /\ i <= m /\ g[i] # h[i]}
  <2>1. SUFFICES ASSUME Bad # {} PROVE FALSE
    OBVIOUS
  <2>2. PICK i \in Bad : \A k \in Bad : i <= k
    <3>1. Bad \subseteq Nat
      OBVIOUS
    <3> HIDE DEF Bad
    <3> QED
      BY <2>1, <3>1, NatMin
  <2>3. i # 0
    BY <1>2
  <2>4. i - 1 \in Nat /\ i - 1 \notin Bad
    <3>1. i \in Nat
      OBVIOUS
    <3> HIDE DEF Bad
    <3> QED
      BY <2>2, <2>3, <3>1
  <2>5. g[i - 1] = h[i - 1]
    BY <2>4
  <2>6. g[(i - 1) + 1] = F[g[i - 1]] /\ h[(i - 1) + 1] = F[h[i - 1]]
    <3>1. i - 1 \in 0 .. n - 1 /\ i - 1 \in 0 .. m - 1
      BY <2>4
    <3> QED
      BY <1>2, <3>1
  <2>7. (i - 1) + 1 = i
    OBVIOUS
  <2> QED
    BY <2>5, <2>6, <2>7
<1> DEFINE C(n) == CHOOSE g : D(g, n)
           G == [n \in Nat |-> C(n)[n]]
<1>3. \A n \in Nat : D(C(n), n)
  BY <1>1
<1> HIDE DEF C, Some
<1>4. \A n \in Nat : C(n) \in [0 .. n -> S] /\ n \in 0 .. n
  BY <1>3
<1>5. G \in [Nat -> S]
  BY <1>4
<1>6. G[0] = a
  BY <1>3
<1>7. ASSUME NEW n \in Nat PROVE G[n + 1] = F[G[n]]
  <2>1. n + 1 \in Nat /\ n \in 0 .. (n + 1) - 1 /\ n \in 0 .. n /\ n <= n + 1
    OBVIOUS
  <2>2. C(n + 1)[n + 1] = F[C(n + 1)[n]]
    BY <1>3, <2>1
  <2>3. C(n)[n] = C(n + 1)[n]
    <3>1. D(C(n), n) /\ D(C(n + 1), n + 1)
      BY <1>3, <2>1
    <3> HIDE DEF D
    <3> QED
      BY <1>2, <2>1, <3>1
  <2> QED
    BY <2>1, <2>2, <2>3
<1>8. G = [k \in Nat |-> IF k = 0 THEN a ELSE F[G[k - 1]]]
  <2> HIDE DEF G
  <2>1. ASSUME NEW k \in Nat PROVE G[k] = IF k = 0 THEN a ELSE F[G[k - 1]]
    <3>1. CASE k # 0
      <4>1. k - 1 \in Nat /\ (k - 1) + 1 = k
        BY <3>1
      <4> QED
        BY <1>7, <3>1, <4>1
    <3> QED
      BY <1>6, <3>1
  <2> QED
    BY <1>5, <2>1
<1> QED
  BY <1>5, <1>8 DEF LoopStates

(* A loop ends after K turns if K are enough for the state it starts in: a *)
(* turn leaves it a state for which one turn less is enough.               *)
LEMMA LoopEnds ==
  ASSUME NEW S, NEW F, StepOn(S, F), NEW End, \A t \in S : t \in End => F[t] = t,
         NEW Enough \in [S -> SUBSET Nat],
         \A t \in S : t \notin End => \A b \in Enough[t] : b - 1 \in Enough[F[t]],
         NEW a \in S, NEW K \in Enough[a], NEW g \in [Nat -> S], LoopStates(a, F, g)
  PROVE  g[K] \in End
<1>1. K \in Nat /\ F \in [S -> S]
  BY DEF StepOn
<1>2. g[0] = a /\ \A k \in Nat : g[k + 1] = F[g[k]]
  <2>1. \A k \in Nat : k + 1 \in Nat /\ k + 1 # 0 /\ (k + 1) - 1 = k
    OBVIOUS
  <2> QED
    BY <2>1 DEF LoopStates
<1> DEFINE P == {k \in Nat : g[k] \in End \/ K - k \in Enough[g[k]]}
<1>3. 0 \in P
  BY <1>1, <1>2
<1>4. ASSUME NEW k \in P PROVE k + 1 \in P
  <2>1. k \in Nat /\ k + 1 \in Nat /\ g[k] \in S /\ g[k + 1] = F[g[k]]
    BY <1>2
  <2>2. CASE g[k] \in End
    BY <2>1, <2>2
  <2>3. CASE g[k] \notin End
    <3>1. K - k \in Enough[g[k]]
      BY <2>3
    <3>2. (K - k) - 1 \in Enough[F[g[k]]]
      BY <2>1, <2>3, <3>1
    <3>3. (K - k) - 1 = K - (k + 1)
      BY <1>1, <2>1
    <3> QED
      BY <2>1, <3>2, <3>3
  <2> QED
    BY <2>2, <2>3
<1>5. P = Nat
  <2>1. P \in SUBSET Nat
    OBVIOUS
  <2> HIDE DEF P
  <2> QED
    BY <1>3, <1>4, <2>1, Induction
<1>6. K \in P /\ K - K = 0
  BY <1>1, <1>5
<1>7. CASE g[K] \notin End
  <2>1. 0 \in Enough[g[K]] /\ g[K] \in S
    BY <1>1, <1>6, <1>7
  <2>2. 0 - 1 \in Enough[F[g[K]]]
    BY <1>7, <2>1
  <2>3. F[g[K]] \in S
    BY <1>1, <2>1
  <2>4. 0 - 1 \in Nat
    BY <2>2, <2>3
  <2> QED
    BY <2>4
<1> QED
  BY <1>7

\* f begins with a and takes the step as long as it is in S
Follows(f, S, a, F) == f[0] = a /\ \A k \in Nat : f[k] \in S => f[k + 1] = F[f[k]]

(* Whatever is defined by the same step is that loop.                      *)
LEMMA LoopUnique ==
  ASSUME NEW S, NEW F, NEW a, NEW g \in [Nat -> S], LoopStates(a, F, g),
         NEW f, Follows(f, S, a, F)
  PROVE  \A k \in Nat : f[k] = g[k]
<1> DEFINE P == {k \in Nat : f[k] = g[k]}
<1>1. g[0] = a /\ \A k \in Nat : g[k + 1] = F[g[k]]
  <2>1. \A k \in Nat : k + 1 \in Nat /\ k + 1 # 0 /\ (k + 1) - 1 = k
    OBVIOUS
  <2> QED
    BY <2>1 DEF LoopStates
<1>2. 0 \in P
  BY <1>1 DEF Follows
<1>3. \A k \in P : k + 1 \in P
  BY <1>1 DEF Follows
<1>4. P \in SUBSET Nat
  OBVIOUS
<1> HIDE DEF P
<1>5. P = Nat
  BY <1>2, <1>3, <1>4, Induction
<1> QED
  BY <1>5 DEF P

(* Whatever is defined by such a step ends, after turns that are enough.   *)
LEMMA LoopReaches ==
  ASSUME NEW S, NEW F, StepOn(S, F), NEW End, \A t \in S : t \in End => F[t] = t,
         NEW Enough \in [S -> SUBSET Nat],
         \A t \in S : t \notin End => \A b \in Enough[t] : b - 1 \in Enough[F[t]],
         NEW a \in S, NEW K \in Enough[a], NEW f, Follows(f, S, a, F)
  PROVE  f[K] \in S /\ f[K] \in End
<1>1. PICK g \in [Nat -> S] : LoopStates(a, F, g)
  BY Loops DEF LoopDefined
<1>2. K \in Nat
  OBVIOUS
<1>3. f[K] = g[K]
  <2>1. Follows(f, S, a, F)
    OBVIOUS
  <2>2. \A k \in Nat : f[k] = g[k]
    BY ONLY <1>1, <2>1, LoopUnique
  <2> QED
    BY <1>2, <2>2
<1>4. g[K] \in End
  BY <1>1, LoopEnds
<1> QED
  BY <1>1, <1>2, <1>3, <1>4
=============================================================================
