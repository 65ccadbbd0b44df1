----------------------------- MODULE HeapProofs -----------------------------
(* Proofs about the block allocator, for every set of blocks and every     *)
(* block size.                                                             *)
EXTENDS Heap, ListProofs, FiniteSetTheorems, SequenceTheorems, TLAPS

HeapOK(h) == HeapType(h) /\ BlockInv(h)

LEMMA BlockConsSet ==
  ASSUME NEW list \in Seq(Block), NEW b \in Block, b \notin ToSet(list),
         \A i, j \in DOMAIN list : list[i] = list[j] => i = j
  PROVE  LET L == <<b>> \o list
         IN  /\ L \in Seq(Block)
             /\ L[1] = b
             /\ ToSet(L) = ToSet(list) \cup {b}
             /\ \A i, j \in DOMAIN L : L[i] = L[j] => i = j
             /\ \A i \in DOMAIN L : i # 1 => i - 1 \in DOMAIN list /\ L[i] = list[i - 1]
  BY ConsSet, SMT

-----------------------------------------------------------------------------
(* Rounding a block up to whole pages never loses elements.                *)

LEMMA DivBounds ==
  ASSUME NEW a \in Nat, NEW d \in Nat \ {0}
  PROVE  /\ a \div d \in Nat
         /\ d * (a \div d) <= a
         /\ a < d * (a \div d) + d
  OBVIOUS

LEMMA DivLower ==
  ASSUME NEW a \in Nat, NEW n \in Nat, NEW d \in Nat \ {0}, d * n <= a
  PROVE  a \div d >= n
<1> DEFINE q == a \div d
<1>1. q \in Nat /\ a < d * q + d
  BY DivBounds
<1> HIDE DEF q
<1> SUFFICES ASSUME q < n PROVE FALSE
  BY <1>1 DEF q
<1>2. n \in Nat /\ n - (q + 1) \in Nat
  BY <1>1
<1>3. d * (n - (q + 1)) >= 0
  BY <1>2
<1>4. d * (n - (q + 1)) = d * n - (d * q + d)
  BY <1>1
<1> QED
  BY <1>1, <1>3, <1>4

LEMMA HeapElemsAtLeast2 ==
  ASSUME NEW n \in Nat, NEW size \in Nat \ {0}, NEW custom \in BOOLEAN
  PROVE  HeapElems(n, size, custom) \in Nat /\ HeapElems(n, size, custom) >= 2
<1> DEFINE m == IF n < 2 THEN 2 ELSE n
           s == size + ElemHeader
           need == s * m
           pages == (BlockHeader + need + PageSize - 1) \div PageSize
           room == pages * PageSize - BlockHeader
<1>1. m \in Nat /\ m >= 2 /\ s \in Nat \ {0} /\ need \in Nat
  BY HeapAssumption
<1> HIDE DEF m, s
<1>2. pages \in Nat /\ BlockHeader + need + PageSize - 1 < PageSize * pages + PageSize
  <2>1. BlockHeader + need + PageSize - 1 \in Nat
    BY <1>1, HeapAssumption
  <2> HIDE DEF need
  <2> QED
    BY <2>1, DivBounds, HeapAssumption
<1> HIDE DEF pages, need
<1>3. room \in Nat /\ need <= room
  <2>1. PageSize * pages \in Nat /\ pages * PageSize = PageSize * pages
    BY <1>2, HeapAssumption
  <2> QED
    BY <2>1, <1>1, <1>2, HeapAssumption
<1> HIDE DEF room
<1>4. room \div s \in Nat /\ room \div s >= m
  BY <1>1, <1>3, DivBounds, DivLower DEF need
<1>5. PageElems(m, s) = room \div s
  BY DEF PageElems, room, pages, need
<1> QED
  BY <1>1, <1>4, <1>5 DEF HeapElems, m, s

-----------------------------------------------------------------------------
(* Counting elements.                                                      *)

LEMMA FiniteElements ==
  ASSUME NEW h, HeapType(h)
  PROVE  /\ IsFiniteSet(Elems(h))
         /\ Cardinality(Elems(h)) = h.elems
         /\ IsFiniteSet(FreeElements(h))
         /\ \A S \in SUBSET Elems(h) : IsFiniteSet(S)
<1>1. h.elems \in Nat /\ h.mapped \in SUBSET Block
  BY DEF HeapType
<1>2. IsFiniteSet(Elems(h)) /\ Cardinality(Elems(h)) = h.elems
  BY <1>1, FS_Interval DEF Elems, HeapType
<1>3. IsFiniteSet(h.mapped)
  BY <1>1, FS_Subset, HeapAssumption
<1>4. IsFiniteSet(h.mapped \X Elems(h))
  BY <1>2, <1>3, FS_Product
<1>5. FreeElements(h) \in SUBSET (h.mapped \X Elems(h))
  BY DEF FreeElements
<1> QED
  BY <1>2, <1>4, <1>5, FS_Subset

LEMMA BlockCardinality ==
  ASSUME NEW b, NEW n \in Nat
  PROVE  IsFiniteSet({b} \X (1 .. n)) /\ Cardinality({b} \X (1 .. n)) = n
<1>1. IsFiniteSet({b}) /\ Cardinality({b}) = 1
  BY FS_Singleton
<1>2. IsFiniteSet(1 .. n) /\ Cardinality(1 .. n) = n
  BY FS_Interval
<1> DEFINE P == {b} \X (1 .. n)
<1>3. IsFiniteSet(P) /\ Cardinality(P) = Cardinality({b}) * Cardinality(1 .. n)
  BY <1>1, <1>2, FS_Product
<1> HIDE DEF P
<1>4. IsFiniteSet(P) /\ Cardinality(P) = n
  BY <1>1, <1>2, <1>3
<1> QED
  BY <1>4 DEF P

-----------------------------------------------------------------------------
(* Mapping a block.                                                        *)

\* the record h with every field but `created' and `elems' replaced
Update(h, m, ff, na, bl, eb, fe, us) ==
  [h EXCEPT !.mapped = m, !.first_free = ff, !.num_allocated = na, !.blocks = bl,
            !.empty_block = eb, !.free_elems = fe, !.used = us]

LEMMA ExpandOK ==
  ASSUME NEW h, HeapOK(h), NEW b \in Block \ h.mapped, h.empty_block = Null
  PROVE  HeapOK(mowgli_heap_expand(h, b))
<1> DEFINE g == mowgli_heap_expand(h, b)
           fresh == [i \in 1 .. h.elems |-> h.elems + 1 - i]
<1>0. /\ HeapType(h) /\ BlocksPartitioned(h) /\ FreeListsExact(h) /\ UsedMapped(h)
      /\ EmptyOffList(h) /\ PartialFirst(h) /\ FreeElemsExact(h)
  BY DEF HeapOK, BlockInv
<1>1. /\ h.elems \in Nat /\ h.elems >= 2 /\ h.free_elems \in Nat
      /\ h.mapped \in SUBSET Block /\ h.blocks \in Seq(Block)
  BY <1>0 DEF HeapType
<1>2. /\ fresh \in Seq(Nat) /\ Len(fresh) = h.elems /\ DOMAIN fresh = 1 .. h.elems
      /\ \A i, j \in 1 .. h.elems : fresh[i] = fresh[j] => i = j
      /\ ToSet(fresh) = 1 .. h.elems
  <2>1. fresh \in [1 .. h.elems -> Nat]
    BY <1>1
  <2>2. fresh \in Seq(Nat) /\ Len(fresh) = h.elems
    BY <1>1, <2>1, SMTT(40)
  <2>3. \A i \in 1 .. h.elems : /\ fresh[i] = h.elems + 1 - i
                                /\ fresh[i] \in 1 .. h.elems
                                /\ h.elems + 1 - i \in 1 .. h.elems
                                /\ fresh[h.elems + 1 - i] = i
    BY <1>1
  <2>4. DOMAIN fresh = 1 .. h.elems
    OBVIOUS
  <2> HIDE DEF fresh
  <2>5. ToSet(fresh) = 1 .. h.elems
    BY <2>3, <2>4 DEF ToSet
  <2>6. \A i, j \in 1 .. h.elems : fresh[i] = fresh[j] => i = j
    BY <1>1, <2>3
  <2> QED
    BY <2>2, <2>4, <2>5, <2>6
<1> DEFINE ff == [h.first_free EXCEPT ![b] = fresh]
           na == [h.num_allocated EXCEPT ![b] = 0]
<1>3. ff \in [Block -> Seq(Nat)] /\ na \in [Block -> Nat] /\ h.used \in SUBSET Element
  BY <1>0, <1>2 DEF HeapType
<1>4. g = Update(h, h.mapped \cup {b}, ff, na, h.blocks, b, h.free_elems + h.elems, h.used)
  BY <1>0 DEF HeapType, mowgli_heap_expand, Update
<1> HIDE DEF fresh, g
<1>5. /\ HeapType(g) /\ g.elems = h.elems /\ g.mapped = h.mapped \cup {b}
      /\ g.first_free[b] = fresh
      /\ \A c \in Block : c # b => g.first_free[c] = h.first_free[c]
      /\ g.num_allocated[b] = 0
      /\ \A c \in Block : c # b => g.num_allocated[c] = h.num_allocated[c]
      /\ g.blocks = h.blocks /\ g.empty_block = b /\ g.used = h.used
      /\ g.free_elems = h.free_elems + h.elems
  <2> HIDE DEF ff, na
  <2>1. /\ HeapType(g) /\ g.elems = h.elems /\ g.mapped = h.mapped \cup {b}
        /\ g.first_free = ff /\ g.num_allocated = na
        /\ g.blocks = h.blocks /\ g.empty_block = b /\ g.used = h.used
        /\ g.free_elems = h.free_elems + h.elems
    <3> DEFINE m == h.mapped \cup {b}
               fe == h.free_elems + h.elems
    <3>1. /\ m \in SUBSET Block /\ h.blocks \in Seq(Block)
          /\ b \in Block \cup {Null} /\ fe \in Nat
      BY <1>1
    <3>2. g = Update(h, m, ff, na, h.blocks, b, fe, h.used)
      BY <1>4
    <3> HIDE DEF m, fe
    <3>3. /\ HeapType(g) /\ g.elems = h.elems /\ g.mapped = m
          /\ g.first_free = ff /\ g.num_allocated = na
          /\ g.blocks = h.blocks /\ g.empty_block = b /\ g.used = h.used
          /\ g.free_elems = fe
      BY <1>0, <1>3, <3>1, <3>2 DEF HeapType, Update
    <3> QED
      BY <3>3 DEF m, fe
  <2> QED
    BY <1>0, <2>1 DEF HeapType, ff, na
<1> HIDE DEF ff, na
<1>6. Elems(g) = Elems(h) /\ \A c : Used(g, c) = Used(h, c)
  BY <1>5 DEF Elems, Used
<1>7. Used(g, b) = {}
  BY <1>0, <1>5 DEF UsedMapped, Used
<1>8. BlocksPartitioned(g)
  <2>1. ToSet(h.blocks) = h.mapped
    BY <1>0 DEF BlocksPartitioned
  <2> QED
    BY <1>0, <1>5, <2>1, HeapAssumption DEF BlocksPartitioned
<1>9. FreeListsExact(g)
  <2>1. SUFFICES ASSUME NEW c \in g.mapped
                 PROVE  /\ ToSet(g.first_free[c]) = Elems(g) \ Used(g, c)
                        /\ Len(g.first_free[c]) = Cardinality(Elems(g) \ Used(g, c))
                        /\ \A i, j \in DOMAIN g.first_free[c] :
                             g.first_free[c][i] = g.first_free[c][j] => i = j
                        /\ g.num_allocated[c] + Len(g.first_free[c]) = g.elems
    BY DEF FreeListsExact
  <2>2. CASE c = b
    <3>1. Elems(g) \ Used(g, c) = Elems(h)
      BY <1>6, <1>7, <2>2
    <3>2. Cardinality(Elems(h)) = h.elems
      BY <1>0, FiniteElements
    <3>3. ToSet(fresh) = Elems(h)
      BY <1>2 DEF Elems
    <3>4. g.num_allocated[c] + Len(g.first_free[c]) = g.elems
      BY <1>1, <1>2, <1>5, <2>2
    <3>5. g.first_free[c] = fresh
      BY <1>5, <2>2
    <3>6. Len(g.first_free[c]) = Cardinality(Elems(g) \ Used(g, c))
      BY <1>2, <3>1, <3>2, <3>5
    <3>7. ToSet(g.first_free[c]) = Elems(g) \ Used(g, c)
      BY <3>1, <3>3, <3>5
    <3>8. \A i, j \in DOMAIN g.first_free[c] :
            g.first_free[c][i] = g.first_free[c][j] => i = j
      BY <1>2, <3>5
    <3> QED
      BY <3>4, <3>6, <3>7, <3>8
  <2>3. CASE c # b
    <3>1. c \in h.mapped /\ c \in Block
      BY <1>1, <1>5, <2>3
    <3> QED
      BY <1>0, <1>5, <1>6, <2>3, <3>1, ZenonT(40) DEF FreeListsExact
  <2> QED
    BY <2>2, <2>3
<1>10. UsedMapped(g)
  BY <1>0, <1>5, <1>6 DEF UsedMapped
<1>11. \A c \in ToSet(h.blocks) : c # b /\ c \in Block
  BY <1>0, <1>1 DEF BlocksPartitioned
<1>12. EmptyOffList(g)
  BY <1>0, <1>5, <1>11 DEF EmptyOffList
<1>13. PartialFirst(g)
  <2>1. \A i \in DOMAIN h.blocks : g.first_free[h.blocks[i]] = h.first_free[h.blocks[i]]
    BY <1>5, <1>11 DEF ToSet
  <2> QED
    BY <1>0, <1>5, <2>1 DEF PartialFirst
<1>14. FreeElemsExact(g)
  <2> DEFINE F == FreeElements(h)
             N == {b} \X (1 .. h.elems)
  <2>1. FreeElements(g) = F \cup N
    BY <1>0, <1>5, <1>6, <1>7 DEF FreeElements, Elems, Used
  <2>2. F \cap N = {}
    BY DEF FreeElements
  <2>3. IsFiniteSet(F) /\ IsFiniteSet(N) /\ Cardinality(N) = h.elems
    BY <1>0, <1>1, FiniteElements, BlockCardinality
  <2> HIDE DEF F, N
  <2>4. Cardinality(F \cup N) = Cardinality(F) + Cardinality(N) - Cardinality(F \cap N)
    BY <2>3, FS_Union
  <2>5. Cardinality(F \cap N) = 0 /\ Cardinality(F) \in Nat
    BY <2>2, <2>3, FS_EmptySet, FS_CardinalityType
  <2> QED
    BY <1>0, <1>1, <1>5, <2>1, <2>3, <2>4, <2>5 DEF FreeElemsExact, F
<1> QED
  BY <1>5, <1>8, <1>9, <1>10, <1>12, <1>13, <1>14 DEF HeapOK, BlockInv, g

-----------------------------------------------------------------------------
(* Popping an element off the free list of block b, and pushing one back:  *)
(* what this does to every part of the invariant but the block list.       *)

Counts(h) == FreeListsExact(h) /\ UsedMapped(h) /\ FreeElemsExact(h)

Popped(h, g, b) ==
  /\ g.elems = h.elems /\ g.mapped = h.mapped
  /\ g.first_free = [h.first_free EXCEPT ![b] = Tail(h.first_free[b])]
  /\ g.num_allocated = [h.num_allocated EXCEPT ![b] = h.num_allocated[b] + 1]
  /\ g.used = h.used \cup {<<b, Head(h.first_free[b])>>}
  /\ g.free_elems = h.free_elems - 1

LEMMA TailSet ==
  ASSUME NEW s \in Seq(Nat), s # << >>,
         \A i, j \in DOMAIN s : s[i] = s[j] => i = j
  PROVE  /\ Tail(s) \in Seq(Nat) /\ Len(Tail(s)) = Len(s) - 1
         /\ Head(s) \in ToSet(s)
         /\ ToSet(Tail(s)) = ToSet(s) \ {Head(s)}
         /\ \A i, j \in DOMAIN Tail(s) : Tail(s)[i] = Tail(s)[j] => i = j
<1> DEFINE t == Tail(s)
<1>1. /\ t \in Seq(Nat) /\ Len(t) = Len(s) - 1 /\ Len(s) \in Nat \ {0}
      /\ \A i \in 1 .. Len(s) - 1 : t[i] = s[i + 1]
      /\ DOMAIN t = 1 .. Len(s) - 1 /\ DOMAIN s = 1 .. Len(s)
      /\ Head(s) = s[1]
  OBVIOUS
<1> HIDE DEF t
<1>2. Head(s) \in ToSet(s)
  BY <1>1 DEF ToSet
<1>3. ASSUME NEW x \in ToSet(t) PROVE x \in ToSet(s) /\ x # Head(s)
  <2>1. PICK i \in 1 .. Len(s) - 1 : x = t[i]
    BY <1>1 DEF ToSet
  <2>2. i + 1 \in DOMAIN s /\ 1 \in DOMAIN s /\ i + 1 # 1 /\ x = s[i + 1]
    BY <1>1, <2>1, SMTT(40)
  <2> QED
    BY <1>1, <2>2 DEF ToSet
<1>4. ASSUME NEW x \in ToSet(s) \ {Head(s)} PROVE x \in ToSet(t)
  <2>1. PICK i \in 1 .. Len(s) : x = s[i] /\ i # 1
    BY <1>1 DEF ToSet
  <2>2. i - 1 \in DOMAIN t /\ t[i - 1] = x
    BY <1>1, <2>1, SMTT(40)
  <2> QED
    BY <2>2 DEF ToSet
<1>5. ASSUME NEW i \in DOMAIN t, NEW j \in DOMAIN t, t[i] = t[j] PROVE i = j
  <2>0. i \in 1 .. Len(s) - 1 /\ j \in 1 .. Len(s) - 1
    BY <1>1
  <2>1. i + 1 \in DOMAIN s /\ j + 1 \in DOMAIN s /\ s[i + 1] = s[j + 1]
    <3>1. \A k \in 1 .. Len(s) - 1 : t[k] = s[k + 1]
      BY <1>1
    <3>2. i + 1 \in 1 .. Len(s) /\ j + 1 \in 1 .. Len(s)
      <4>1. Len(s) \in Nat
        BY <1>1
      <4> QED
        BY <2>0, <4>1
    <3> QED
      BY <1>1, <1>5, <2>0, <3>1, <3>2
  <2>2. i + 1 = j + 1
    BY <2>1
  <2> QED
    BY <2>0, <2>2
<1> QED
  BY <1>1, <1>2, <1>3, <1>4, <1>5 DEF t

LEMMA PopCounts ==
  ASSUME NEW h, HeapType(h), Counts(h), NEW g, NEW b \in h.mapped,
         h.first_free[b] # << >>, Popped(h, g, b)
  PROVE  Counts(g) /\ h.free_elems > 0
<1> DEFINE s == h.first_free[b]
           x == Head(s)
<1>1. /\ h.elems \in Nat /\ h.mapped \in SUBSET Block /\ b \in Block
      /\ h.first_free \in [Block -> Seq(Nat)] /\ s \in Seq(Nat)
      /\ h.num_allocated \in [Block -> Nat] /\ h.free_elems \in Nat
  BY DEF HeapType
<1>2. /\ ToSet(s) = Elems(h) \ Used(h, b) /\ Len(s) = Cardinality(Elems(h) \ Used(h, b))
      /\ \A i, j \in DOMAIN s : s[i] = s[j] => i = j
      /\ h.num_allocated[b] + Len(s) = h.elems
  BY DEF Counts, FreeListsExact
<1>3. /\ Tail(s) \in Seq(Nat) /\ Len(Tail(s)) = Len(s) - 1
      /\ x \in ToSet(s)
      /\ ToSet(Tail(s)) = ToSet(s) \ {x}
      /\ \A i, j \in DOMAIN Tail(s) : Tail(s)[i] = Tail(s)[j] => i = j
  BY <1>1, <1>2, TailSet
<1>4. x \in Elems(h) /\ <<b, x>> \notin h.used
  BY <1>2, <1>3 DEF Used
<1>5. /\ g.elems = h.elems /\ g.mapped = h.mapped /\ Elems(g) = Elems(h)
      /\ g.first_free[b] = Tail(s) /\ g.num_allocated[b] = h.num_allocated[b] + 1
      /\ \A c \in Block : c # b => /\ g.first_free[c] = h.first_free[c]
                                   /\ g.num_allocated[c] = h.num_allocated[c]
      /\ g.used = h.used \cup {<<b, x>>}
      /\ g.free_elems = h.free_elems - 1
  BY <1>1 DEF Popped, Elems
<1> HIDE DEF s, x
<1>6. /\ Elems(g) \ Used(g, b) = (Elems(h) \ Used(h, b)) \ {x}
      /\ \A c : c # b => Used(g, c) = Used(h, c)
  BY <1>4, <1>5 DEF Used
<1>7. FreeListsExact(g)
  <2>1. SUFFICES ASSUME NEW c \in g.mapped
                 PROVE  /\ ToSet(g.first_free[c]) = Elems(g) \ Used(g, c)
                        /\ Len(g.first_free[c]) = Cardinality(Elems(g) \ Used(g, c))
                        /\ \A i, j \in DOMAIN g.first_free[c] :
                             g.first_free[c][i] = g.first_free[c][j] => i = j
                        /\ g.num_allocated[c] + Len(g.first_free[c]) = g.elems
    BY DEF FreeListsExact
  <2>2. CASE c = b
    <3> DEFINE F == Elems(h) \ Used(h, b)
    <3>1. IsFiniteSet(F) /\ x \in F
      BY <1>2, <1>3, FiniteElements
    <3> HIDE DEF F
    <3>2. Cardinality(F \ {x}) = Cardinality(F) - 1
      BY <3>1, FS_RemoveElement
    <3>3. Len(g.first_free[b]) = Cardinality(Elems(g) \ Used(g, b))
      BY <1>2, <1>3, <1>5, <1>6, <3>2 DEF F
    <3>4. ToSet(g.first_free[b]) = Elems(g) \ Used(g, b)
      BY <1>2, <1>3, <1>5, <1>6
    <3>5. g.num_allocated[b] + Len(g.first_free[b]) = g.elems
      BY <1>1, <1>2, <1>3, <1>5
    <3>6. \A i, j \in DOMAIN g.first_free[b] :
            g.first_free[b][i] = g.first_free[b][j] => i = j
      BY <1>3, <1>5
    <3> QED
      BY <2>2, <3>3, <3>4, <3>5, <3>6
  <2>3. CASE c # b
    <3>1. c \in h.mapped /\ c \in Block
      BY <1>1, <1>5
    <3> QED
      BY <1>5, <1>6, <2>3, <3>1 DEF Counts, FreeListsExact
  <2> QED
    BY <2>2, <2>3
<1>8. UsedMapped(g)
  BY <1>4, <1>5 DEF Counts, UsedMapped
<1>9. FreeElemsExact(g) /\ h.free_elems > 0
  <2> DEFINE F == FreeElements(h)
             e == <<b, x>>
  <2>1. IsFiniteSet(F) /\ e \in F /\ FreeElements(g) = F \ {e}
    BY <1>4, <1>5, FiniteElements DEF FreeElements
  <2>2. h.free_elems = Cardinality(F)
    BY DEF Counts, FreeElemsExact
  <2> HIDE DEF F, e
  <2>3. Cardinality(F \ {e}) = Cardinality(F) - 1 /\ Cardinality(F) # 0
    BY <2>1, FS_RemoveElement, FS_EmptySet
  <2> QED
    BY <1>1, <1>5, <2>1, <2>2, <2>3 DEF FreeElemsExact
<1> QED
  BY <1>7, <1>8, <1>9 DEF Counts

(* The block mowgli_heap_alloc takes from exists and has a free element:   *)
(* the fact behind the comment "due to above check".                       *)

LEMMA AllocBlockOK ==
  ASSUME NEW h, HeapOK(h), h.free_elems # 0
  PROVE  LET b == AllocBlock(h)
         IN  /\ b \in h.mapped
             /\ h.first_free[b] # << >>
             /\ b = h.empty_block \/ (h.blocks # << >> /\ b = h.blocks[1])
<1>0. /\ HeapType(h) /\ BlocksPartitioned(h) /\ FreeListsExact(h) /\ UsedMapped(h)
      /\ EmptyOffList(h) /\ PartialFirst(h) /\ FreeElemsExact(h)
  BY DEF HeapOK, BlockInv
<1>1. h.mapped \in SUBSET Block /\ h.blocks \in Seq(Block)
  BY <1>0 DEF HeapType
<1>2. FreeElements(h) # {}
  BY <1>0, FS_EmptySet DEF FreeElemsExact
<1>3. PICK c \in h.mapped, i \in Elems(h) : <<c, i>> \notin h.used
  BY <1>2 DEF FreeElements
<1>4. i \in ToSet(h.first_free[c])
  BY <1>0, <1>3 DEF FreeListsExact, Used
<1>5. h.first_free[c] # << >>
  BY <1>4 DEF ToSet
<1>6. CASE h.blocks # << >> /\ h.first_free[Head(h.blocks)] # << >>
  <2>1. AllocBlock(h) = h.blocks[1] /\ h.blocks[1] \in ToSet(h.blocks)
    BY <1>1, <1>6 DEF AllocBlock, ToSet
  <2> QED
    BY <1>0, <1>1, <1>6, <2>1 DEF BlocksPartitioned
<1>7. CASE ~(h.blocks # << >> /\ h.first_free[Head(h.blocks)] # << >>)
  <2>1. AllocBlock(h) = h.empty_block
    BY <1>7 DEF AllocBlock
  <2>2. c \notin ToSet(h.blocks)
    <3>1. SUFFICES ASSUME NEW j \in DOMAIN h.blocks, h.blocks[j] = c PROVE FALSE
      BY DEF ToSet
    <3>2. h.first_free[h.blocks[1]] = << >> /\ 1 \in DOMAIN h.blocks /\ j >= 1
      BY <1>1, <1>7, <3>1
    <3> QED
      BY <1>0, <1>1, <1>5, <3>1, <3>2 DEF PartialFirst
  <2>3. c = h.empty_block
    BY <1>0, <1>3, <2>2 DEF BlocksPartitioned
  <2> QED
    BY <1>3, <1>5, <2>1, <2>3
<1> QED
  BY <1>6, <1>7

-----------------------------------------------------------------------------
(* Taking an element: block b is the empty block, or the head of the list. *)

LEMMA TakeFields ==
  ASSUME NEW h, HeapOK(h), NEW b \in h.mapped, h.first_free[b] # << >>,
         b \in ToSet(h.blocks) \/ b = h.empty_block
  PROVE  LET g == TakeFrom(h, b)
         IN  /\ HeapType(g) /\ Popped(h, g, b) /\ g.created = h.created
             /\ b = h.empty_block => g.empty_block = Null /\ g.blocks = <<b>> \o h.blocks
             /\ b # h.empty_block =>
                  /\ g.empty_block = h.empty_block
                  /\ g.blocks = IF Tail(h.first_free[b]) = << >>
                                THEN Append(Unlink(h.blocks, b), b) ELSE h.blocks
<1> DEFINE g == TakeFrom(h, b)
           ff == [h.first_free EXCEPT ![b] = Tail(h.first_free[b])]
           na == [h.num_allocated EXCEPT ![b] = h.num_allocated[b] + 1]
           us == h.used \cup {<<b, Head(h.first_free[b])>>}
           fe == h.free_elems - 1
           bl == IF b = h.empty_block THEN <<b>> \o h.blocks
                 ELSE IF Tail(h.first_free[b]) = << >>
                      THEN Append(Unlink(h.blocks, b), b) ELSE h.blocks
           eb == IF b = h.empty_block THEN Null ELSE h.empty_block
           h1 == Update(h, h.mapped, ff, na, h.blocks, h.empty_block, fe, us)
<1>0. /\ HeapType(h) /\ BlocksPartitioned(h) /\ FreeListsExact(h) /\ UsedMapped(h)
      /\ EmptyOffList(h) /\ PartialFirst(h) /\ FreeElemsExact(h)
  BY DEF HeapOK, BlockInv
<1>1. /\ h.mapped \in SUBSET Block /\ h.blocks \in Seq(Block) /\ b \in Block
      /\ h.first_free \in [Block -> Seq(Nat)] /\ h.num_allocated \in [Block -> Nat]
      /\ h.used \in SUBSET Element /\ h.empty_block \in Block \cup {Null}
      /\ h.free_elems \in Nat
  BY <1>0 DEF HeapType
<1>2. fe \in Nat
  <2>1. Head(h.first_free[b]) \in ToSet(h.first_free[b])
    BY <1>1 DEF ToSet
  <2>2. <<b, Head(h.first_free[b])>> \in FreeElements(h)
    BY <1>0, <2>1 DEF FreeListsExact, FreeElements, Used
  <2>3. h.free_elems # 0
    BY <1>0, <2>2, FiniteElements, FS_EmptySet DEF FreeElemsExact
  <2> QED
    BY <1>1, <2>3
<1>3. ff \in [Block -> Seq(Nat)] /\ na \in [Block -> Nat] /\ us \in SUBSET Element
  BY <1>1, SMTT(40) DEF Element
<1>4. bl \in Seq(Block) /\ eb \in Block \cup {Null}
  <2>1. CASE b = h.empty_block
    BY <1>1, <2>1
  <2>2. CASE b # h.empty_block
    <3>1. Unlink(h.blocks, b) \in Seq(Block)
      BY <1>0, <1>1, <2>2, UnlinkProperties DEF BlocksPartitioned
    <3> QED
      BY <1>1, <2>2, <3>1
  <2> QED
    BY <2>1, <2>2
<1>5. /\ na[b] = 1 <=> b = h.empty_block
      /\ ff[b] = Tail(h.first_free[b])
  <2>1. /\ na[b] = h.num_allocated[b] + 1 /\ ff[b] = Tail(h.first_free[b])
        /\ h.num_allocated[b] \in Nat
    BY <1>1
  <2>2. b # Null
    BY <1>1, HeapAssumption
  <2> QED
    BY <1>0, <2>1, <2>2 DEF EmptyOffList
<1>6. g = Update(h, h.mapped, ff, na, bl, eb, fe, us)
  <2>1. g = IF h1.num_allocated[b] = 1
            THEN [h1 EXCEPT !.empty_block = Null, !.blocks = <<b>> \o @]
            ELSE IF h1.first_free[b] = << >>
                 THEN [h1 EXCEPT !.blocks = Append(Unlink(@, b), b)]
                 ELSE h1
    <3>1. h1 = [h EXCEPT !.first_free[b] = Tail(@),
                         !.used = @ \cup {<<b, Head(h.first_free[b])>>},
                         !.free_elems = @ - 1,
                         !.num_allocated[b] = @ + 1]
      BY <1>0, <1>1 DEF Update, HeapType
    <3> HIDE DEF h1
    <3> QED
      BY <3>1 DEF TakeFrom
  <2>2. h1.num_allocated[b] = na[b] /\ h1.first_free[b] = ff[b]
    <3> HIDE DEF na, ff
    <3> QED
      BY <1>0 DEF Update, HeapType
  <2>3. CASE b = h.empty_block
    <3>1. g = [h1 EXCEPT !.empty_block = Null, !.blocks = <<b>> \o @]
      BY <1>5, <2>1, <2>2, <2>3
    <3>2. bl = <<b>> \o h.blocks /\ eb = Null
      BY <2>3
    <3> HIDE DEF ff, na, us, fe, bl, eb
    <3> QED
      BY <1>0, <3>1, <3>2 DEF Update, HeapType
  <2>4. CASE b # h.empty_block /\ Tail(h.first_free[b]) = << >>
    <3>1. g = [h1 EXCEPT !.blocks = Append(Unlink(@, b), b)]
      BY <1>5, <2>1, <2>2, <2>4
    <3>2. bl = Append(Unlink(h.blocks, b), b) /\ eb = h.empty_block
      BY <2>4
    <3> HIDE DEF ff, na, us, fe, bl, eb
    <3> QED
      BY <1>0, <3>1, <3>2 DEF Update, HeapType
  <2>5. CASE b # h.empty_block /\ Tail(h.first_free[b]) # << >>
    <3>1. g = h1
      BY <1>5, <2>1, <2>2, <2>5
    <3>2. bl = h.blocks /\ eb = h.empty_block
      BY <2>5
    <3> HIDE DEF ff, na, us, fe, bl, eb
    <3> QED
      BY <1>0, <3>1, <3>2 DEF Update, HeapType
  <2> QED
    BY <2>3, <2>4, <2>5
<1>7. /\ HeapType(g) /\ g.created = h.created /\ g.elems = h.elems
      /\ g.mapped = h.mapped /\ g.first_free = ff
      /\ g.num_allocated = na /\ g.blocks = bl /\ g.empty_block = eb
      /\ g.free_elems = fe /\ g.used = us
  <2> HIDE DEF ff, na, us, fe, bl, eb, g
  <2> QED
    BY <1>0, <1>2, <1>3, <1>4, <1>6 DEF HeapType, Update
<1> HIDE DEF g
<1>8. Popped(h, g, b)
  BY <1>7 DEF Popped
<1> QED
  BY <1>7, <1>8 DEF g

LEMMA TakeOK ==
  ASSUME NEW h, HeapOK(h), NEW b \in h.mapped, h.first_free[b] # << >>,
         b = h.empty_block \/ (h.blocks # << >> /\ b = h.blocks[1])
  PROVE  HeapOK(TakeFrom(h, b))
<1> DEFINE g == TakeFrom(h, b)
<1>0. /\ HeapType(h) /\ BlocksPartitioned(h) /\ FreeListsExact(h) /\ UsedMapped(h)
      /\ EmptyOffList(h) /\ PartialFirst(h) /\ FreeElemsExact(h)
  BY DEF HeapOK, BlockInv
<1>1. /\ h.mapped \in SUBSET Block /\ h.blocks \in Seq(Block) /\ b \in Block
      /\ h.first_free \in [Block -> Seq(Nat)] /\ h.num_allocated \in [Block -> Nat]
      /\ h.elems \in Nat /\ h.elems >= 2
  BY <1>0 DEF HeapType
<1>2. b # h.empty_block => /\ h.blocks # << >> /\ 1 \in DOMAIN h.blocks
                           /\ b = h.blocks[1] /\ b \in ToSet(h.blocks)
  BY <1>1, SMTT(40) DEF ToSet
<1>3. /\ HeapType(g) /\ Popped(h, g, b)
      /\ b = h.empty_block => g.empty_block = Null /\ g.blocks = <<b>> \o h.blocks
      /\ b # h.empty_block =>
           /\ g.empty_block = h.empty_block
           /\ g.blocks = IF Tail(h.first_free[b]) = << >>
                         THEN Append(Unlink(h.blocks, b), b) ELSE h.blocks
  BY <1>2, TakeFields
<1> HIDE DEF g
<1>4. Counts(g)
  BY <1>0, <1>3, PopCounts DEF Counts
<1>5. /\ g.mapped = h.mapped
      /\ g.first_free[b] = Tail(h.first_free[b])
      /\ g.num_allocated[b] = h.num_allocated[b] + 1
      /\ \A c \in Block : c # b => /\ g.first_free[c] = h.first_free[c]
                                   /\ g.num_allocated[c] = h.num_allocated[c]
  BY <1>1, <1>3 DEF Popped
<1>6. h.first_free[b] \in Seq(Nat) /\ h.num_allocated[b] \in Nat
  BY <1>1
<1>7. /\ \A c \in ToSet(h.blocks) : c \in Block
      /\ \A i, j \in DOMAIN h.blocks : h.blocks[i] = h.blocks[j] => i = j
  BY <1>0, <1>1 DEF BlocksPartitioned, ToSet
<1>8. \A c \in ToSet(h.blocks) : g.num_allocated[c] > 0
  <2>1. ASSUME NEW c \in ToSet(h.blocks) PROVE g.num_allocated[c] > 0
    <3>1. h.num_allocated[c] > 0 /\ h.num_allocated[c] \in Nat
      BY <1>0, <1>1, <1>7 DEF EmptyOffList
    <3>2. CASE c = b
      BY <1>5, <1>6, <3>2
    <3>3. CASE c # b
      BY <1>5, <1>7, <3>1, <3>3
    <3> QED
      BY <3>2, <3>3
  <2> QED
    BY <2>1
<1>9. b # h.empty_block /\ h.empty_block # Null => g.num_allocated[h.empty_block] = 0
  <2>1. h.empty_block \in Block \cup {Null}
    BY <1>0 DEF HeapType
  <2> QED
    BY <1>0, <1>5, <2>1 DEF EmptyOffList
<1>10. CASE b = h.empty_block
  <2>1. /\ g.empty_block = Null /\ g.blocks = <<b>> \o h.blocks
        /\ b \notin ToSet(h.blocks) /\ h.num_allocated[b] = 0
    BY <1>0, <1>1, <1>3, <1>10, HeapAssumption DEF BlocksPartitioned, EmptyOffList
  <2> DEFINE L == g.blocks
  <2>2. /\ L[1] = b /\ ToSet(L) = ToSet(h.blocks) \cup {b}
        /\ \A i, j \in DOMAIN L : L[i] = L[j] => i = j
        /\ \A i \in DOMAIN L : i # 1 => i - 1 \in DOMAIN h.blocks /\ L[i] = h.blocks[i - 1]
    <3> DEFINE s == h.blocks
    <3>1. s \in Seq(Block) /\ b \in Block /\ b \notin ToSet(s)
      BY <1>1, <2>1
    <3>2. \A i, j \in DOMAIN s : s[i] = s[j] => i = j
      BY <1>7
    <3>3. L = <<b>> \o s
      BY <2>1
    <3> HIDE DEF s, L
    <3>4. /\ L[1] = b /\ ToSet(L) = ToSet(s) \cup {b}
          /\ \A i, j \in DOMAIN L : L[i] = L[j] => i = j
          /\ \A i \in DOMAIN L : i # 1 => i - 1 \in DOMAIN s /\ L[i] = s[i - 1]
      BY <3>1, <3>2, <3>3, BlockConsSet
    <3> QED
      BY <3>4 DEF s
  <2>3. BlocksPartitioned(g)
    <3>1. h.mapped = ToSet(h.blocks) \cup {b}
      BY <1>0, <1>1, <1>10, HeapAssumption DEF BlocksPartitioned
    <3>2. Null \notin ToSet(h.blocks) /\ Null # b
      BY <1>1, <1>7, HeapAssumption
    <3> QED
      BY <1>5, <2>1, <2>2, <3>1, <3>2 DEF BlocksPartitioned
  <2>4. EmptyOffList(g)
    BY <1>5, <1>8, <2>1, <2>2 DEF EmptyOffList
  <2>5. g.first_free[b] # << >>
    <3>1. Len(h.first_free[b]) = h.elems
      <4>1. h.num_allocated[b] + Len(h.first_free[b]) = h.elems
        BY <1>0 DEF FreeListsExact
      <4> QED
        BY <1>1, <1>6, <2>1, <4>1
    <3>2. Len(Tail(h.first_free[b])) = h.elems - 1
      BY <1>6, <3>1
    <3>3. Tail(h.first_free[b]) # << >>
      <4> DEFINE t == Tail(h.first_free[b])
                 m == h.elems
      <4>1. Len(t) = m - 1 /\ m \in Nat /\ m >= 2
        BY <1>1, <3>2
      <4> HIDE DEF t, m
      <4>2. t # << >>
        BY <4>1
      <4> QED
        BY <4>2 DEF t
    <3> QED
      BY <1>5, <3>3
  <2>6. PartialFirst(g)
    <3>1. SUFFICES ASSUME NEW i \in DOMAIN L, NEW j \in DOMAIN L, i < j,
                          g.first_free[L[i]] = << >>
                   PROVE  g.first_free[L[j]] = << >>
      BY DEF PartialFirst
    <3>2. i \in Nat /\ j \in Nat /\ i >= 1 /\ j >= 1
      <4>1. L \in Seq(Block)
        BY <1>3 DEF HeapType
      <4> QED
        BY <4>1
    <3>3. i # 1 /\ j # 1
      BY <2>2, <2>5, <3>1, <3>2
    <3>4. /\ i - 1 \in DOMAIN h.blocks /\ j - 1 \in DOMAIN h.blocks /\ i - 1 < j - 1
          /\ L[i] = h.blocks[i - 1] /\ L[j] = h.blocks[j - 1]
      BY <2>2, <3>1, <3>2, <3>3
    <3>5. /\ L[i] \in Block /\ L[j] \in Block /\ L[i] # b /\ L[j] # b
      BY <1>7, <2>1, <3>4 DEF ToSet
    <3> QED
      BY <1>0, <1>5, <3>1, <3>4, <3>5 DEF PartialFirst
  <2> QED
    BY <1>3, <1>4, <2>3, <2>4, <2>6 DEF HeapOK, BlockInv, Counts, g
<1>11. CASE b # h.empty_block /\ Tail(h.first_free[b]) # << >>
  <2>1. g.blocks = h.blocks /\ g.empty_block = h.empty_block
    BY <1>3, <1>11
  <2>2. BlocksPartitioned(g)
    BY <1>0, <1>5, <2>1 DEF BlocksPartitioned
  <2>3. EmptyOffList(g)
    BY <1>8, <1>9, <1>11, <2>1 DEF EmptyOffList
  <2>4. PartialFirst(g)
    <3>1. g.first_free[b] # << >> /\ h.first_free[b] # << >>
      BY <1>5, <1>11
    <3>2. \A i \in DOMAIN h.blocks :
            g.first_free[h.blocks[i]] = << >> <=> h.first_free[h.blocks[i]] = << >>
      BY <1>5, <1>7, <3>1 DEF ToSet
    <3> QED
      BY <1>0, <2>1, <3>2 DEF PartialFirst
  <2> QED
    BY <1>3, <1>4, <2>2, <2>3, <2>4 DEF HeapOK, BlockInv, Counts, g
<1>12. CASE b # h.empty_block /\ Tail(h.first_free[b]) = << >>
  <2> DEFINE u == Unlink(h.blocks, b)
             L == g.blocks
  <2>1. L = Append(u, b) /\ g.empty_block = h.empty_block /\ b \in ToSet(h.blocks)
    BY <1>2, <1>3, <1>12
  <2>2. /\ u \in Seq(Block) /\ ToSet(u) = ToSet(h.blocks) \ {b}
        /\ \A i, j \in DOMAIN u : u[i] = u[j] => i = j
        /\ \A i, j \in DOMAIN u :
             i < j => \E k, l \in DOMAIN h.blocks :
                         k < l /\ h.blocks[k] = u[i] /\ h.blocks[l] = u[j]
    <3>1. h.blocks \in Seq(Block)
      BY <1>1
    <3>2. b \in ToSet(h.blocks)
      BY <2>1
    <3>3. \A i, j \in DOMAIN h.blocks : h.blocks[i] = h.blocks[j] => i = j
      BY <1>7
    <3> QED
      BY <3>1, <3>2, <3>3, UnlinkSet
  <2> HIDE DEF u
  <2>3. b \notin ToSet(u)
    BY <2>2
  <2>4. /\ ToSet(L) = ToSet(u) \cup {b}
        /\ \A i, j \in DOMAIN L : L[i] = L[j] => i = j
        /\ \A i, j \in DOMAIN L :
             i < j => /\ i \in DOMAIN u /\ L[i] = u[i]
                      /\ L[j] = b \/ (j \in DOMAIN u /\ L[j] = u[j])
    <3>1. u \in Seq(Block)
      BY <2>2
    <3>2. \A i, j \in DOMAIN u : u[i] = u[j] => i = j
      BY <2>2
    <3>3. b \in Block
      BY <1>1
    <3>4. LET A == Append(u, b)
          IN  /\ ToSet(A) = ToSet(u) \cup {b}
              /\ \A i, j \in DOMAIN A : A[i] = A[j] => i = j
              /\ \A i, j \in DOMAIN A :
                   i < j => /\ i \in DOMAIN u /\ A[i] = u[i]
                            /\ A[j] = b \/ (j \in DOMAIN u /\ A[j] = u[j])
      BY <2>3, <3>1, <3>2, <3>3, SnocSet
    <3> QED
      BY <2>1, <3>4
  <2>5. ToSet(L) = ToSet(h.blocks)
    BY <2>1, <2>2, <2>4
  <2>6. BlocksPartitioned(g)
    BY <1>0, <1>5, <2>1, <2>4, <2>5 DEF BlocksPartitioned
  <2>7. EmptyOffList(g)
    BY <1>8, <1>9, <1>12, <2>1, <2>5 DEF EmptyOffList
  <2>8. PartialFirst(g)
    <3>1. SUFFICES ASSUME NEW i \in DOMAIN L, NEW j \in DOMAIN L, i < j,
                          g.first_free[L[i]] = << >>
                   PROVE  g.first_free[L[j]] = << >>
      BY DEF PartialFirst
    <3>2. CASE L[j] = b
      BY <1>5, <1>12, <3>2
    <3>3. CASE L[j] # b
      <4>1. /\ i \in DOMAIN u /\ L[i] = u[i] /\ j \in DOMAIN u /\ L[j] = u[j]
        BY <2>4, <3>1, <3>3
      <4>2. PICK k, l \in DOMAIN h.blocks :
              k < l /\ h.blocks[k] = u[i] /\ h.blocks[l] = u[j]
        BY <2>2, <3>1, <4>1
      <4>3. u[i] # b /\ u[j] # b /\ u[i] \in Block /\ u[j] \in Block
        <5>1. u[i] \in ToSet(u) /\ u[j] \in ToSet(u)
          BY <4>1 DEF ToSet
        <5> QED
          BY <1>7, <2>2, <5>1
      <4> QED
        BY <1>0, <1>5, <3>1, <4>1, <4>2, <4>3 DEF PartialFirst
    <3> QED
      BY <3>2, <3>3
  <2> QED
    BY <1>3, <1>4, <2>6, <2>7, <2>8 DEF HeapOK, BlockInv, Counts, g
<1> QED
  BY <1>10, <1>11, <1>12

-----------------------------------------------------------------------------
(* Giving an element back.                                                 *)

Pushed(h, g, e) ==
  /\ g.elems = h.elems /\ g.mapped = h.mapped
  /\ g.first_free = [h.first_free EXCEPT ![e[1]] = <<e[2]>> \o h.first_free[e[1]]]
  /\ g.num_allocated = [h.num_allocated EXCEPT ![e[1]] = h.num_allocated[e[1]] - 1]
  /\ g.used = h.used \ {e}
  /\ g.free_elems = h.free_elems + 1

LEMMA PushSet ==
  ASSUME NEW s \in Seq(Nat), NEW x \in Nat, x \notin ToSet(s),
         \A i, j \in DOMAIN s : s[i] = s[j] => i = j
  PROVE  LET t == <<x>> \o s
         IN  /\ t \in Seq(Nat) /\ Len(t) = Len(s) + 1
             /\ ToSet(t) = ToSet(s) \cup {x}
             /\ \A i, j \in DOMAIN t : t[i] = t[j] => i = j
<1> DEFINE t == <<x>> \o s
           n == Len(s)
<1>1. /\ t \in Seq(Nat) /\ n \in Nat /\ DOMAIN s = 1 .. n /\ DOMAIN t = 1 .. n + 1
      /\ Len(t) = n + 1
      /\ t[1] = x /\ \A i \in 2 .. n + 1 : t[i] = s[i - 1]
  OBVIOUS
<1> HIDE DEF t, n
<1>2. \A i \in DOMAIN t : i # 1 => i - 1 \in DOMAIN s /\ t[i] = s[i - 1]
  BY <1>1
<1>3. ToSet(t) = ToSet(s) \cup {x}
  <2>1. ASSUME NEW y \in ToSet(t) PROVE y \in ToSet(s) \cup {x}
    BY <1>1, <1>2 DEF ToSet
  <2>2. ASSUME NEW y \in ToSet(s) PROVE y \in ToSet(t)
    <3>1. PICK i \in 1 .. n : y = s[i]
      BY <1>1 DEF ToSet
    <3>2. i + 1 \in DOMAIN t /\ t[i + 1] = s[i]
      BY <1>1, <3>1
    <3> QED
      BY <3>1, <3>2 DEF ToSet
  <2>3. x \in ToSet(t)
    <3>1. 1 \in DOMAIN t
      BY <1>1
    <3> QED
      BY <1>1, <3>1 DEF ToSet
  <2> QED
    BY <2>1, <2>2, <2>3
<1>4. ASSUME NEW i \in DOMAIN t, NEW j \in DOMAIN t, t[i] = t[j] PROVE i = j
  <2>1. \A k \in DOMAIN t : k # 1 => t[k] # x
    BY <1>2 DEF ToSet
  <2>2. CASE i = 1 \/ j = 1
    BY <1>1, <1>4, <2>1, <2>2
  <2>3. CASE i # 1 /\ j # 1
    <3>1. i - 1 \in DOMAIN s /\ j - 1 \in DOMAIN s /\ s[i - 1] = s[j - 1]
      BY <1>2, <1>4, <2>3
    <3>2. i - 1 = j - 1
      BY <3>1
    <3>3. i \in 1 .. n + 1 /\ j \in 1 .. n + 1
      BY <1>1
    <3> QED
      BY <1>1, <3>2, <3>3
  <2> QED
    BY <2>2, <2>3
<1> QED
  BY <1>1, <1>3, <1>4 DEF t, n

(* The check num_allocated > 0 of mowgli_heap_free cannot fail.            *)
LEMMA UsedPositive ==
  ASSUME NEW h, HeapType(h), Counts(h), NEW b \in h.mapped, NEW x \in Elems(h),
         <<b, x>> \in h.used
  PROVE  h.num_allocated[b] > 0
<1> DEFINE F == Elems(h) \ Used(h, b)
<1>1. /\ IsFiniteSet(Elems(h)) /\ Cardinality(Elems(h)) = h.elems
      /\ h.elems \in Nat /\ h.num_allocated[b] \in Nat
  BY FiniteElements DEF HeapType
<1>2. F \in SUBSET Elems(h) /\ F # Elems(h)
  BY DEF Used
<1>3. Len(h.first_free[b]) = Cardinality(F) /\ h.num_allocated[b] + Cardinality(F) = h.elems
  BY DEF Counts, FreeListsExact
<1> HIDE DEF F
<1>4. Cardinality(F) # h.elems /\ Cardinality(F) \in Nat
  BY <1>1, <1>2, FS_Subset, FS_CardinalityType
<1> QED
  BY <1>1, <1>3, <1>4

LEMMA PushCounts ==
  ASSUME NEW h, HeapType(h), Counts(h), NEW g, NEW b \in h.mapped, NEW x \in Elems(h),
         <<b, x>> \in h.used, Pushed(h, g, <<b, x>>)
  PROVE  Counts(g)
<1> DEFINE s == h.first_free[b]
           t == <<x>> \o s
<1>1. /\ h.elems \in Nat /\ h.mapped \in SUBSET Block /\ b \in Block
      /\ h.first_free \in [Block -> Seq(Nat)] /\ s \in Seq(Nat)
      /\ h.num_allocated \in [Block -> Nat] /\ h.free_elems \in Nat
      /\ h.num_allocated[b] \in Nat /\ x \in Nat
  BY DEF HeapType, Elems
<1>2. /\ ToSet(s) = Elems(h) \ Used(h, b) /\ Len(s) = Cardinality(Elems(h) \ Used(h, b))
      /\ \A i, j \in DOMAIN s : s[i] = s[j] => i = j
      /\ h.num_allocated[b] + Len(s) = h.elems
  BY DEF Counts, FreeListsExact
<1>3. x \notin ToSet(s)
  BY <1>2 DEF Used
<1>4. /\ t \in Seq(Nat) /\ Len(t) = Len(s) + 1
      /\ ToSet(t) = ToSet(s) \cup {x}
      /\ \A i, j \in DOMAIN t : t[i] = t[j] => i = j
  <2>1. s \in Seq(Nat) /\ x \in Nat
    BY <1>1
  <2>2. \A i, j \in DOMAIN s : s[i] = s[j] => i = j
    BY <1>2
  <2> HIDE DEF s
  <2> QED
    BY <1>3, <2>1, <2>2, PushSet
<1>5. /\ g.elems = h.elems /\ g.mapped = h.mapped /\ Elems(g) = Elems(h)
      /\ g.first_free[b] = t /\ g.num_allocated[b] = h.num_allocated[b] - 1
      /\ \A c \in Block : c # b => /\ g.first_free[c] = h.first_free[c]
                                   /\ g.num_allocated[c] = h.num_allocated[c]
      /\ g.used = h.used \ {<<b, x>>}
      /\ g.free_elems = h.free_elems + 1
  BY <1>1 DEF Pushed, Elems
<1> HIDE DEF s, t
<1>6. /\ Elems(g) \ Used(g, b) = (Elems(h) \ Used(h, b)) \cup {x}
      /\ \A c : c # b => Used(g, c) = Used(h, c)
  BY <1>5 DEF Used
<1>7. FreeListsExact(g)
  <2>1. SUFFICES ASSUME NEW c \in g.mapped
                 PROVE  /\ ToSet(g.first_free[c]) = Elems(g) \ Used(g, c)
                        /\ Len(g.first_free[c]) = Cardinality(Elems(g) \ Used(g, c))
                        /\ \A i, j \in DOMAIN g.first_free[c] :
                             g.first_free[c][i] = g.first_free[c][j] => i = j
                        /\ g.num_allocated[c] + Len(g.first_free[c]) = g.elems
    BY DEF FreeListsExact
  <2>2. CASE c = b
    <3> DEFINE F == Elems(h) \ Used(h, b)
    <3>1. IsFiniteSet(F) /\ x \notin F
      BY FiniteElements DEF Used
    <3> HIDE DEF F
    <3>2. Cardinality(F \cup {x}) = Cardinality(F) + 1
      BY <3>1, FS_AddElement
    <3>3. Len(g.first_free[b]) = Cardinality(Elems(g) \ Used(g, b))
      BY <1>2, <1>4, <1>5, <1>6, <3>2 DEF F
    <3>4. ToSet(g.first_free[b]) = Elems(g) \ Used(g, b)
      BY <1>2, <1>4, <1>5, <1>6
    <3>5. g.num_allocated[b] + Len(g.first_free[b]) = g.elems
      <4>1. Len(s) \in Nat /\ Len(t) = Len(s) + 1
        BY <1>1, <1>4
      <4>2. g.num_allocated[b] = h.num_allocated[b] - 1 /\ Len(g.first_free[b]) = Len(t)
        BY <1>5
      <4> DEFINE k == h.num_allocated[b]
                 l == Len(s)
      <4>3. k \in Nat /\ l \in Nat /\ k + l = h.elems
        BY <1>1, <1>2, <4>1
      <4>4. g.num_allocated[b] = k - 1 /\ Len(g.first_free[b]) = l + 1
        BY <4>1, <4>2
      <4> HIDE DEF k, l
      <4>5. (k - 1) + (l + 1) = h.elems
        BY <4>3
      <4> QED
        BY <1>5, <4>4, <4>5
    <3>6. \A i, j \in DOMAIN g.first_free[b] :
            g.first_free[b][i] = g.first_free[b][j] => i = j
      BY <1>4, <1>5
    <3> QED
      BY <2>2, <3>3, <3>4, <3>5, <3>6
  <2>3. CASE c # b
    <3>1. c \in h.mapped /\ c \in Block
      BY <1>1, <1>5
    <3> QED
      BY <1>5, <1>6, <2>3, <3>1, ZenonT(40) DEF Counts, FreeListsExact
  <2> QED
    BY <2>2, <2>3
<1>8. UsedMapped(g)
  BY <1>5 DEF Counts, UsedMapped
<1>9. FreeElemsExact(g)
  <2> DEFINE F == FreeElements(h)
             e == <<b, x>>
  <2>1. IsFiniteSet(F) /\ e \notin F /\ FreeElements(g) = F \cup {e}
    BY <1>5, FiniteElements DEF FreeElements
  <2>2. h.free_elems = Cardinality(F)
    BY DEF Counts, FreeElemsExact
  <2> HIDE DEF F, e
  <2>3. Cardinality(F \cup {e}) = Cardinality(F) + 1
    BY <2>1, FS_AddElement
  <2> QED
    BY <1>1, <1>5, <2>1, <2>2, <2>3 DEF FreeElemsExact
<1> QED
  BY <1>7, <1>8, <1>9 DEF Counts

(* Unmapping a block no client uses.                                       *)
LEMMA DropCounts ==
  ASSUME NEW h, HeapType(h), Counts(h), NEW g, NEW c \in h.mapped, Used(h, c) = {},
         g.elems = h.elems, g.mapped = h.mapped \ {c}, g.first_free = h.first_free,
         g.num_allocated = h.num_allocated, g.used = h.used,
         g.free_elems = h.free_elems - h.elems
  PROVE  Counts(g) /\ h.free_elems >= h.elems
<1>1. h.elems \in Nat /\ h.free_elems \in Nat /\ Elems(g) = Elems(h)
  BY DEF HeapType, Elems
<1>2. \A b : Used(g, b) = Used(h, b)
  BY <1>1 DEF Used
<1>3. FreeListsExact(g)
  BY <1>1, <1>2 DEF Counts, FreeListsExact
<1>4. UsedMapped(g)
  BY <1>1 DEF Counts, UsedMapped, Used
<1>5. FreeElemsExact(g) /\ h.free_elems >= h.elems
  <2> DEFINE F == FreeElements(h)
             N == {c} \X (1 .. h.elems)
             G == FreeElements(g)
  <2>1. /\ N \subseteq F /\ G = F \ N /\ F \cap N = N
    BY <1>1 DEF FreeElements, Elems, Used
  <2>2. IsFiniteSet(F) /\ IsFiniteSet(N) /\ Cardinality(N) = h.elems
    BY <1>1, FiniteElements, BlockCardinality
  <2>3. h.free_elems = Cardinality(F)
    BY DEF Counts, FreeElemsExact
  <2> HIDE DEF F, N, G
  <2>4. Cardinality(F \ N) = Cardinality(F) - Cardinality(F \cap N)
    BY <2>2, FS_Difference
  <2>5. Cardinality(N) <= Cardinality(F)
    BY <2>1, <2>2, FS_Subset
  <2> QED
    BY <1>1, <2>1, <2>2, <2>3, <2>4, <2>5 DEF FreeElemsExact, G
<1> QED
  BY <1>3, <1>4, <1>5 DEF Counts

LEMMA PutBackFields ==
  ASSUME NEW h, HeapType(h), NEW b \in Block, NEW x \in Nat, h.num_allocated[b] > 0
  PROVE  LET g == PutBack(h, <<b, x>>)
         IN  /\ HeapType(g) /\ Pushed(h, g, <<b, x>>)
             /\ g.blocks = h.blocks /\ g.empty_block = h.empty_block
<1> DEFINE e == <<b, x>>
           g == PutBack(h, e)
           ff == [h.first_free EXCEPT ![b] = <<x>> \o h.first_free[b]]
           na == [h.num_allocated EXCEPT ![b] = h.num_allocated[b] - 1]
           us == h.used \ {e}
           fe == h.free_elems + 1
<1>1. /\ h.first_free \in [Block -> Seq(Nat)] /\ h.num_allocated \in [Block -> Nat]
      /\ h.free_elems \in Nat /\ h.used \in SUBSET Element
      /\ h.mapped \in SUBSET Block /\ h.blocks \in Seq(Block)
      /\ h.empty_block \in Block \cup {Null}
  BY DEF HeapType
<1>2. ff \in [Block -> Seq(Nat)] /\ na \in [Block -> Nat] /\ us \in SUBSET Element /\ fe \in Nat
  BY <1>1
<1>3. g = Update(h, h.mapped, ff, na, h.blocks, h.empty_block, fe, us)
  BY DEF Update, HeapType, PutBack
<1>4. /\ HeapType(g) /\ g.elems = h.elems /\ g.mapped = h.mapped /\ g.first_free = ff
      /\ g.num_allocated = na /\ g.blocks = h.blocks /\ g.empty_block = h.empty_block
      /\ g.free_elems = fe /\ g.used = us
  <2> HIDE DEF ff, na, us, fe, g
  <2> QED
    BY <1>2, <1>3 DEF HeapType, Update
<1>5. Pushed(h, g, e)
  <2> HIDE DEF g
  <2> QED
    BY <1>4 DEF Pushed
<1> QED
  BY <1>4, <1>5

(* Changing the list and the empty block, and nothing else.                *)
LEMMA ListUpdate ==
  ASSUME NEW h, HeapType(h), NEW bl \in Seq(Block), NEW eb \in Block \cup {Null}
  PROVE  LET g == [h EXCEPT !.blocks = bl, !.empty_block = eb]
         IN  /\ HeapType(g) /\ g.elems = h.elems /\ g.mapped = h.mapped
             /\ g.first_free = h.first_free /\ g.num_allocated = h.num_allocated
             /\ g.free_elems = h.free_elems /\ g.used = h.used
             /\ g.blocks = bl /\ g.empty_block = eb
  BY DEF HeapType

LEMMA SameCounts ==
  ASSUME NEW h, Counts(h), NEW g, g.elems = h.elems, g.mapped = h.mapped,
         g.first_free = h.first_free, g.num_allocated = h.num_allocated,
         g.free_elems = h.free_elems, g.used = h.used
  PROVE  Counts(g)
<1>1. Elems(g) = Elems(h) /\ FreeElements(g) = FreeElements(h)
  BY DEF Elems, FreeElements
<1>2. \A c : Used(g, c) = Used(h, c)
  BY <1>1 DEF Used
<1>3. FreeListsExact(g)
  BY <1>1, <1>2 DEF Counts, FreeListsExact
<1> QED
  BY <1>1, <1>3 DEF Counts, UsedMapped, FreeElemsExact

(* mowgli_heap_free, all cases: the block's last element comes back (with  *)
(* or without an empty block to give up first), its first one does, or     *)
(* neither.                                                                *)
LEMMA FreeOK ==
  ASSUME NEW h, HeapOK(h), NEW b \in h.mapped, NEW x \in Elems(h), <<b, x>> \in h.used
  PROVE  /\ HeapOK(Relink(PutBack(h, <<b, x>>), b))
         /\ Relink(PutBack(h, <<b, x>>), b).used = h.used \ {<<b, x>>}
         /\ h.num_allocated[b] > 0
<1> DEFINE h1 == PutBack(h, <<b, x>>)
           g == Relink(h1, b)
           u == Unlink(h.blocks, b)
           c == h.empty_block
           na == h1.num_allocated[b]
<1>0. /\ HeapType(h) /\ BlocksPartitioned(h) /\ FreeListsExact(h) /\ UsedMapped(h)
      /\ EmptyOffList(h) /\ PartialFirst(h) /\ FreeElemsExact(h) /\ Counts(h)
  BY DEF HeapOK, BlockInv, Counts
<1>1. /\ h.mapped \in SUBSET Block /\ h.blocks \in Seq(Block) /\ b \in Block
      /\ h.first_free \in [Block -> Seq(Nat)] /\ h.num_allocated \in [Block -> Nat]
      /\ h.elems \in Nat /\ h.elems >= 2 /\ x \in Nat
      /\ c \in Block \cup {Null}
  BY <1>0 DEF HeapType, Elems
<1>2. h.num_allocated[b] > 0 /\ h.num_allocated[b] \in Nat
  BY <1>0, <1>1, UsedPositive
<1>3. b # c /\ b \in ToSet(h.blocks)
  <2>1. b # c
    BY <1>0, <1>1, <1>2, HeapAssumption DEF EmptyOffList
  <2> QED
    BY <1>0, <2>1 DEF BlocksPartitioned
<1>4. HeapType(h1) /\ Pushed(h, h1, <<b, x>>) /\ h1.blocks = h.blocks /\ h1.empty_block = c
  BY <1>0, <1>1, <1>2, PutBackFields
<1> HIDE DEF h1
<1>5. Counts(h1)
  BY <1>0, <1>4, PushCounts
<1>6. /\ h1.mapped = h.mapped /\ h1.elems = h.elems
      /\ na = h.num_allocated[b] - 1 /\ na \in Nat
      /\ h1.first_free[b] = <<x>> \o h.first_free[b]
      /\ \A d \in Block : d # b => /\ h1.first_free[d] = h.first_free[d]
                                   /\ h1.num_allocated[d] = h.num_allocated[d]
      /\ h1.used = h.used \ {<<b, x>>}
  BY <1>1, <1>2, <1>4, SMTT(40) DEF Pushed
<1>7. h1.first_free[b] # << >>
  <2> DEFINE s == h.first_free[b]
  <2>1. s \in Seq(Nat)
    BY <1>1
  <2> HIDE DEF s
  <2>2. <<x>> \o s # << >>
    <3>1. x \in Nat
      BY <1>1
    <3> QED
      BY <2>1, <3>1
  <2> QED
    BY <1>6, <2>2 DEF s
<1>8. /\ u \in Seq(Block) /\ ToSet(u) = ToSet(h.blocks) \ {b}
      /\ \A i, j \in DOMAIN u : u[i] = u[j] => i = j
      /\ \A i, j \in DOMAIN u :
           i < j => \E k, l \in DOMAIN h.blocks :
                       k < l /\ h.blocks[k] = u[i] /\ h.blocks[l] = u[j]
  <2>1. h.blocks \in Seq(Block)
    BY <1>1
  <2>2. b \in ToSet(h.blocks)
    BY <1>3
  <2>3. \A i, j \in DOMAIN h.blocks : h.blocks[i] = h.blocks[j] => i = j
    BY <1>0 DEF BlocksPartitioned
  <2> QED
    BY <2>1, <2>2, <2>3, UnlinkSet
<1>9. \A d \in ToSet(h.blocks) : d \in Block
  BY <1>1 DEF ToSet
<1> HIDE DEF u
<1>10. \A d \in ToSet(u) : d \in Block /\ d # b /\ h1.num_allocated[d] > 0
  BY <1>0, <1>6, <1>8, <1>9 DEF EmptyOffList
<1>11. \A i, j \in DOMAIN u :
         i < j /\ h1.first_free[u[i]] = << >> => h1.first_free[u[j]] = << >>
  <2>1. SUFFICES ASSUME NEW i \in DOMAIN u, NEW j \in DOMAIN u, i < j,
                        h1.first_free[u[i]] = << >>
                 PROVE  h1.first_free[u[j]] = << >>
    OBVIOUS
  <2>2. u[i] \in ToSet(u) /\ u[j] \in ToSet(u)
    BY DEF ToSet
  <2>3. PICK k, l \in DOMAIN h.blocks : k < l /\ h.blocks[k] = u[i] /\ h.blocks[l] = u[j]
    BY <1>8, <2>1
  <2>4. h.first_free[u[i]] = << >> /\ h1.first_free[u[j]] = h.first_free[u[j]]
    BY <1>6, <1>10, <2>1, <2>2
  <2> QED
    BY <1>0, <2>3, <2>4 DEF PartialFirst
<1>12. CASE na = 0
  <2> DEFINE h2 == IF c # Null THEN mowgli_heap_shrink(h1, c) ELSE h1
  <2>1. g = [h2 EXCEPT !.blocks = Unlink(@, b), !.empty_block = b]
    BY <1>4, <1>12 DEF Relink
  <2>2. /\ HeapType(h2) /\ Counts(h2) /\ h2.elems = h.elems
        /\ h2.mapped = h.mapped \ {c} /\ h2.blocks = h.blocks
        /\ h2.first_free = h1.first_free /\ h2.num_allocated = h1.num_allocated
        /\ h2.used = h1.used
    <3>1. CASE c = Null
      <4>1. h2 = h1 /\ h1.mapped \ {c} = h1.mapped
        BY <1>1, <1>6, <3>1, HeapAssumption
      <4> HIDE DEF h2
      <4> QED
        BY <1>4, <1>5, <1>6, <4>1
    <3>2. CASE c # Null
      <4>1. c \in h1.mapped /\ c \in Block /\ h1.num_allocated[c] = 0 /\ Used(h1, c) = {}
        <5>1. c \in h1.mapped /\ c \in Block
          BY <1>0, <1>1, <1>6, <3>2 DEF BlocksPartitioned
        <5>2. h1.num_allocated[c] = 0
          BY <1>0, <1>3, <1>6, <3>2, <5>1 DEF EmptyOffList
        <5>3. \A y \in Elems(h1) : <<c, y>> \in h1.used => h1.num_allocated[c] > 0
          BY <1>4, <1>5, <5>1, UsedPositive
        <5> QED
          BY <5>1, <5>2, <5>3 DEF Used
      <4> DEFINE m == h1.mapped \ {c}
                 fe == h1.free_elems - h1.elems
      <4>2. h2 = Update(h1, m, h1.first_free, h1.num_allocated, h1.blocks, Null, fe, h1.used)
        BY <1>4, <3>2 DEF mowgli_heap_shrink, Update, HeapType
      <4>3. /\ h2.elems = h1.elems /\ h2.mapped = m /\ h2.first_free = h1.first_free
            /\ h2.num_allocated = h1.num_allocated /\ h2.used = h1.used
            /\ h2.free_elems = fe /\ h2.blocks = h1.blocks
        <5> HIDE DEF m, fe, h2
        <5> QED
          BY <1>4, <4>2 DEF Update, HeapType
      <4>4. Counts(h2) /\ h1.free_elems >= h1.elems
        <5> HIDE DEF h2
        <5> QED
          BY <1>4, <1>5, <4>1, <4>3, DropCounts
      <4>5. m \in SUBSET Block /\ fe \in Nat
        BY <1>4, <4>4 DEF HeapType
      <4>6. HeapType(h2)
        <5> HIDE DEF m, fe, h2
        <5> QED
          BY <1>4, <4>2, <4>5 DEF Update, HeapType
      <4> QED
        BY <1>4, <1>6, <4>3, <4>4, <4>6
    <3> QED
      BY <3>1, <3>2
  <2> HIDE DEF h2
  <2>3. /\ HeapType(g) /\ g.elems = h2.elems /\ g.mapped = h2.mapped
        /\ g.first_free = h2.first_free /\ g.num_allocated = h2.num_allocated
        /\ g.free_elems = h2.free_elems /\ g.used = h2.used
        /\ g.blocks = u /\ g.empty_block = b
    <3>1. g = [h2 EXCEPT !.blocks = u, !.empty_block = b]
      BY <2>1, <2>2 DEF u
    <3> HIDE DEF g
    <3> QED
      BY <1>1, <1>8, <2>2, <3>1 DEF HeapType
  <2> HIDE DEF g
  <2>4. Counts(g)
    BY <2>2, <2>3, SameCounts
  <2>5. BlocksPartitioned(g)
    <3>1. /\ h.mapped = ToSet(h.blocks) \cup ({c} \ {Null}) /\ c \notin ToSet(h.blocks)
      BY <1>0 DEF BlocksPartitioned
    <3>2. Null \notin h.mapped /\ b # Null
      BY <1>1, HeapAssumption
    <3>3. g.mapped = ToSet(u) \cup ({b} \ {Null})
      BY <1>3, <1>8, <2>2, <2>3, <3>1, <3>2
    <3> QED
      BY <1>8, <1>10, <2>3, <3>3 DEF BlocksPartitioned
  <2>6. EmptyOffList(g)
    BY <1>10, <1>12, <2>2, <2>3 DEF EmptyOffList
  <2>7. PartialFirst(g)
    BY <1>11, <2>2, <2>3 DEF PartialFirst
  <2> QED
    BY <1>2, <1>6, <2>2, <2>3, <2>4, <2>5, <2>6, <2>7 DEF HeapOK, BlockInv, Counts, g, h1
<1>13. CASE na # 0 /\ na = h.elems - 1
  <2> DEFINE L == <<b>> \o u
  <2>1. g = [h1 EXCEPT !.blocks = L, !.empty_block = c]
    <3>1. g = [h1 EXCEPT !.blocks = L]
      BY <1>4, <1>6, <1>13 DEF Relink, u
    <3> HIDE DEF g, L
    <3> QED
      BY <1>4, <3>1 DEF HeapType
  <2>2. /\ L \in Seq(Block) /\ L[1] = b /\ ToSet(L) = ToSet(u) \cup {b}
        /\ \A i, j \in DOMAIN L : L[i] = L[j] => i = j
        /\ \A i \in DOMAIN L : i # 1 => i - 1 \in DOMAIN u /\ L[i] = u[i - 1]
    <3>1. u \in Seq(Block)
      BY <1>8
    <3>2. b \notin ToSet(u)
      BY <1>8
    <3>3. \A i, j \in DOMAIN u : u[i] = u[j] => i = j
      BY <1>8
    <3> QED
      BY <1>1, <3>1, <3>2, <3>3, BlockConsSet
  <2> HIDE DEF L
  <2>3. /\ HeapType(g) /\ g.elems = h1.elems /\ g.mapped = h1.mapped
        /\ g.first_free = h1.first_free /\ g.num_allocated = h1.num_allocated
        /\ g.free_elems = h1.free_elems /\ g.used = h1.used
        /\ g.blocks = L /\ g.empty_block = c
    <3> HIDE DEF g
    <3> QED
      BY <1>1, <1>4, <2>1, <2>2 DEF HeapType
  <2> HIDE DEF g
  <2>4. Counts(g)
    BY <1>5, <2>3, SameCounts
  <2>5. ToSet(L) = ToSet(h.blocks)
    BY <1>3, <1>8, <2>2
  <2>6. BlocksPartitioned(g)
    BY <1>0, <1>6, <2>2, <2>3, <2>5 DEF BlocksPartitioned
  <2>7. EmptyOffList(g)
    <3>1. \A d \in ToSet(L) : h1.num_allocated[d] > 0
      <4>0. na \in Nat /\ na # 0
        BY <1>6, <1>13
      <4>1. h1.num_allocated[b] > 0
        <5> HIDE DEF na
        <5>1. na > 0
          BY <4>0
        <5> QED
          BY <5>1 DEF na
      <4> QED
        BY <1>10, <2>2, <4>1
    <3>2. c # Null => h1.num_allocated[c] = 0
      BY <1>0, <1>1, <1>3, <1>6 DEF EmptyOffList
    <3> QED
      BY <2>3, <3>1, <3>2 DEF EmptyOffList
  <2>8. PartialFirst(g)
    <3>1. SUFFICES ASSUME NEW i \in DOMAIN L, NEW j \in DOMAIN L, i < j,
                          h1.first_free[L[i]] = << >>
                   PROVE  h1.first_free[L[j]] = << >>
      BY <2>3 DEF PartialFirst
    <3>2. i \in Nat /\ j \in Nat /\ i >= 1
      BY <2>2
    <3>3. i # 1 /\ j # 1
      BY <1>7, <2>2, <3>1, <3>2
    <3>4. /\ i - 1 \in DOMAIN u /\ j - 1 \in DOMAIN u /\ i - 1 < j - 1
          /\ L[i] = u[i - 1] /\ L[j] = u[j - 1]
      BY <2>2, <3>1, <3>2, <3>3
    <3> QED
      BY <1>11, <3>1, <3>4
  <2> QED
    BY <1>2, <1>6, <2>3, <2>4, <2>6, <2>7, <2>8 DEF HeapOK, BlockInv, Counts, g, h1
<1>14. CASE na # 0 /\ na # h.elems - 1
  <2>1. g = h1
    BY <1>6, <1>14 DEF Relink
  <2>2. h.first_free[b] # << >>
    <3> DEFINE k == h.num_allocated[b]
               s == h.first_free[b]
    <3>1. k + Len(s) = h.elems /\ s \in Seq(Nat) /\ k - 1 # h.elems - 1
      BY <1>0, <1>1, <1>6, <1>14 DEF FreeListsExact
    <3>2. k \in Nat /\ h.elems \in Nat
      BY <1>1, <1>2
    <3> HIDE DEF k, s
    <3>3. Len(s) # 0
      BY <3>1, <3>2
    <3>4. s # << >>
      BY <3>3
    <3> QED
      BY <3>4 DEF s
  <2>3. BlocksPartitioned(h1)
    BY <1>0, <1>4, <1>6 DEF BlocksPartitioned
  <2>4. EmptyOffList(h1)
    <3>1. \A d \in ToSet(h.blocks) : h1.num_allocated[d] > 0
      <4>0. na \in Nat /\ na # 0
        BY <1>6, <1>14
      <4>1. h1.num_allocated[b] > 0
        <5> HIDE DEF na
        <5>1. na > 0
          BY <4>0
        <5> QED
          BY <5>1 DEF na
      <4> QED
        BY <1>8, <1>10, <4>1
    <3>2. c # Null => h1.num_allocated[c] = 0
      BY <1>0, <1>1, <1>3, <1>6 DEF EmptyOffList
    <3> QED
      BY <1>4, <3>1, <3>2 DEF EmptyOffList
  <2>5. PartialFirst(h1)
    <3>1. \A i \in DOMAIN h.blocks :
            h1.first_free[h.blocks[i]] = << >> <=> h.first_free[h.blocks[i]] = << >>
      BY <1>6, <1>7, <1>9, <2>2 DEF ToSet
    <3> QED
      BY <1>0, <1>4, <3>1 DEF PartialFirst
  <2> QED
    BY <1>2, <1>4, <1>5, <1>6, <2>1, <2>3, <2>4, <2>5 DEF HeapOK, BlockInv, Counts, h1
<1> QED
  BY <1>12, <1>13, <1>14

-----------------------------------------------------------------------------
(* The specification.                                                      *)

\* A heap that does not exist owns nothing.
NothingOwned(h) == ~h.created => h.mapped = {} /\ h.free_elems = 0 /\ h.empty_block = Null

IInv == TypeOK /\ HeapInv /\ MutexReleased /\ NothingOwned(heap)

(* A heap without blocks.                                                  *)
NoBlocks(h) ==
  /\ h.mapped = {} /\ h.blocks = << >> /\ h.empty_block = Null
  /\ h.free_elems = 0 /\ h.used = {}

LEMMA EmptyRecord ==
  ASSUME NEW n \in Nat, n >= 2, NEW f \in [Block -> Seq(Nat)], NEW a \in [Block -> Nat],
         NEW h,
         h = [created |-> TRUE, elems |-> n, mapped |-> {}, first_free |-> f,
              num_allocated |-> a, blocks |-> << >>, empty_block |-> Null,
              free_elems |-> 0, used |-> {}]
  PROVE  HeapType(h) /\ NoBlocks(h) /\ h.created /\ h.elems = n
<1>1. << >> \in Seq(Block)
  OBVIOUS
<1> QED
  BY <1>1 DEF HeapType, NoBlocks

LEMMA NoHeapFields ==
  ASSUME NEW n \in Nat, n >= 2, NEW h,
         h = [NoHeap({}) EXCEPT !.created = TRUE, !.elems = n]
  PROVE  HeapType(h) /\ NoBlocks(h) /\ h.created /\ h.elems = n
<1> DEFINE f == [b \in Block |-> << >>]
           a == [b \in Block |-> 0]
<1>1. f \in [Block -> Seq(Nat)]
  OBVIOUS
<1>2. a \in [Block -> Nat]
  OBVIOUS
<1>3. h = [[created |-> FALSE, elems |-> 2, mapped |-> {}, first_free |-> f,
            num_allocated |-> a, blocks |-> << >>, empty_block |-> Null,
            free_elems |-> 0, used |-> {}] EXCEPT !.created = TRUE, !.elems = n]
  BY DEF NoHeap
<1> HIDE DEF f, a
<1>4. h = [created |-> TRUE, elems |-> n, mapped |-> {}, first_free |-> f,
           num_allocated |-> a, blocks |-> << >>, empty_block |-> Null,
           free_elems |-> 0, used |-> {}]
  BY <1>3
<1> QED
  BY <1>1, <1>2, <1>4, EmptyRecord, ZenonT(40)

LEMMA NoBlocksOK ==
  ASSUME NEW h, HeapType(h), NoBlocks(h)
  PROVE  HeapOK(h)
<1>3. ToSet(h.blocks) = {} /\ DOMAIN h.blocks = {}
  BY DEF ToSet, NoBlocks
<1>4. FreeElements(h) = {}
  BY DEF FreeElements, NoBlocks
<1>5. FreeElemsExact(h)
  BY <1>4, FS_EmptySet DEF FreeElemsExact, NoBlocks
<1>6. BlocksPartitioned(h) /\ EmptyOffList(h) /\ PartialFirst(h)
  BY <1>3 DEF BlocksPartitioned, EmptyOffList, PartialFirst, NoBlocks
<1>7. FreeListsExact(h) /\ UsedMapped(h)
  BY DEF FreeListsExact, UsedMapped, NoBlocks
<1> QED
  BY <1>5, <1>6, <1>7 DEF HeapOK, BlockInv

LEMMA NoHeapOK == HeapOK(NoHeap({})) /\ NoBlocks(NoHeap({})) /\ ~NoHeap({}).created
<1> DEFINE h == NoHeap({})
           f == [b \in Block |-> << >>]
           a == [b \in Block |-> 0]
<1>1. f \in [Block -> Seq(Nat)]
  OBVIOUS
<1>2. a \in [Block -> Nat]
  OBVIOUS
<1>3. h = [created |-> FALSE, elems |-> 2, mapped |-> {}, first_free |-> f,
           num_allocated |-> a, blocks |-> << >>, empty_block |-> Null,
           free_elems |-> 0, used |-> {}]
  BY DEF NoHeap
<1> HIDE DEF f, a, h
<1>4. << >> \in Seq(Block)
  OBVIOUS
<1>5. HeapType(h) /\ NoBlocks(h) /\ ~h.created
  BY <1>1, <1>2, <1>3, <1>4 DEF HeapType, NoBlocks
<1> QED
  BY <1>5, NoBlocksOK DEF h

(* A mapped block no client uses is the empty block: one on the list has a *)
(* positive num_allocated, so its free list misses an element.             *)
LEMMA UnusedIsEmpty ==
  ASSUME NEW h, HeapOK(h), NEW b \in h.mapped, Used(h, b) = {}
  PROVE  b = h.empty_block
<1>1. HeapType(h) /\ BlocksPartitioned(h) /\ FreeListsExact(h) /\ EmptyOffList(h)
  BY DEF HeapOK, BlockInv
<1>2. IsFiniteSet(Elems(h)) /\ Cardinality(Elems(h)) = h.elems
  BY <1>1, FiniteElements DEF HeapOK
<1>3. /\ Len(h.first_free[b]) = Cardinality(Elems(h))
      /\ h.num_allocated[b] + Len(h.first_free[b]) = h.elems
  <2>1. Elems(h) \ Used(h, b) = Elems(h)
    OBVIOUS
  <2> QED
    BY <1>1, <2>1 DEF FreeListsExact
<1>4. h.num_allocated[b] \in Nat /\ h.elems \in Nat
  BY <1>1 DEF HeapType
<1>5. h.num_allocated[b] = 0
  BY <1>2, <1>3, <1>4
<1>6. b \notin ToSet(h.blocks)
  BY <1>1, <1>5 DEF EmptyOffList
<1> QED
  BY <1>1, <1>6 DEF BlocksPartitioned

LEMMA InitInv == Init => IInv
<1> SUFFICES ASSUME Init PROVE IInv
  OBVIOUS
<1>1. HeapOK(heap) /\ NoBlocks(heap) /\ ~heap.created /\ ~locked /\ ret = Null /\ locked = FALSE
  BY NoHeapOK DEF Init
<1> QED
  BY <1>1 DEF IInv, TypeOK, HeapInv, HeapOK, MutexReleased, NothingOwned, NoBlocks

(* What a call of mowgli_heap_alloc does, from a heap in good order.       *)
LEMMA AllocStep ==
  ASSUME IInv, mowgli_heap_alloc
  PROVE  /\ HeapOK(heap') /\ UNCHANGED locked /\ heap'.created
         /\ ret' \in Element \ heap.used
         /\ heap'.used = heap.used \cup {ret'}
<1>0. HeapOK(heap) /\ heap.created /\ ~locked
  BY DEF IInv, TypeOK, HeapInv, HeapOK, MutexReleased, mowgli_heap_alloc
<1>1. ASSUME NEW h, HeapOK(h), h.free_elems # 0, h.used = heap.used, h.created,
             AllocFrom(h)
      PROVE  /\ HeapOK(heap') /\ UNCHANGED locked /\ heap'.created
             /\ ret' \in Element \ heap.used
             /\ heap'.used = heap.used \cup {ret'}
  <2> DEFINE b == AllocBlock(h)
             x == Head(h.first_free[b])
  <2>1. /\ b \in h.mapped /\ h.first_free[b] # << >>
        /\ b = h.empty_block \/ (h.blocks # << >> /\ b = h.blocks[1])
    BY <1>1, AllocBlockOK
  <2> HIDE DEF b
  <2>2. h.mapped \in SUBSET Block /\ h.first_free \in [Block -> Seq(Nat)] /\ h.blocks \in Seq(Block)
    BY <1>1 DEF HeapOK, HeapType
  <2>3. b # Null
    BY <2>1, <2>2, HeapAssumption
  <2>4. heap' = TakeFrom(h, b) /\ ret' = <<b, x>> /\ UNCHANGED locked
    BY <1>1, <2>1, <2>3 DEF AllocFrom, b
  <2>5. HeapOK(heap')
    BY <1>1, <2>1, <2>4, TakeOK
  <2>6. Popped(h, heap', b) /\ heap'.created = h.created
    <3>1. b \in ToSet(h.blocks) \/ b = h.empty_block
      BY <2>1, <2>2 DEF ToSet
    <3> QED
      BY <1>1, <2>1, <2>4, <3>1, TakeFields
  <2>7. x \in ToSet(h.first_free[b]) /\ x \in Nat
    BY <2>1, <2>2 DEF ToSet
  <2>8. <<b, x>> \notin h.used
    BY <1>1, <2>1, <2>7 DEF HeapOK, BlockInv, FreeListsExact, Used
  <2> QED
    BY <1>1, <2>1, <2>2, <2>4, <2>5, <2>6, <2>7, <2>8 DEF Popped, Element
<1>2. CASE heap.free_elems # 0 /\ AllocFrom(heap)
  BY <1>0, <1>1, <1>2
<1>3. ASSUME heap.free_elems = 0, NEW b \in Block \ heap.mapped,
             AllocFrom(mowgli_heap_expand(heap, b))
      PROVE  /\ HeapOK(heap') /\ UNCHANGED locked /\ heap'.created
             /\ ret' \in Element \ heap.used
             /\ heap'.used = heap.used \cup {ret'}
  <2> DEFINE h == mowgli_heap_expand(heap, b)
  <2>1. heap.empty_block = Null
    <3>1. SUFFICES ASSUME heap.empty_block # Null PROVE FALSE
      OBVIOUS
    <3> DEFINE c == heap.empty_block
               s == heap.first_free[c]
    <3>2. /\ HeapType(heap) /\ BlocksPartitioned(heap) /\ FreeListsExact(heap)
          /\ EmptyOffList(heap) /\ FreeElemsExact(heap)
      BY <1>0 DEF HeapOK, BlockInv
    <3>3. c \in heap.mapped /\ heap.num_allocated[c] = 0
      BY <3>1, <3>2 DEF BlocksPartitioned, EmptyOffList
    <3>4. heap.num_allocated[c] + Len(s) = heap.elems /\ heap.elems \in Nat
          /\ heap.elems >= 2 /\ s \in Seq(Nat)
      BY <3>2, <3>3 DEF FreeListsExact, HeapType
    <3>5. ToSet(s) = Elems(heap) \ Used(heap, c)
      BY <3>2, <3>3 DEF FreeListsExact
    <3>6. Len(s) # 0
      BY <3>3, <3>4
    <3> HIDE DEF s
    <3>7. s[1] \in ToSet(s)
      BY <3>4, <3>6 DEF ToSet
    <3>8. <<c, s[1]>> \in FreeElements(heap)
      BY <3>3, <3>5, <3>7 DEF FreeElements, Used
    <3> QED
      BY <1>3, <3>2, <3>8, FiniteElements, FS_EmptySet DEF FreeElemsExact
  <2>2. HeapOK(h)
    BY <1>0, <1>3, <2>1, ExpandOK
  <2>3. h.used = heap.used /\ h.created /\ h.free_elems = heap.free_elems + heap.elems
    BY <1>0, <2>1 DEF HeapOK, HeapType, mowgli_heap_expand
  <2>4. h.free_elems # 0
    <3>1. heap.elems \in Nat /\ heap.elems >= 2
      BY <1>0 DEF HeapOK, HeapType
    <3> HIDE DEF h
    <3> QED
      BY <1>3, <2>3, <3>1
  <2> HIDE DEF h
  <2>5. AllocFrom(h)
    BY <1>3 DEF h
  <2> QED
    BY <1>1, <2>2, <2>3, <2>4, <2>5
<1> QED
  BY <1>2, <1>3 DEF mowgli_heap_alloc

LEMMA FreeStep ==
  ASSUME IInv, NEW e \in heap.used, mowgli_heap_free(e)
  PROVE  /\ HeapOK(heap') /\ UNCHANGED locked /\ ret' = Null
         /\ heap'.used = heap.used \ {e}
         /\ heap'.created
<1>1. HeapOK(heap) /\ heap.created
  BY DEF IInv, TypeOK, HeapInv, HeapOK, mowgli_heap_free
<1>2. PICK b \in heap.mapped, x \in Elems(heap) : e = <<b, x>>
  BY <1>1 DEF HeapOK, BlockInv, UsedMapped
<1>3. e[1] = b /\ e[2] = x
  BY <1>2
<1>4. /\ HeapOK(Relink(PutBack(heap, e), b))
      /\ Relink(PutBack(heap, e), b).used = heap.used \ {e}
      /\ heap.num_allocated[b] > 0
  BY <1>1, <1>2, FreeOK
<1>5. heap' = Relink(PutBack(heap, e), b) /\ UNCHANGED locked /\ ret' = Null
  BY <1>3, <1>4 DEF mowgli_heap_free
<1>6. heap'.created
  <2>1. PutBack(heap, e).created
    BY <1>1 DEF PutBack, HeapOK, HeapType
  <2> QED
    BY <1>1, <1>5, <2>1 DEF Relink, mowgli_heap_shrink, PutBack, HeapOK, HeapType
<1> QED
  BY <1>4, <1>5, <1>6

LEMMA CreateStep ==
  ASSUME IInv, NEW n \in Requests, NEW s \in ElemSizes, NEW custom \in BOOLEAN,
         NEW now \in BOOLEAN, mowgli_heap_create(n, s, custom, now)
  PROVE  /\ HeapOK(heap') /\ UNCHANGED locked /\ ret' = Null
         /\ heap'.used = {} /\ heap'.created
<1> DEFINE m == HeapElems(n, s, custom)
           h == [NoHeap({}) EXCEPT !.created = TRUE, !.elems = m]
<1>1. m \in Nat /\ m >= 2
  BY HeapElemsAtLeast2, HeapAssumption
<1>2. heap.mapped = {}
  BY DEF IInv, NothingOwned, mowgli_heap_create
<1> HIDE DEF m
<1>3. HeapType(h) /\ NoBlocks(h) /\ h.created
  BY <1>1, NoHeapFields
<1>4. \/ heap' = h
      \/ \E b \in Block : heap' = mowgli_heap_expand(h, b)
  BY <1>2 DEF mowgli_heap_create, m
<1> HIDE DEF h
<1>5. HeapOK(h)
  BY <1>3, NoBlocksOK
<1>6. ASSUME NEW b \in Block, heap' = mowgli_heap_expand(h, b)
      PROVE  HeapOK(heap') /\ heap'.used = {} /\ heap'.created
  <2>1. h.empty_block = Null /\ b \notin h.mapped /\ h.used = {}
    BY <1>3 DEF NoBlocks
  <2>2. HeapOK(heap')
    BY <1>5, <1>6, <2>1, ExpandOK
  <2>3. heap'.used = h.used /\ heap'.created = h.created
    BY <1>3, <1>6, <2>1 DEF HeapType, mowgli_heap_expand
  <2> QED
    BY <1>3, <2>1, <2>2, <2>3
<1>7. UNCHANGED locked /\ ret' = Null
  BY DEF mowgli_heap_create
<1> QED
  BY <1>3, <1>4, <1>5, <1>6, <1>7 DEF NoBlocks

LEMMA DestroyStep ==
  ASSUME IInv, mowgli_heap_destroy
  PROVE  HeapOK(heap') /\ NoBlocks(heap') /\ UNCHANGED locked /\ ret' = Null
<1>1. heap.mapped \ (ToSet(heap.blocks) \cup {heap.empty_block}) = {}
  BY DEF IInv, HeapInv, BlockInv, BlocksPartitioned
<1>2. heap' = NoHeap({})
  BY <1>1 DEF mowgli_heap_destroy
<1> QED
  BY <1>2, NoHeapOK DEF mowgli_heap_destroy

LEMMA StepInv == IInv /\ [Next]_vars => IInv'
<1> SUFFICES ASSUME IInv, [Next]_vars PROVE IInv'
  OBVIOUS
<1> USE DEF IInv, TypeOK, HeapInv, MutexReleased, NothingOwned, HeapOK
<1>0. locked = FALSE /\ ret \in Element \cup {Null}
  OBVIOUS
<1>1. ASSUME HeapOK(heap'), UNCHANGED locked, ret' \in Element \cup {Null},
             heap'.created \/ NoBlocks(heap')
      PROVE  IInv'
  BY <1>0, <1>1 DEF NoBlocks
<1> HIDE DEF IInv, TypeOK, HeapInv, MutexReleased, NothingOwned, HeapOK
<1>2. CASE \E n \in Requests, s \in ElemSizes, custom, now \in BOOLEAN :
             mowgli_heap_create(n, s, custom, now)
  BY <1>1, <1>2, CreateStep
<1>3. CASE mowgli_heap_alloc
  BY <1>1, <1>3, AllocStep
<1>4. CASE \E e \in heap.used : mowgli_heap_free(e)
  BY <1>1, <1>4, FreeStep
<1>5. CASE mowgli_heap_destroy
  BY <1>1, <1>5, DestroyStep
<1>6. CASE UNCHANGED vars
  BY <1>6 DEF vars, IInv, TypeOK, HeapInv, MutexReleased, NothingOwned
<1> QED
  BY <1>2, <1>3, <1>4, <1>5, <1>6 DEF Next

\* The inductive invariant holds in every reachable state of the heap of
\* core/heap.enabled.c, the one the other theorems are read off from.
THEOREM HeapSafe == Spec => []IInv
  BY InitInv, StepInv, PTL DEF Spec

\* Type correctness: no counter of core/heap.enabled.c is ever decremented
\* below zero and every block holds at least two elements, whatever the
\* page size, the element sizes and the number of blocks.
THEOREM TypeCorrect == Spec => []TypeOK
<1>1. IInv => TypeOK
  BY DEF IInv
<1> QED
  BY <1>1, HeapSafe, PTL

\* The bookkeeping of the allocator is exact after every call: block list,
\* free lists, num_allocated and free_elems agree with what clients hold.
THEOREM HeapInvariant == Spec => []HeapInv
<1>1. IInv => HeapInv
  BY DEF IInv
<1> QED
  BY <1>1, HeapSafe, PTL

\* mowgli_heap_free gives memory back: of the blocks no client uses at most
\* one, empty_block, stays mapped, and a destroyed heap maps none, for every
\* number of blocks, element size and page size.
THEOREM MemoryIsReturned == Spec => []MemoryReturned
<1>1. IInv => MemoryReturned
  <2> SUFFICES ASSUME IInv PROVE MemoryReturned
    OBVIOUS
  <2> DEFINE unused == {b \in heap.mapped : Used(heap, b) = {}}
             c == heap.empty_block
  <2>1. HeapOK(heap)
    BY DEF IInv, TypeOK, HeapInv, HeapOK
  <2>2. unused \in SUBSET {c}
    BY <2>1, UnusedIsEmpty
  <2>3. IsFiniteSet({c}) /\ Cardinality({c}) = 1
    BY FS_Singleton
  <2> HIDE DEF c
  <2>4. Cardinality(unused) <= 1
    <3> HIDE DEF unused
    <3> QED
      BY <2>2, <2>3, FS_Subset
  <2> QED
    BY <2>4 DEF MemoryReturned, IInv, NothingOwned
<1> QED
  BY <1>1, HeapSafe, PTL

\* The return_if_fail exits of mowgli_heap_alloc and mowgli_heap_free that
\* would leave the mutex locked are never taken.
THEOREM MutexAlwaysReleased == Spec => []MutexReleased
<1>1. IInv => MutexReleased
  BY DEF IInv
<1> QED
  BY <1>1, HeapSafe, PTL

\* mowgli_heap_alloc hands out an element whenever it finds or maps one.
THEOREM AllocAlwaysSucceeds == Spec => AllocSucceeds
<1>1. IInv /\ [Next]_vars => [mowgli_heap_alloc => ret' # Null]_vars
  <2> SUFFICES ASSUME IInv, mowgli_heap_alloc PROVE ret' # Null
    OBVIOUS
  <2>1. ret' \in Element
    BY AllocStep
  <2> QED
    BY <2>1, HeapAssumption DEF Element
<1> QED
  BY <1>1, HeapSafe, PTL DEF Spec, AllocSucceeds

\* heap.enabled.c implements the abstract allocator HeapAbs: no element is
\* handed out while a client holds it, a free returns exactly the element
\* it names, and no call touches the elements of others.
THEOREM Refinement == Spec => ImplementsAbs
<1>1. Init => Abs!AbsInit
  <2> SUFFICES ASSUME Init PROVE Abs!AbsInit
    OBVIOUS
  <2>1. heap.used = {} /\ ret = Null
    BY NoHeapOK DEF Init, NoBlocks
  <2> QED
    BY <2>1 DEF Abs!AbsInit
<1>2. IInv /\ [Next]_vars => [Abs!AbsNext]_Abs!avars
  <2> SUFFICES ASSUME IInv, [Next]_vars PROVE [Abs!AbsNext]_Abs!avars
    OBVIOUS
  <2> USE DEF Abs!AbsNext
  <2>1. CASE \E n \in Requests, s \in ElemSizes, custom, now \in BOOLEAN :
               mowgli_heap_create(n, s, custom, now)
    <3>1. heap'.used = {} /\ ret' = Null
      BY <2>1, CreateStep
    <3> QED
      BY <3>1 DEF Abs!AbsReset
  <2>2. CASE mowgli_heap_alloc
    <3>1. ret' \in Element \ heap.used /\ heap'.used = heap.used \cup {ret'}
      BY <2>2, AllocStep
    <3> QED
      BY <3>1 DEF Abs!AbsAlloc
  <2>3. CASE \E e \in heap.used : mowgli_heap_free(e)
    <3>1. PICK e \in heap.used : heap'.used = heap.used \ {e} /\ ret' = Null
      BY <2>3, FreeStep
    <3> QED
      BY <3>1 DEF Abs!AbsFree
  <2>4. CASE mowgli_heap_destroy
    <3>1. heap'.used = {} /\ ret' = Null
      BY <2>4, DestroyStep DEF NoBlocks
    <3> QED
      BY <3>1 DEF Abs!AbsReset
  <2>5. CASE UNCHANGED vars
    BY <2>5 DEF vars, Abs!avars
  <2> QED
    BY <2>1, <2>2, <2>3, <2>4, <2>5 DEF Next
<1> QED
  BY <1>1, <1>2, HeapSafe, PTL DEF Spec, ImplementsAbs, Abs!AbsSpec
=============================================================================
