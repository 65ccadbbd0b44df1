-------------------------------- MODULE Index --------------------------------
(***************************************************************************)
(* container/index.c: growing arrays of pointers.  IxBase stands for the   *)
(* first size (64 slots) and IxPointer for the bytes of a pointer: growing *)
(* copies oldsize BYTES of the old array, oldsize / IxPointer slots of it, *)
(* and the new array is otherwise NULL.  `ixseq' is the sequence the       *)
(* callers have in mind, which no function reads; once entries may be lost *)
(* it is what is there.                                                    *)
(***************************************************************************)
EXTENDS Integers, Sequences, SequencesExt

CONSTANTS
  Ix,           \* the indexes
  IxValue,      \* what is stored, positive integers
  IxBase, IxPointer,
  IxMaxCount    \* bound: entries in an index

ASSUME IndexAssumption == {IxBase, IxPointer, IxMaxCount} \subseteq Nat \ {0}

VARIABLES
  index, ixseq,
  ixgrown      \* some index has outgrown its first array

indexVars == <<index, ixseq, ixgrown>>

IxNull == 0

mowgli_index_create == [data |-> << >>, count |-> 0]

IxSize(x) == Len(x.data)

\* the first of have, 2 * have, 4 * have, ... that is at least want
IxDouble(have, want) ==
  LET sizes[k \in Nat] == IF k = 0 THEN have ELSE 2 * sizes[k - 1]
  IN  sizes[Min({k \in 0..want : sizes[k] >= want})]

\* slots are numbered from 1 here
mowgli_index_allocate(x, size) ==
  LET old == IF IxSize(x) = 0 THEN IxBase ELSE IxSize(x)
  IN  IF size <= IxSize(x) THEN x
      ELSE [x EXCEPT !.data = [i \in 1..IxDouble(old, size) |->
               IF i <= IxSize(x) /\ i <= old \div IxPointer THEN x.data[i] ELSE IxNull]]

\* memmove within an array: n slots from slot `from' to slot `to', from 0
IxMove(data, from, to, n) ==
  [i \in DOMAIN data |-> IF i \in (to + 1)..(to + n) THEN data[i - to + from] ELSE data[i]]

IxPut(data, at, s) ==
  [i \in DOMAIN data |-> IF i \in (at + 1)..(at + Len(s)) THEN s[i - at] ELSE data[i]]

\* moves one slot too few
Mutant_MakeRoom(x, at, n) ==
  LET y == mowgli_index_allocate(x, x.count + n)
  IN  [y EXCEPT !.data = IF at < x.count - 1 THEN IxMove(@, at, at + n, x.count - at) ELSE @,
                !.count = @ + n]

make_room(x, at, n) ==
  LET y == mowgli_index_allocate(x, x.count + n)
  IN  [y EXCEPT !.data = IF at < x.count THEN IxMove(@, at, at + n, x.count - at) ELSE @,
                !.count = @ + n]

\* the values s inserted at slot `at'
CopyInsert(x, at, s) ==
  LET y == make_room(x, at, Len(s)) IN [y EXCEPT !.data = IxPut(@, at, s)]

IxSpliced(q, at, s) == SubSeq(q, 1, at) \o s \o SubSeq(q, at + 1, Len(q))

IxPart(x, from, n) == SubSeq(x.data, from + 1, from + n)

IndexInit ==
  /\ index = [x \in Ix |-> mowgli_index_create]
  /\ ixseq = [x \in Ix |-> << >>]
  /\ ixgrown = FALSE

IxUpdate(x, v, q) ==
  /\ index' = [index EXCEPT ![x] = v]
  /\ ixgrown' = (ixgrown \/ IxSize(v) > IxBase)
  /\ ixseq' = [ixseq EXCEPT ![x] = IF ixgrown' THEN IxPart(v, 0, v.count) ELSE q]

IxSpace(x, n) == index[x].count + n <= IxMaxCount

\* insert, and append at the end
mowgli_index_insert(x, at, v) ==
  /\ IxSpace(x, 1)
  /\ IxUpdate(x, CopyInsert(index[x], at, <<v>>), IxSpliced(ixseq[x], at, <<v>>))

mowgli_index_set(x, at, v) ==
  /\ at < index[x].count
  /\ IxUpdate(x, [index[x] EXCEPT !.data[at + 1] = v], [ixseq[x] EXCEPT ![at + 1] = v])

\* memcpy copies slots that do not overlap
IxApart(source, from, target, to, n) ==
  source # target \/ from + n <= to \/ to + n <= from

\* copy_insert and, with the whole of the other index, merge_insert; at the
\* end, copy_append and merge_append.  An index copied into itself is read
\* when room was made: what is behind the place has moved n slots up, so the
\* values copied are those n slots before.
mowgli_index_copy_insert(source, from, target, to, n) ==
  /\ from + n <= index[source].count /\ IxSpace(target, n)
  /\ IxApart(source, from, target, to, n)
  /\ LET x  == IF source = target THEN make_room(index[target], to, n) ELSE index[source]
         at == IF source = target /\ from > to THEN from - n ELSE from
     IN  IxUpdate(target, CopyInsert(index[target], to, IxPart(x, from, n)),
                  IxSpliced(ixseq[target], to, SubSeq(ixseq[source], at + 1, at + n)))

mowgli_index_copy_set(source, from, target, to, n) ==
  /\ from + n <= index[source].count /\ to + n <= index[target].count
  /\ IxApart(source, from, target, to, n)
  /\ IxUpdate(target,
              [index[target] EXCEPT !.data = IxPut(@, to, IxPart(index[source], from, n))],
              IxPut(ixseq[target], to, SubSeq(ixseq[source], from + 1, from + n)))

mowgli_index_move(x, from, to, n) ==
  /\ from + n <= index[x].count /\ to + n <= index[x].count
  /\ IxUpdate(x, [index[x] EXCEPT !.data = IxMove(@, from, to, n)],
              IxMove(ixseq[x], from, to, n))

mowgli_index_delete(x, at, n) ==
  /\ at + n <= index[x].count
  /\ IxUpdate(x,
              [index[x] EXCEPT !.data = IxMove(@, at + n, at, index[x].count - n - at),
                               !.count = @ - n],
              SubSeq(ixseq[x], 1, at) \o SubSeq(ixseq[x], at + n + 1, Len(ixseq[x])))

\* qsort: p is the order it finds, one in which no value is less than one
\* before it
mowgli_index_sort(x) ==
  \E p \in [1..index[x].count -> 1..index[x].count] :
    LET Ordered(s) == [i \in 1..index[x].count |-> s[p[i]]]
        s == Ordered(index[x].data)
    IN  /\ IsInjective(p)
        /\ \A i, j \in DOMAIN s : i < j => ~ (s[j] < s[i])
        /\ IxUpdate(x, [index[x] EXCEPT !.data = IxPut(@, 0, s)], Ordered(ixseq[x]))

mowgli_index_destroy(x) == IxUpdate(x, mowgli_index_create, << >>)

IndexNext ==
  \E x \in Ix :
    \/ \E at \in 0..index[x].count, v \in IxValue :
         mowgli_index_insert(x, at, v) \/ mowgli_index_set(x, at, v)
    \/ \E from, to \in 0..index[x].count, n \in 1..IxMaxCount :
         mowgli_index_move(x, from, to, n)
    \/ \E at \in 0..index[x].count, n \in 1..IxMaxCount : mowgli_index_delete(x, at, n)
    \/ \E y \in Ix : \E from \in 0..index[x].count, to \in 0..index[y].count :
         \E n \in 1..IxMaxCount : \/ mowgli_index_copy_insert(x, from, y, to, n)
                                 \/ mowgli_index_copy_set(x, from, y, to, n)
    \/ mowgli_index_sort(x)
    \/ mowgli_index_destroy(x)

IndexSpec == IndexInit /\ [][IndexNext]_indexVars

-----------------------------------------------------------------------------
\* As long as no index has outgrown its first array, each holds the values
\* its callers put there, through insertions, deletions, moves, copies and
\* merges; and its array is always as long as what they count.
IndexExact ==
  \A x \in Ix :
    /\ index[x].count = Len(ixseq[x]) /\ index[x].count <= IxSize(index[x])
    /\ ~ixgrown => IxPart(index[x], 0, index[x].count) = ixseq[x]
=============================================================================
