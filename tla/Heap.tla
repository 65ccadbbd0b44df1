-------------------------------- MODULE Heap --------------------------------
(***************************************************************************)
(* The block allocator of core/heap.enabled.c.                             *)
(*                                                                         *)
(* A heap owns blocks of `elems' equally sized elements.  Blocks with at   *)
(* least one allocated element are on the list `blocks', those that still  *)
(* have a free element before the full ones; one entirely free block may   *)
(* be kept in `empty_block'.  Every call runs under the heap's mutex, so   *)
(* each is one action; what the model keeps of the mutex is whether a call *)
(* returned without releasing it (the return_if_fail exits do).            *)
(*                                                                         *)
(* The heap is a record, and the C functions are operators from records to *)
(* records, so that mowgli_heap_alloc and mowgli_heap_free can be written  *)
(* as the compositions they are.                                           *)
(***************************************************************************)
EXTENDS Integers, FiniteSets, Lists

CONSTANTS
  Block,        \* addresses mmap() or the allocation policy can return
  Null,
  Requests,     \* values callers pass as mowgli_heap_elems
  ElemSizes,    \* values callers pass as elem_size
  PageSize,     \* getpagesize()
  BlockHeader,  \* sizeof(mowgli_block_t)
  ElemHeader    \* sizeof(mowgli_heap_elem_header_t)

ASSUME HeapAssumption ==
  /\ IsFiniteSet(Block)
  /\ Null \notin Block \cup (Block \X Nat)
  /\ Requests \subseteq Nat
  /\ ElemSizes \subseteq Nat \ {0}
  /\ PageSize \in Nat \ {0}
  /\ BlockHeader \in Nat
  /\ ElemHeader \in Nat \ {0}

VARIABLES
  heap,     \* the mowgli_heap_t, and the blocks mapped for it
  locked,   \* a call returned with heap->mutex held
  ret       \* the last call's result

vars == <<heap, locked, ret>>

Element == Block \X Nat

-----------------------------------------------------------------------------
(* The record.  `first_free' is a block's free list; `used' are the        *)
(* elements whose header holds un.block, the ones clients hold; `mapped'   *)
(* is what the operating system has given and not got back.                *)

NoHeap(mapped) ==
  [created |-> FALSE, elems |-> 2, mapped |-> mapped,
   first_free |-> [b \in Block |-> << >>],
   num_allocated |-> [b \in Block |-> 0],
   blocks |-> << >>, empty_block |-> Null, free_elems |-> 0, used |-> {}]

Elems(h) == 1 .. h.elems

\* elements of mapped blocks that no client holds
FreeElements(h) == (h.mapped \X Elems(h)) \ h.used

-----------------------------------------------------------------------------
(* The number of elements a block gets: at least 2, and with the default   *)
(* allocator (mmap) as many as fit in the pages needed for those.          *)

Mutant_PageElems(n, size) ==
  LET pages == (BlockHeader + size * n) \div PageSize
  IN  (pages * PageSize - BlockHeader) \div size

PageElems(n, size) ==
  LET pages == (BlockHeader + size * n + PageSize - 1) \div PageSize
  IN  (pages * PageSize - BlockHeader) \div size

HeapElems(n, elem_size, custom_allocator) ==
  LET atLeast2 == IF n < 2 THEN 2 ELSE n
  IN  IF custom_allocator
      THEN atLeast2
      ELSE PageElems(atLeast2, elem_size + ElemHeader)

-----------------------------------------------------------------------------
(* mowgli_heap_expand: map block b, thread its free list (the last element *)
(* first) and keep it as the empty block.  Does nothing when there is one. *)
(* The code never sets num_allocated of the new block: 0 is what mmap,     *)
(* VirtualAlloc and the library's own allocator (calloc) fill it with, and *)
(* what it requires of an allocator that a caller supplies.                *)

Mutant_ExpandOverEmpty(h, b) ==
  [h EXCEPT !.mapped = @ \cup {b},
            !.first_free[b] = [i \in 1 .. h.elems |-> h.elems + 1 - i],
            !.num_allocated[b] = 0,
            !.empty_block = b]

mowgli_heap_expand(h, b) ==
  IF h.empty_block # Null
  THEN h
  ELSE [h EXCEPT !.mapped = @ \cup {b},
                 !.first_free[b] = [i \in 1 .. h.elems |-> h.elems + 1 - i],
                 !.num_allocated[b] = 0,
                 !.empty_block = b,
                 !.free_elems = @ + h.elems]

(* mowgli_heap_shrink: unmap block b, wherever it is.                      *)

mowgli_heap_shrink(h, b) ==
  [h EXCEPT !.mapped = @ \ {b},
            !.empty_block = IF b = @ THEN Null ELSE @,
            !.blocks = IF b = h.empty_block THEN @ ELSE Unlink(@, b),
            !.free_elems = @ - h.elems]

-----------------------------------------------------------------------------
(* mowgli_heap_alloc, once there is a free element.                        *)

\* "try a partially used block before using a fully free block"
AllocBlock(h) ==
  IF h.blocks # << >> /\ h.first_free[Head(h.blocks)] # << >>
  THEN Head(h.blocks)
  ELSE h.empty_block

\* pull the first free element off block b, and relink b if it was empty
\* or has become full
Mutant_TakeNoRequeue(h, b) ==
  LET e  == <<b, Head(h.first_free[b])>>
      h1 == [h EXCEPT !.first_free[b] = Tail(@),
                      !.used = @ \cup {e},
                      !.free_elems = @ - 1,
                      !.num_allocated[b] = @ + 1]
  IN  IF h1.num_allocated[b] = 1
      THEN [h1 EXCEPT !.empty_block = Null, !.blocks = <<b>> \o @]
      ELSE h1

Mutant_TakeNoPop(h, b) ==
  LET h1 == [h EXCEPT !.used = @ \cup {<<b, Head(h.first_free[b])>>},
                      !.free_elems = @ - 1,
                      !.num_allocated[b] = @ + 1]
  IN  IF h1.num_allocated[b] = 1
      THEN [h1 EXCEPT !.empty_block = Null, !.blocks = <<b>> \o @]
      ELSE h1

TakeFrom(h, b) ==
  LET e  == <<b, Head(h.first_free[b])>>
      h1 == [h EXCEPT !.first_free[b] = Tail(@),
                      !.used = @ \cup {e},
                      !.free_elems = @ - 1,
                      !.num_allocated[b] = @ + 1]
  IN  IF h1.num_allocated[b] = 1
      THEN [h1 EXCEPT !.empty_block = Null, !.blocks = <<b>> \o @]
      ELSE IF h1.first_free[b] = << >>
           THEN [h1 EXCEPT !.blocks = Append(Unlink(@, b), b)]
           ELSE h1

(* mowgli_heap_free of element e, past its return_if_fail checks.          *)

PutBack(h, e) ==
  [h EXCEPT !.first_free[e[1]] = <<e[2]>> \o @,
            !.used = @ \ {e},
            !.free_elems = @ + 1,
            !.num_allocated[e[1]] = @ - 1]

Mutant_RelinkNoShrink(h, b) ==
  IF h.num_allocated[b] = 0
  THEN [h EXCEPT !.blocks = Unlink(@, b), !.empty_block = b]
  ELSE IF h.num_allocated[b] = h.elems - 1
       THEN [h EXCEPT !.blocks = <<b>> \o Unlink(@, b)]
       ELSE h

\* an emptied block becomes the empty block, replacing the one kept before;
\* a block that was full moves to the head of the list
Relink(h, b) ==
  LET h1 == IF h.empty_block # Null
            THEN mowgli_heap_shrink(h, h.empty_block)
            ELSE h
  IN  IF h.num_allocated[b] = 0
      THEN [h1 EXCEPT !.blocks = Unlink(@, b), !.empty_block = b]
      ELSE IF h.num_allocated[b] = h.elems - 1
           THEN [h EXCEPT !.blocks = <<b>> \o Unlink(@, b)]
           ELSE h

-----------------------------------------------------------------------------
Init ==
  /\ heap = NoHeap({})
  /\ locked = FALSE
  /\ ret = Null

(* mowgli_heap_create_full; BH_NOW maps the first block at once.           *)
mowgli_heap_create(n, elem_size, custom_allocator, now) ==
  /\ ~heap.created
  /\ LET h == [NoHeap(heap.mapped) EXCEPT
                 !.created = TRUE,
                 !.elems = HeapElems(n, elem_size, custom_allocator)]
     IN  IF now
         THEN \E b \in Block \ heap.mapped : heap' = mowgli_heap_expand(h, b)
         ELSE heap' = h
  /\ ret' = Null
  /\ UNCHANGED locked

(* Allocates from h; the two return_val_if_fail exits leave the mutex      *)
(* locked.                                                                 *)
AllocFrom(h) ==
  LET b == AllocBlock(h)
  IN  IF h.free_elems = 0
      THEN /\ heap' = h
           /\ ret' = Null
           /\ UNCHANGED locked
      ELSE IF b = Null \/ h.first_free[b] = << >>
           THEN /\ heap' = h
                /\ ret' = Null
                /\ locked' = TRUE
           ELSE /\ heap' = TakeFrom(h, b)
                /\ ret' = <<b, Head(h.first_free[b])>>
                /\ UNCHANGED locked

(* The whole call: a heap with no free element expands first.  When every  *)
(* address of Block is mapped the model stops expanding: that is a bound.  *)
mowgli_heap_alloc ==
  /\ heap.created
  /\ ~locked
  /\ \/ heap.free_elems # 0 /\ AllocFrom(heap)
     \/ /\ heap.free_elems = 0
        /\ \E b \in Block \ heap.mapped : AllocFrom(mowgli_heap_expand(heap, b))

(* Clients free elements they hold.                                        *)
mowgli_heap_free(e) ==
  /\ heap.created
  /\ ~locked
  /\ e \in heap.used
  /\ IF heap.num_allocated[e[1]] > 0
     THEN /\ heap' = Relink(PutBack(heap, e), e[1])
          /\ UNCHANGED locked
     ELSE /\ locked' = TRUE
          /\ UNCHANGED heap
  /\ ret' = Null

(* Shrinks every block of the list, then the empty one.                    *)
mowgli_heap_destroy ==
  /\ heap.created
  /\ heap' = NoHeap(heap.mapped \ (ToSet(heap.blocks) \cup {heap.empty_block}))
  /\ ret' = Null
  /\ UNCHANGED locked

Next ==
  \/ \E n \in Requests, s \in ElemSizes, custom, now \in BOOLEAN :
       mowgli_heap_create(n, s, custom, now)
  \/ mowgli_heap_alloc
  \/ \E e \in heap.used : mowgli_heap_free(e)
  \/ mowgli_heap_destroy

Spec == Init /\ [][Next]_vars

-----------------------------------------------------------------------------
(* Properties.                                                             *)

HeapType(h) ==
  /\ h \in [created : BOOLEAN, elems : Nat, mapped : SUBSET Block,
            first_free : [Block -> Seq(Nat)], num_allocated : [Block -> Nat],
            blocks : Seq(Block), empty_block : Block \cup {Null},
            free_elems : Nat, used : SUBSET Element]
  /\ h.elems >= 2

\* The fields of the heap keep their C types: in particular no counter wraps
\* below 0, and blocks hold two elements at least ("this avoids some silly
\* special cases").
TypeOK ==
  /\ HeapType(heap)
  /\ locked \in BOOLEAN
  /\ ret \in Element \cup {Null}

Used(h, b) == {i \in Elems(h) : <<b, i>> \in h.used}

\* Every mapped block is either on the list, once, or the empty block.
BlocksPartitioned(h) ==
  /\ h.mapped = ToSet(h.blocks) \cup ({h.empty_block} \ {Null})
  /\ h.empty_block \notin ToSet(h.blocks)
  /\ \A i, j \in DOMAIN h.blocks : h.blocks[i] = h.blocks[j] => i = j

\* A block's free list holds exactly its unallocated elements, each once,
\* and num_allocated counts the others.
FreeListsExact(h) ==
  \A b \in h.mapped :
    /\ ToSet(h.first_free[b]) = Elems(h) \ Used(h, b)
    /\ Len(h.first_free[b]) = Cardinality(Elems(h) \ Used(h, b))
    /\ \A i, j \in DOMAIN h.first_free[b] :
         h.first_free[b][i] = h.first_free[b][j] => i = j
    /\ h.num_allocated[b] + Len(h.first_free[b]) = h.elems

\* No client holds an element of an unmapped block.
UsedMapped(h) == h.used \subseteq h.mapped \X Elems(h)

\* "list of non-empty blocks" / "a single entirely free block, or NULL"
EmptyOffList(h) ==
  /\ h.empty_block # Null => h.num_allocated[h.empty_block] = 0
  /\ \A b \in ToSet(h.blocks) : h.num_allocated[b] > 0

\* Full blocks come after the ones that still have a free element.
PartialFirst(h) ==
  \A i, j \in DOMAIN h.blocks :
    i < j /\ h.first_free[h.blocks[i]] = << >> => h.first_free[h.blocks[j]] = << >>

\* free_elems is the number of free elements over all mapped blocks.
FreeElemsExact(h) == h.free_elems = Cardinality(FreeElements(h))

BlockInv(h) ==
  /\ BlocksPartitioned(h)
  /\ FreeListsExact(h)
  /\ UsedMapped(h)
  /\ EmptyOffList(h)
  /\ PartialFirst(h)
  /\ FreeElemsExact(h)

\* The bookkeeping of the heap is exact: its list, its free lists and both
\* of its counters agree with the elements clients hold.
HeapInv == BlockInv(heap)

\* No call returns with the heap's mutex held: the checks "due to above
\* check" in mowgli_heap_alloc and on num_allocated in mowgli_heap_free
\* never fail for clients that free what they hold.
MutexReleased == ~locked

\* A heap never keeps more than one block no client uses, and keeps none
\* once destroyed: mowgli_heap_free gives memory back.
MemoryReturned ==
  /\ Cardinality({b \in heap.mapped : Used(heap, b) = {}}) <= 1
  /\ ~heap.created => heap.mapped = {}

\* Allocation succeeds whenever it expands or finds a free element: only a
\* call that cannot map a block leaves its caller without an element.
AllocSucceeds == [][mowgli_heap_alloc => ret' # Null]_vars

Abs == INSTANCE HeapAbs WITH live <- heap.used

\* The heap implements the abstract allocator: an element is never handed
\* out while a client still holds it.
ImplementsAbs == Abs!AbsSpec
=============================================================================
