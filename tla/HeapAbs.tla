------------------------------ MODULE HeapAbs ------------------------------
(***************************************************************************)
(* What mowgli_heap_alloc and mowgli_heap_free promise a client, with no   *)
(* blocks, free lists or counters: an allocation returns an element nobody *)
(* holds, a free gives back exactly the element named, and destroying the  *)
(* heap takes every element away.                                          *)
(***************************************************************************)

CONSTANTS
  Element,   \* every address the heap can ever hand out
  Null

VARIABLES
  live,      \* the elements clients hold
  ret        \* what the last call returned (Null for a void function)

avars == <<live, ret>>

AbsInit ==
  /\ live = {}
  /\ ret = Null

AbsAlloc ==
  /\ ret' \in Element \ live
  /\ live' = live \cup {ret'}

AbsFree ==
  \E e \in live :
    /\ live' = live \ {e}
    /\ ret' = Null

\* mowgli_heap_create and mowgli_heap_destroy
AbsReset ==
  /\ live' = {}
  /\ ret' = Null

AbsNext == AbsAlloc \/ AbsFree \/ AbsReset

AbsSpec == AbsInit /\ [][AbsNext]_avars
=============================================================================
