------------------------------ MODULE Pollables ------------------------------
(***************************************************************************)
(* eventloop/pollable.c over eventloop/epoll_pollops.c: the descriptors an *)
(* event loop watches.                                                     *)
(*                                                                         *)
(* epoll_wait fills an array with pointers to pollables, and the loop over *)
(* that array calls functions that may destroy any of them.  A pollable    *)
(* destroyed while the loop processes events is therefore only marked and  *)
(* queued; mowgli_eventloop_reap_pollables frees it.                       *)
(***************************************************************************)
EXTENDS Naturals, Lists

CONSTANT Pollable

Dir == {"read", "write"}

VARIABLES
  pollable,   \* the mowgli_eventloop_pollable_t structures
  registered, \* per pollable, the interest the epoll instance holds for it
  destroyed_pollable_list,
  processing_events,
  pfd         \* what is left to dispatch of the epoll_event array: <<p, dir>>

pvars == <<pollable, registered, destroyed_pollable_list, processing_events, pfd>>

FreedPollable == [state |-> "freed", func |-> {}, slot |-> {}]

PollablesInit ==
  /\ pollable = [p \in Pollable |-> FreedPollable]
  /\ registered = [p \in Pollable |-> {}]
  /\ destroyed_pollable_list = << >>
  /\ processing_events = FALSE
  /\ pfd = << >>

\* what client code may still pass to the library
Usable == {p \in Pollable : pollable[p].state = "live"}

-----------------------------------------------------------------------------
mowgli_pollable_create(p) ==
  /\ pollable[p].state = "freed"
  /\ pollable' = [pollable EXCEPT ![p].state = "live"]
  /\ UNCHANGED <<registered, destroyed_pollable_list, processing_events, pfd>>

(* mowgli_pollable_setselect: `func' is the set of directions that have a  *)
(* function, `slot' the interest the loop believes it has registered.      *)
mowgli_pollable_setselect(p, dir, set) ==
  /\ p \in Usable
  /\ LET func == IF set THEN pollable[p].func \cup {dir} ELSE pollable[p].func \ {dir}
         slot == (pollable[p].slot \cup {dir}) \cap func
     IN  /\ pollable' = [pollable EXCEPT ![p].func = func, ![p].slot = slot]
         /\ registered' = [registered EXCEPT ![p] = IF slot = pollable[p].slot
                                                    THEN @ ELSE slot]
  /\ UNCHANGED <<destroyed_pollable_list, processing_events, pfd>>

\* mowgli_epoll_eventloop_destroy: EPOLL_CTL_DEL
Unregister(p) == registered' = [registered EXCEPT ![p] = {}]

Mutant_FreeAtOnce(p) ==
  /\ pollable' = [pollable EXCEPT ![p] = FreedPollable]
  /\ UNCHANGED destroyed_pollable_list

\* "we cannot safely free a pollable from within the event loop"
FreeOrDefer(p) ==
  IF processing_events
  THEN /\ pollable' = [pollable EXCEPT ![p].state = "removed", ![p].slot = {}]
       /\ destroyed_pollable_list' = Append(destroyed_pollable_list, p)
  ELSE /\ pollable' = [pollable EXCEPT ![p] = FreedPollable]
       /\ UNCHANGED destroyed_pollable_list

mowgli_pollable_destroy(p) ==
  /\ p \in Usable
  /\ Unregister(p)
  /\ FreeOrDefer(p)
  /\ UNCHANGED <<processing_events, pfd>>

Reaped == [p \in Pollable |-> IF p \in ToSet(destroyed_pollable_list)
                              THEN FreedPollable ELSE pollable[p]]

mowgli_eventloop_reap_pollables ==
  /\ pollable' = Reaped
  /\ destroyed_pollable_list' = << >>

-----------------------------------------------------------------------------
(* What epoll_wait can report of p: the directions it is registered for,   *)
(* or EPOLLHUP/EPOLLERR, which the loop treats as both.                    *)
Reports(p) == IF registered[p] = {}
              THEN {{}}
              ELSE (SUBSET registered[p]) \cup {Dir}

\* every array epoll_wait can return: the entries of one pollable stay
\* together, and the loop tests its read bits before its write bits
Arrays ==
  {a \in SeqOf(Pollable \X Dir, 2 * Cardinality(Pollable)) :
     /\ \A i, j \in DOMAIN a : i < j /\ a[i][1] = a[j][1] =>
          j = i + 1 /\ a[i][2] = "read" /\ a[j][2] = "write"
     /\ \A p \in Pollable : {a[i][2] : i \in {k \in DOMAIN a : a[k][1] = p}} \in Reports(p)}

Mutant_CallsBack(p, dir) == dir \in pollable[p].func

\* the entry at the head of pfd leads to a call of the pollable's function
CallsBack(p, dir) == pollable[p].state # "removed" /\ dir \in pollable[p].func

-----------------------------------------------------------------------------
PollablesTypeOK ==
  /\ pollable \in [Pollable -> [state : {"freed", "live", "removed"},
                                func : SUBSET Dir, slot : SUBSET Dir]]
  /\ registered \in [Pollable -> SUBSET Dir]
  /\ destroyed_pollable_list \in Seq(Pollable)
  /\ processing_events \in BOOLEAN
  /\ pfd \in Seq(Pollable \X Dir)
=============================================================================
