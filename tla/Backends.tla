------------------------------ MODULE Backends ------------------------------
(***************************************************************************)
(* The backends of the event loop other than epoll, which module Pollables *)
(* has: what poll, select, kqueue, event ports, QNX dispatch and Winsock   *)
(* each remember of a pollable, and how poll, select, kqueue and ports     *)
(* walk over what the system reported while the functions they call        *)
(* create, change and destroy pollables.                                   *)
(*                                                                         *)
(* poll and select keep the pollables that have a function on a list whose *)
(* nodes are inside the pollables; mowgli_node_delete leaves the pointers  *)
(* of the deleted node as they were.  The other backends keep nothing but  *)
(* the registration with the system, which is external, and a slot.        *)
(*                                                                         *)
(* Every pollable has a descriptor of its own, which outlives it.  What    *)
(* the client keeps to (Careful): it destroys a pollable while it has a    *)
(* function, and with kqueue while it has only the read function.  The     *)
(* walks of QNX and Winsock are not modelled: dispatch_handler is never    *)
(* called in the one, and the handle array of the other always has handles *)
(* that are not valid.                                                     *)
(***************************************************************************)
EXTENDS Naturals, Sequences, FiniteSets, SequencesExt

CONSTANTS
  BkPollable,  \* the pollables
  BkNull,
  BkKind,      \* the backends
  BkSlots      \* Winsock: pfd_size - 1, the slots in use start at 1

ASSUME BackendsAssumption ==
  /\ IsFiniteSet(BkPollable)
  /\ BkNull \notin BkPollable
  /\ BkKind \subseteq {"poll", "select", "kqueue", "ports", "qnx", "winsock"}
  /\ BkSlots \in Nat /\ BkSlots >= Cardinality(BkPollable)

VARIABLES
  bkind,    \* the backend of the loop
  bpoll,    \* the pollables: state, functions, slot, and slot as event flags
  blist,    \* pollable_list: head, tail, and next and prev of each node
  bkernel,  \* the registrations the system has: <<pollable, direction>>
  bslots,   \* Winsock: pollables[], and last_slot
  bturn     \* the walk: where it is, n, tn, and what was reported

bkVars == <<bkind, bpoll, blist, bkernel, bslots, bturn>>

BkDir == {"read", "write"}
BkListed == bkind \in {"poll", "select"}

NoTurn == [at |-> "idle", n |-> BkNull, tn |-> BkNull, dir |-> "read",
           revents |-> << >>, array |-> << >>]

BkFreed == [state |-> "freed", func |-> {}, slot |-> 0, flags |-> {}]

BkInit ==
  /\ bkind \in BkKind
  /\ bpoll = [p \in BkPollable |-> BkFreed]
  /\ blist = [head |-> BkNull, tail |-> BkNull,
              next |-> [p \in BkPollable |-> BkNull], prev |-> [p \in BkPollable |-> BkNull]]
  /\ bkernel = {}
  /\ bslots = [used |-> [s \in 1 .. BkSlots |-> BkNull], last |-> 0]
  /\ bturn = NoTurn

-----------------------------------------------------------------------------
(* pollable_list of poll and select: container/list.c on embedded nodes.   *)

NodeAdd(l, p) ==
  LET m == [l EXCEPT !.next[p] = BkNull, !.prev[p] = l.tail, !.tail = p]
  IN  IF l.head = BkNull THEN [m EXCEPT !.head = p, !.prev[p] = BkNull]
                         ELSE [m EXCEPT !.next[l.tail] = p]

NodeDelete(l, p) ==
  LET a == IF l.prev[p] = BkNull THEN [l EXCEPT !.head = l.next[p]]
                                 ELSE [l EXCEPT !.next[l.prev[p]] = l.next[p]]
  IN  IF l.next[p] = BkNull THEN [a EXCEPT !.tail = l.prev[p]]
                            ELSE [a EXCEPT !.prev[l.next[p]] = l.prev[p]]

Mutant_Relisted(p, func) == IF func # {} THEN NodeAdd(blist, p) ELSE NodeDelete(blist, p)

\* setselect takes the node off the list and puts it at the end
Relisted(p, func) ==
  LET l == IF bpoll[p].func # {} THEN NodeDelete(blist, p) ELSE blist
  IN  IF func # {} THEN NodeAdd(l, p) ELSE l

-----------------------------------------------------------------------------
(* setselect.                                                              *)

Registrations(p) == {p} \X BkDir

\* poll and select have the same function
PlistSetselect(p, func) ==
  /\ blist' = Relisted(p, func)
  /\ bpoll' = [bpoll EXCEPT ![p].func = func]
  /\ UNCHANGED <<bkernel, bslots>>

mowgli_poll_eventloop_setselect(p, func) == bkind = "poll" /\ PlistSetselect(p, func)

mowgli_select_eventloop_setselect(p, func) == bkind = "select" /\ PlistSetselect(p, func)

\* EV_ADD or EV_DELETE of one filter, when there was a function and now is
\* none or the other way round
mowgli_kqueue_eventloop_setselect(p, func) ==
  /\ bkind = "kqueue"
  /\ bkernel' = (bkernel \ ({p} \X (bpoll[p].func \ func)))
                \cup ({p} \X (func \ bpoll[p].func))
  /\ bpoll' = [bpoll EXCEPT ![p].func = func]
  /\ UNCHANGED <<blist, bslots>>

\* the flags follow the functions
FlagsSetselect(p, func) ==
  /\ bpoll' = [bpoll EXCEPT ![p].func = func, ![p].flags = func]
  /\ bkernel' = IF bpoll[p].flags = {} /\ func = {}
                THEN bkernel
                ELSE (bkernel \ Registrations(p)) \cup ({p} \X func)
  /\ UNCHANGED <<blist, bslots>>

\* port_associate also renews an association that an event has used up
mowgli_ports_eventloop_setselect(p, func) == bkind = "ports" /\ FlagsSetselect(p, func)

\* select_detach, and select_attach anew
mowgli_qnx_eventloop_setselect(p, func) == bkind = "qnx" /\ FlagsSetselect(p, func)

FreeSlots == {s \in 1 .. BkSlots : bslots.used[s] = BkNull}

\* the first free slot from last_slot on, or else from the beginning
mowgli_winsock_eventloop_find_slot ==
  LET after == {s \in FreeSlots : s >= bslots.last}
      from == IF after = {} THEN FreeSlots ELSE after
  IN  CHOOSE s \in from : \A t \in from : s <= t

WinsockRelease(p) ==
  bslots' = IF bpoll[p].slot = 0 THEN bslots ELSE [bslots EXCEPT !.used[bpoll[p].slot] = BkNull]

\* FD_CLOSE is a flag of both directions: clearing one clears it for the
\* other, which does not matter to what is registered of the rest
mowgli_winsock_eventloop_setselect(p, func) ==
  /\ bkind = "winsock"
  /\ bkernel' = (bkernel \ Registrations(p)) \cup ({p} \X func)
  /\ IF func = {}
     THEN /\ WinsockRelease(p)
          /\ bpoll' = [bpoll EXCEPT ![p].func = func, ![p].slot = 0, ![p].flags = {}]
     ELSE LET s == IF bpoll[p].slot # 0 THEN bpoll[p].slot ELSE mowgli_winsock_eventloop_find_slot
          IN  /\ bslots' = IF bpoll[p].slot # 0 THEN bslots
                           ELSE [used |-> [bslots.used EXCEPT ![s] = p], last |-> s]
              /\ bpoll' = [bpoll EXCEPT ![p].func = func, ![p].slot = s, ![p].flags = func]
  /\ UNCHANGED blist

-----------------------------------------------------------------------------
(* destroy.                                                                *)

PlistDestroy(p) == blist' = NodeDelete(blist, p) /\ UNCHANGED <<bkernel, bslots>>

Unregister(p, registrations) == bkernel' = bkernel \ registrations /\ UNCHANGED blist

mowgli_poll_eventloop_destroy(p) == bkind = "poll" /\ PlistDestroy(p)

mowgli_select_eventloop_destroy(p) == bkind = "select" /\ PlistDestroy(p)

\* EVFILT_READ | EVFILT_WRITE is (-1) | (-2) = -1, EVFILT_READ
mowgli_kqueue_eventloop_destroy(p) ==
  bkind = "kqueue" /\ Unregister(p, { <<p, "read">> }) /\ UNCHANGED bslots

mowgli_ports_eventloop_destroy(p) ==
  bkind = "ports" /\ Unregister(p, Registrations(p)) /\ UNCHANGED bslots

mowgli_qnx_eventloop_destroy(p) ==
  bkind = "qnx" /\ Unregister(p, Registrations(p)) /\ UNCHANGED bslots

mowgli_winsock_eventloop_destroy(p) ==
  bkind = "winsock" /\ Unregister(p, Registrations(p)) /\ WinsockRelease(p)

Mutant_FreeNow(p) == bpoll' = [bpoll EXCEPT ![p] = BkFreed]

\* mowgli_pollable_destroy: freed at once, or after the turn
BkFreeOrDefer(p) ==
  bpoll' = [bpoll EXCEPT ![p] = IF bturn.at = "idle" THEN BkFreed
                                ELSE [@ EXCEPT !.state = "removed"]]

Careful(p) == bpoll[p].func # {} /\ (bkind = "kqueue" => "write" \notin bpoll[p].func)

-----------------------------------------------------------------------------
(* What client code does, between turns and in the functions called.       *)

BkClient == bturn.at \in {"idle", "call"}

BkCreate(p) ==
  /\ BkClient
  /\ bpoll[p].state = "freed"
  /\ bpoll' = [bpoll EXCEPT ![p].state = "live"]
  /\ blist' = [blist EXCEPT !.next[p] = BkNull, !.prev[p] = BkNull]
  /\ UNCHANGED <<bkind, bkernel, bslots, bturn>>

BkSetselect(p, dir, set) ==
  /\ BkClient
  /\ bpoll[p].state = "live"
  /\ LET func == IF set THEN bpoll[p].func \cup {dir} ELSE bpoll[p].func \ {dir}
     IN  \/ mowgli_poll_eventloop_setselect(p, func)
         \/ mowgli_select_eventloop_setselect(p, func)
         \/ mowgli_kqueue_eventloop_setselect(p, func)
         \/ mowgli_ports_eventloop_setselect(p, func)
         \/ mowgli_qnx_eventloop_setselect(p, func)
         \/ mowgli_winsock_eventloop_setselect(p, func)
  /\ UNCHANGED <<bkind, bturn>>

BkDestroy(p) ==
  /\ BkClient
  /\ bpoll[p].state = "live"
  /\ Careful(p)
  /\ \/ mowgli_poll_eventloop_destroy(p)
     \/ mowgli_select_eventloop_destroy(p)
     \/ mowgli_kqueue_eventloop_destroy(p)
     \/ mowgli_ports_eventloop_destroy(p)
     \/ mowgli_qnx_eventloop_destroy(p)
     \/ mowgli_winsock_eventloop_destroy(p)
  /\ BkFreeOrDefer(p)
  /\ UNCHANGED <<bkind, bturn>>

-----------------------------------------------------------------------------
(* The walk.                                                               *)

\* the list from p on, or << >>; node[k] is BkNull or k nodes further, and a
\* chain longer than the list is a cycle
Chain(l, p) ==
  LET node[k \in 0 .. Cardinality(BkPollable)] ==
        IF k = 0 THEN p
        ELSE IF node[k - 1] = BkNull THEN BkNull ELSE l.next[node[k - 1]]
  IN  [i \in 1 .. Cardinality({k \in DOMAIN node : node[k] # BkNull}) |-> node[i - 1]]

\* what the system may report of a descriptor watched for dirs: some of
\* them, or an error or hang-up, which counts as both
BkReports(dirs) == IF dirs = {} THEN {{}} ELSE (SUBSET dirs) \cup {BkDir}

\* update_poll_fds: the slots, counted from 0, of the pollables on the list
update_poll_fds ==
  LET l == Chain(blist, blist.head)
  IN  [p \in BkPollable |-> IF \E i \in DOMAIN l : l[i] = p
                            THEN [bpoll[p] EXCEPT !.slot = (CHOOSE i \in DOMAIN l : l[i] = p) - 1]
                            ELSE bpoll[p]]

\* the system reports r, part of what was asked for, and the walk begins
PlistTurn(r, asked) ==
  /\ \A i \in DOMAIN r : r[i] \in BkReports(asked[i])
  /\ \E i \in DOMAIN r : r[i] # {}
  /\ bturn' = [NoTurn EXCEPT !.at = "walk", !.n = blist.head,
                             !.tn = blist.next[blist.head], !.revents = r]
  /\ UNCHANGED <<bkind, blist, bkernel, bslots>>

\* revents by slot
mowgli_poll_eventloop_select ==
  /\ bturn.at = "idle" /\ bkind = "poll" /\ blist.head # BkNull
  /\ LET l == Chain(blist, blist.head)
         asked == [i \in 0 .. Len(l) - 1 |-> bpoll[l[i + 1]].func]
     IN  \E r \in [0 .. Len(l) - 1 -> SUBSET BkDir] : PlistTurn(r, asked)
  /\ bpoll' = update_poll_fds

\* rfds, wfds and efds by descriptor
mowgli_select_eventloop_select ==
  /\ bturn.at = "idle" /\ bkind = "select" /\ blist.head # BkNull
  /\ LET l == ToSet(Chain(blist, blist.head))
         asked == [p \in BkPollable |-> IF p \in l THEN bpoll[p].func ELSE {}]
     IN  \E r \in [BkPollable -> SUBSET BkDir] : PlistTurn(r, asked)
  /\ UNCHANGED bpoll

\* pollfds[slot].revents, or FD_ISSET
Reported(p) ==
  LET i == IF bkind = "poll" THEN bpoll[p].slot ELSE p
  IN  IF i \in DOMAIN bturn.revents THEN bturn.revents[i] ELSE {}

Calls(p, dir) == bpoll[p].state # "removed" /\ dir \in bpoll[p].func

\* MOWGLI_ITER_FOREACH_SAFE, after both directions of n were tested
PlistNext ==
  IF bturn.dir = "read" THEN [bturn EXCEPT !.at = "walk", !.dir = "write"]
  ELSE [bturn EXCEPT !.at = "walk", !.dir = "read", !.n = bturn.tn,
                     !.tn = IF bturn.tn = BkNull THEN BkNull ELSE blist.next[bturn.tn]]

PlistStep ==
  /\ bturn.at = "walk" /\ BkListed
  /\ bturn.n # BkNull
  /\ bturn' = IF bturn.dir \in Reported(bturn.n) /\ Calls(bturn.n, bturn.dir)
              THEN [bturn EXCEPT !.at = "call"]
              ELSE PlistNext
  /\ UNCHANGED <<bkind, bpoll, blist, bkernel, bslots>>

\* what is registered of p
Asked(p) == {d \in BkDir : <<p, d>> \in bkernel}

\* the entries for p in the array, reported for the directions in r
Entries(p, r) ==
  (IF "read" \in r THEN << <<p, "read">> >> ELSE << >>)
    \o (IF "write" \in r THEN << <<p, "write">> >> ELSE << >>)

ArrayTurn(array) ==
  /\ array # << >>
  /\ bturn' = [NoTurn EXCEPT !.at = "walk", !.array = array]
  /\ UNCHANGED <<bkind, bpoll, blist, bslots>>

\* kevent fills an array with what is registered, of up to two pollables
mowgli_kqueue_eventloop_select ==
  /\ bturn.at = "idle" /\ bkind = "kqueue"
  /\ \E p, q \in BkPollable : \E r \in SUBSET Asked(p), s \in SUBSET Asked(q) :
       /\ p = q => s = {}
       /\ ArrayTurn(Entries(p, r) \o Entries(q, s))
  /\ UNCHANGED bkernel

\* port_getn also reports errors, and an event uses up the association;
\* nget is 1, but more events may be there
mowgli_ports_eventloop_select ==
  /\ bturn.at = "idle" /\ bkind = "ports"
  /\ \E p, q \in BkPollable : \E r \in BkReports(Asked(p)), s \in BkReports(Asked(q)) :
       /\ p = q => s = {}
       /\ ArrayTurn(Entries(p, r) \o Entries(q, s))
       /\ bkernel' = bkernel \ ((IF r = {} THEN {} ELSE Registrations(p))
                                 \cup (IF s = {} THEN {} ELSE Registrations(q)))

ArrayStep ==
  /\ bturn.at = "walk" /\ ~BkListed
  /\ bturn.array # << >>
  /\ bturn' = IF Calls(bturn.array[1][1], bturn.array[1][2])
              THEN [bturn EXCEPT !.at = "call"]
              ELSE [bturn EXCEPT !.array = Tail(@)]
  /\ UNCHANGED <<bkind, bpoll, blist, bkernel, bslots>>

CallReturns ==
  /\ bturn.at = "call"
  /\ bturn' = IF BkListed THEN PlistNext ELSE [bturn EXCEPT !.at = "walk", !.array = Tail(@)]
  /\ UNCHANGED <<bkind, bpoll, blist, bkernel, bslots>>

\* mowgli_eventloop_reap_pollables
BkReap ==
  /\ bturn.at = "walk"
  /\ bturn.n = BkNull /\ bturn.array = << >>
  /\ bpoll' = [p \in BkPollable |-> IF bpoll[p].state = "removed" THEN BkFreed ELSE bpoll[p]]
  /\ bturn' = NoTurn
  /\ UNCHANGED <<bkind, blist, bkernel, bslots>>

-----------------------------------------------------------------------------
BkNext ==
  \/ \E p \in BkPollable :
       \/ BkCreate(p) \/ BkDestroy(p)
       \/ \E dir \in BkDir, set \in BOOLEAN : BkSetselect(p, dir, set)
  \/ mowgli_poll_eventloop_select \/ mowgli_select_eventloop_select
  \/ mowgli_kqueue_eventloop_select \/ mowgli_ports_eventloop_select
  \/ PlistStep \/ ArrayStep \/ CallReturns \/ BkReap

BkSpec == BkInit /\ [][BkNext]_bkVars

-----------------------------------------------------------------------------
(* Properties.                                                             *)

\* the directions the backend would wait for on p
Watched(p) ==
  IF BkListed
  THEN IF \E i \in DOMAIN Chain(blist, blist.head) : Chain(blist, blist.head)[i] = p
       THEN bpoll[p].func ELSE {}
  ELSE {d \in BkDir : <<p, d>> \in bkernel}

\* Each backend waits for a pollable in just the directions it has functions
\* for, and for no pollable that was destroyed, whatever was moved, added
\* and destroyed while it walked; only a port may wait for less, when an
\* event used up the association.  The list of poll and select has each
\* pollable once, and Winsock gives no slot to two pollables.
BackendWatches ==
  /\ \A p \in BkPollable :
       LET func == IF bpoll[p].state = "live" THEN bpoll[p].func ELSE {}
       IN  IF bkind = "ports" THEN Watched(p) \subseteq func ELSE Watched(p) = func
  /\ BkListed => LET l == Chain(blist, blist.head)
                 IN  \A i, j \in DOMAIN l : l[i] = l[j] => i = j
  /\ bkind = "winsock" =>
       \A p \in BkPollable : bpoll[p].slot # 0 => bslots.used[bpoll[p].slot] = p

\* The walk holds no pointer to a freed pollable: neither the node it is at,
\* nor the next one, nor what is left of the array.
WalkHoldsPollables ==
  LET held == {bturn.n, bturn.tn} \cup {bturn.array[i][1] : i \in DOMAIN bturn.array}
  IN  \A p \in held \ {BkNull} : bpoll[p].state # "freed"
=============================================================================
