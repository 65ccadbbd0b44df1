------------------------------- MODULE Helpers -------------------------------
(***************************************************************************)
(* eventloop/helper.c and core/process.c: helper processes.  The parent    *)
(* talks to each helper over a socket pair.  A helper is a fork of the     *)
(* parent (mowgli_helper_create) or another program that is told its       *)
(* descriptor in the environment variable IO_FD (mowgli_helper_spawn).     *)
(*                                                                         *)
(* Every process has its own table of descriptors, which a fork copies and *)
(* execv keeps (nothing is close-on-exec).  An end of a pair is <<h, "p">> *)
(* (for the parent) or <<h, "c">> (for the child), whoever holds it.       *)
(* socketpair, which the code does not test, succeeds.  Helpers make no    *)
(* helpers of their own.  The name of a helper is used again once it is    *)
(* destroyed and nobody holds an end of its pair.                          *)
(***************************************************************************)
EXTENDS Integers, FiniteSets, FiniteSetsExt

CONSTANTS
  HpHelper,
  HpParent,     \* the process of the event loop
  HpFd          \* descriptor numbers, 0 .. their bound

ASSUME HpAssumption ==
  /\ HpParent \notin HpHelper
  /\ HpFd \subseteq Nat
  /\ 0 .. 3 \subseteq HpFd

VARIABLES
  hpState,      \* per helper: its structure in the parent: none or live
  hpKind,       \* made by "create" or "spawn"
  hpFd,         \* helper->fd in the parent
  hpChild,      \* per helper: its process
  hpConn,       \* the descriptor the child talks over, -1 before it knows
  hpTable,      \* per process: its open descriptors
  hpEnv,        \* per process: IO_FD, -1 if it is not set
  hpNonblock,   \* the ends with O_NONBLOCK
  hpData,       \* the ends with something to read
  hpRead,       \* per helper: read_function is set
  hpSelect      \* per helper: mowgli_helper_io_trampoline is selected for

hpVars == <<hpState, hpKind, hpFd, hpChild, hpConn, hpTable, hpEnv, hpNonblock,
            hpData, hpRead, hpSelect>>
hpIoVars == <<hpNonblock, hpData, hpRead, hpSelect>>

HpEnd == HpHelper \X {"p", "c"}
HpStdio == <<"std", "io">>
HpNull == <<"dev", "null">>
HpLoop == <<"loop", "fd">>    \* the descriptor of the child's event loop

HpInit ==
  /\ hpState = [h \in HpHelper |-> "none"]
  /\ hpKind = [h \in HpHelper |-> "create"]
  /\ hpFd = [h \in HpHelper |-> -1]
  /\ hpChild = [h \in HpHelper |-> "none"]
  /\ hpConn = [h \in HpHelper |-> -1]
  /\ hpTable = [p \in HpHelper \cup {HpParent} |->
                  IF p = HpParent THEN [n \in 0 .. 2 |-> HpStdio] ELSE << >>]
  /\ hpEnv = [p \in HpHelper \cup {HpParent} |-> -1]
  /\ hpNonblock = {} /\ hpData = {}
  /\ hpRead = [h \in HpHelper |-> FALSE]
  /\ hpSelect = [h \in HpHelper |-> FALSE]

\* the descriptor a process with this table gets next
HpLowestFree(table) == Min(HpFd \ DOMAIN table)

HpOpen(table, fd, end) ==
  [n \in DOMAIN table \cup {fd} |-> IF n = fd THEN end ELSE table[n]]

HpClose(table, fds) == [n \in DOMAIN table \ fds |-> table[n]]

HpHeld(tables) == UNION {{tables[p][n] : n \in DOMAIN tables[p]} : p \in DOMAIN tables}

HpPeer(end) == <<end[1], IF end[2] = "p" THEN "c" ELSE "p">>

\* read(2) on an end returns: something was written, or nobody has its peer
HpReadable(end) == end \in hpData \/ HpPeer(end) \notin HpHeld(hpTable)

-----------------------------------------------------------------------------
(* Making a helper.                                                        *)

Mutant_HpForked(h, parent, fd1) ==
  [hpTable EXCEPT ![HpParent] = parent, ![h] = parent]

(* mowgli_process_clone: the child starts with the descriptors of the      *)
(* parent, which then closes the child's end.                              *)
HpForked(h, parent, fd1) ==
  [hpTable EXCEPT ![HpParent] = HpClose(parent, {fd1}), ![h] = parent]

(* mowgli_helper_create and mowgli_helper_spawn, which sets IO_FD in the   *)
(* parent's own environment first and does not make the parent's end       *)
(* non-blocking.  When fork fails both ends are closed; IO_FD stays set.   *)
HpStart(h, kind) ==
  /\ hpState[h] = "none"
  /\ \A side \in {"p", "c"} : <<h, side>> \notin HpHeld(hpTable)
  /\ \E a, b \in HpFd \ DOMAIN hpTable[HpParent] : a # b   \* the bound of HpFd
  /\ LET before == hpTable[HpParent]
         fd0    == HpLowestFree(before)
         middle == HpOpen(before, fd0, <<h, "p">>)
         fd1    == HpLowestFree(middle)
         during == HpOpen(middle, fd1, <<h, "c">>)
         env    == IF kind = "spawn" THEN fd1 ELSE hpEnv[HpParent]
     IN  \/ /\ hpEnv' = [hpEnv EXCEPT ![HpParent] = env, ![h] = env]
            /\ hpTable' = HpForked(h, during, fd1)
            /\ hpState' = [hpState EXCEPT ![h] = "live"]
            /\ hpKind' = [hpKind EXCEPT ![h] = kind]
            /\ hpFd' = [hpFd EXCEPT ![h] = fd0]
            /\ hpChild' = [hpChild EXCEPT ![h] = "forked"]
            /\ hpConn' = [hpConn EXCEPT ![h] = IF kind = "create" THEN fd1 ELSE -1]
            /\ hpNonblock' = hpNonblock \cup (IF kind = "create" THEN {<<h, "p">>} ELSE {})
            /\ UNCHANGED <<hpData, hpRead, hpSelect>>
         \/ /\ hpEnv' = [hpEnv EXCEPT ![HpParent] = env]
            /\ UNCHANGED <<hpState, hpKind, hpFd, hpChild, hpConn, hpTable, hpIoVars>>

-----------------------------------------------------------------------------
(* The child.                                                              *)

(* mowgli_helper_trampoline: every descriptor but the child's end is       *)
(* closed, /dev/null becomes descriptors 0 and 1 (not 2), and the child    *)
(* makes an event loop of its own, which takes the next free descriptor.   *)
mowgli_helper_trampoline(h) ==
  /\ hpKind[h] = "create"
  /\ hpChild[h] = "forked"
  /\ LET own   == hpTable[h][hpConn[h]]
         table == HpOpen([n \in {0, 1} |-> HpNull], hpConn[h], own)
     IN  /\ hpTable' = [hpTable EXCEPT ![h] = HpOpen(table, HpLowestFree(table), HpLoop)]
         /\ hpNonblock' = hpNonblock \cup {own}
  /\ hpChild' = [hpChild EXCEPT ![h] = "running"]
  /\ UNCHANGED <<hpState, hpKind, hpFd, hpConn, hpEnv, hpData, hpRead, hpSelect>>

\* mowgli_process_cloned_execv: the other program starts
mowgli_process_cloned_execv(h) ==
  /\ hpKind[h] = "spawn"
  /\ hpChild[h] = "forked"
  /\ hpChild' = [hpChild EXCEPT ![h] = "executed"]
  /\ UNCHANGED <<hpState, hpKind, hpFd, hpConn, hpTable, hpEnv, hpIoVars>>

\* in the other program; it returns NULL when IO_FD is not set
mowgli_helper_setup(h) ==
  /\ hpChild[h] = "executed"
  /\ hpEnv[h] # -1
  /\ hpConn' = [hpConn EXCEPT ![h] = hpEnv[h]]
  /\ hpNonblock' = hpNonblock \cup {hpTable[h][hpEnv[h]]}
  /\ hpChild' = [hpChild EXCEPT ![h] = "running"]
  /\ UNCHANGED <<hpState, hpKind, hpFd, hpTable, hpEnv, hpData, hpRead, hpSelect>>

\* an end that nobody holds any more is gone, with what was there to read
HpDropEnds ==
  /\ hpData' = hpData \cap HpHeld(hpTable')
  /\ hpNonblock' = hpNonblock \cap HpHeld(hpTable')

(* The process ends: start_fn returned and _exit(255) follows, /dev/null   *)
(* did not open, execv failed, or it crashed.                              *)
HpExit(h) ==
  /\ hpChild[h] \in {"forked", "executed", "running"}
  /\ hpChild' = [hpChild EXCEPT ![h] = "dead"]
  /\ hpTable' = [hpTable EXCEPT ![h] = << >>]
  /\ HpDropEnds
  /\ UNCHANGED <<hpState, hpKind, hpFd, hpConn, hpEnv, hpRead, hpSelect>>

\* the child writes to the parent
HpWrite(h) ==
  /\ hpChild[h] = "running"
  /\ LET to == HpPeer(hpTable[h][hpConn[h]])
     IN  /\ to \in HpHeld(hpTable)
         /\ hpData' = hpData \cup {to}
  /\ UNCHANGED <<hpState, hpKind, hpFd, hpChild, hpConn, hpTable, hpEnv, hpNonblock,
                 hpRead, hpSelect>>

-----------------------------------------------------------------------------
(* The parent.                                                             *)

\* read_fn may be NULL: the trampoline is selected again all the same
mowgli_helper_set_read_cb(h, readFn) ==
  /\ hpState[h] = "live"
  /\ hpRead' = [hpRead EXCEPT ![h] = readFn]
  /\ hpSelect' = [hpSelect EXCEPT ![h] = TRUE]
  /\ UNCHANGED <<hpState, hpKind, hpFd, hpChild, hpConn, hpTable, hpEnv, hpNonblock, hpData>>

\* without a read function the descriptor stays readable
mowgli_helper_io_trampoline(h) ==
  /\ hpState[h] = "live"
  /\ hpSelect[h]
  /\ HpReadable(<<h, "p">>)
  /\ hpData' = IF hpRead[h] THEN hpData \ {<<h, "p">>} ELSE hpData
  /\ UNCHANGED <<hpState, hpKind, hpFd, hpChild, hpConn, hpTable, hpEnv, hpNonblock,
                 hpRead, hpSelect>>

\* mowgli_process_kill sends SIGKILL; nothing waits for the process
mowgli_helper_destroy(h) ==
  /\ hpState[h] = "live"
  /\ hpTable' = [hpTable EXCEPT ![h] = << >>, ![HpParent] = HpClose(@, {hpFd[h]})]
  /\ HpDropEnds
  /\ hpState' = [hpState EXCEPT ![h] = "none"]
  /\ hpKind' = [hpKind EXCEPT ![h] = "create"]
  /\ hpFd' = [hpFd EXCEPT ![h] = -1]
  /\ hpChild' = [hpChild EXCEPT ![h] = "none"]
  /\ hpConn' = [hpConn EXCEPT ![h] = -1]
  /\ hpEnv' = [hpEnv EXCEPT ![h] = -1]
  /\ hpRead' = [hpRead EXCEPT ![h] = FALSE]
  /\ hpSelect' = [hpSelect EXCEPT ![h] = FALSE]

HpNext ==
  \E h \in HpHelper :
    \/ \E kind \in {"create", "spawn"} : HpStart(h, kind)
    \/ mowgli_helper_trampoline(h)
    \/ mowgli_process_cloned_execv(h)
    \/ mowgli_helper_setup(h)
    \/ HpExit(h)
    \/ HpWrite(h)
    \/ \E readFn \in BOOLEAN : mowgli_helper_set_read_cb(h, readFn)
    \/ mowgli_helper_io_trampoline(h)
    \/ mowgli_helper_destroy(h)

HpSpec == HpInit /\ [][HpNext]_hpVars

-----------------------------------------------------------------------------

\* Whatever helpers are made, fail to start, exit and are destroyed, and
\* however descriptor numbers are used again: the parent has one descriptor
\* per live helper, that of its end, and no other; a helper that runs talks
\* over its own end, the one IO_FD named when it was spawned; a forked one
\* holds no other end; and no process but the helper's own holds the child's
\* end, so the parent reads the end of file as soon as the helper dies.
HelperEnds ==
  /\ LET fds == DOMAIN hpTable[HpParent] \ 0 .. 2
         live == {h \in HpHelper : hpState[h] = "live"}
     IN  /\ fds = {hpFd[h] : h \in live}
         /\ \A h \in live : hpTable[HpParent][hpFd[h]] = <<h, "p">>
  /\ \A h \in HpHelper :
       hpChild[h] = "running" =>
         /\ hpTable[h][hpConn[h]] = <<h, "c">>
         /\ hpKind[h] = "create" => HpEnd \cap HpHeld([p \in {h} |-> hpTable[h]]) = {<<h, "c">>}
  /\ \A h \in HpHelper, p \in DOMAIN hpTable :
       (\E n \in DOMAIN hpTable[p] : hpTable[p][n] = <<h, "c">>) => p = h
=============================================================================
