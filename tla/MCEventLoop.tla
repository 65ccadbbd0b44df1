----------------------------- MODULE MCEventLoop -----------------------------
(* The event loop on small instances.  Client code is restricted in one    *)
(* way: as long as there are pollables there is at most one timer, which   *)
(* runs once and is due when it is added, and run_once gets no timeout.    *)
EXTENDS EventLoop

\* run_once, and a timeout that never ends
MCTimeouts == {0, -1}

FewTimers ==
  (\E p \in Pollable : pollable'[p].state # "freed") =>
    /\ Len(timer_list') <= 1
    /\ \A t \in ToSet(timer_list') :
         timer'[t].frequency = 0 /\ timer'[t].deadline <= clock'
    /\ timeout' = 0

MCNext ==
  \/ AddTimer /\ FewTimers
  \/ UsePollable /\ FewTimers
  \/ mowgli_eventloop_timeout_once /\ FewTimers
  \/ DestroyTimer \/ mowgli_eventloop_break \/ mowgli_eventloop_run
  \/ Loop \/ SelectEvents \/ Tick \/ Gone

MCSpec == Init /\ [][MCNext]_vars /\ WF_vars(Loop) /\ SF_vars(Tick)
=============================================================================
