------------------------------- MODULE Timers -------------------------------
(***************************************************************************)
(* eventloop/timer.c: the timers of an event loop and its cached deadline. *)
(*                                                                         *)
(* Times are whole seconds, as mowgli_eventloop_get_time returns them.     *)
(* eventloop->deadline is a cache of the earliest deadline, -1 when it is  *)
(* not known.  The pass of mowgli_eventloop_run_timers over the list holds *)
(* two pointers, the node it is at and the node after it; both are state,  *)
(* because a timer's function runs between two uses of them.               *)
(***************************************************************************)
EXTENDS Integers, FiniteSetsExt, Lists

CONSTANTS Timer, Null

VARIABLES
  currtime,    \* eventloop->currtime, as of the last synchronize
  deadline,    \* eventloop->deadline
  timer_list,  \* eventloop->timer_list
  timer,       \* the mowgli_eventloop_timer_t structures
  n, tn        \* the pointers of the pass of run_timers, Null outside it

tvars == <<currtime, deadline, timer_list, timer, n, tn>>

Freed == [deadline |-> 0, frequency |-> 0]

Live == ToSet(timer_list)

Due(t) == timer[t].deadline <= currtime

TimersInit ==
  /\ currtime = 0
  /\ deadline = -1
  /\ timer_list = << >>
  /\ timer = [t \in Timer |-> Freed]
  /\ n = Null
  /\ tn = Null

-----------------------------------------------------------------------------
Mutant_AddLeavesDeadline(d) == deadline

\* a new timer lowers a known deadline
LoweredDeadline(d) == IF deadline # -1 /\ d <= deadline THEN d ELSE deadline

(* mowgli_timer_add (frequency = when) and mowgli_timer_add_once (0).      *)
mowgli_timer_add_real(t, when, frequency) ==
  /\ t \notin Live
  /\ timer' = [timer EXCEPT ![t] = [deadline |-> currtime + when,
                                    frequency |-> frequency]]
  /\ deadline' = LoweredDeadline(currtime + when)
  /\ timer_list' = Append(timer_list, t)
  /\ UNCHANGED <<currtime, n, tn>>

(* mowgli_timer_destroy.  The cached deadline stays what it was, and       *)
(* mowgli_heap_free clears the memory.                                     *)
mowgli_timer_destroy(t) ==
  /\ t \in Live
  /\ timer_list' = Unlink(timer_list, t)
  /\ timer' = [timer EXCEPT ![t] = Freed]
  /\ UNCHANGED <<currtime, deadline, n, tn>>

Mutant_NextIsFirst ==
  IF deadline = -1 /\ Live # {} THEN timer[Head(timer_list)].deadline ELSE deadline

(* mowgli_eventloop_next_timer: computes the deadline if it is not known.  *)
mowgli_eventloop_next_timer ==
  IF deadline = -1 /\ Live # {}
  THEN Min({timer[t].deadline : t \in Live})
  ELSE deadline

-----------------------------------------------------------------------------
(* mowgli_eventloop_run_timers: one MOWGLI_ITER_FOREACH_SAFE pass.         *)

PassStart ==
  /\ n' = HeadNode(timer_list, Null)
  /\ tn' = NextNode(timer_list, n', Null)

\* the memory of a freed timer is zero, its node's next pointer included
PassAdvance ==
  /\ n' = tn
  /\ tn' = IF tn \in Live' THEN NextNode(timer_list', tn, Null) ELSE Null

\* the timer at n is not due
RunTimersSkip ==
  /\ n # Null
  /\ ~Due(n)
  /\ UNCHANGED <<currtime, deadline, timer_list, timer>>
  /\ PassAdvance

Mutant_KeepDeadline ==
  IF timer[n].frequency # 0
  THEN /\ timer' = [timer EXCEPT ![n].deadline = currtime + timer[n].frequency]
       /\ UNCHANGED <<timer_list, deadline>>
  ELSE /\ timer_list' = Unlink(timer_list, n)
       /\ timer' = [timer EXCEPT ![n] = Freed]
       /\ UNCHANGED deadline

\* what follows the return of the timer's function: "invalidate eventloop
\* sleep-until time", then reschedule or destroy the timer
Reschedule ==
  /\ deadline' = -1
  /\ IF timer[n].frequency # 0
     THEN /\ timer' = [timer EXCEPT ![n].deadline = currtime + timer[n].frequency]
          /\ UNCHANGED timer_list
     ELSE /\ timer_list' = Unlink(timer_list, n)
          /\ timer' = [timer EXCEPT ![n] = Freed]

RunTimersFired ==
  /\ Reschedule
  /\ PassAdvance
  /\ UNCHANGED currtime

-----------------------------------------------------------------------------
TimersTypeOK ==
  /\ currtime \in Nat
  /\ deadline \in Nat \cup {-1}
  /\ timer_list \in Seq(Timer)
  /\ timer \in [Timer -> [deadline : Nat, frequency : Nat]]
  /\ n \in Timer \cup {Null}
  /\ tn \in Timer \cup {Null}
=============================================================================
