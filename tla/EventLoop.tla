------------------------------ MODULE EventLoop ------------------------------
(***************************************************************************)
(* eventloop/eventloop.c and the simple pollops of null_pollops.c over     *)
(* timer.c, pollable.c and epoll_pollops.c: one thread that alternates     *)
(* between running timers and waiting for descriptors.                     *)
(*                                                                         *)
(* `pc' is where that thread is:                                           *)
(*   idle      outside mowgli_eventloop_run and its siblings               *)
(*   begin     about to call eventloop_ops->run_once or timeout_once       *)
(*   check     at the test of the loop in simple_eventloop_timeout_once    *)
(*   timers    in the pass of mowgli_eventloop_run_timers                  *)
(*   timer_cb  in the function of the timer n                              *)
(*   select    in epoll_wait                                               *)
(*   dispatch  in the loop over the array epoll_wait filled                *)
(*   io_cb     in the read or write function of a pollable                 *)
(*   reap      about to reap destroyed pollables and test death_requested  *)
(*   dead      gone through the memory of a timer that was freed           *)
(* Client code runs in idle, timer_cb and io_cb.  It does not use a timer  *)
(* or a pollable it has destroyed, and does not run the loop from within   *)
(* one of its functions (the loop's mutex is not recursive).               *)
(*                                                                         *)
(* A freed timer's memory is all zero until mowgli_timer_add hands it out  *)
(* again.  The pass finds no timer in a zeroed node it comes to, and takes *)
(* a zeroed timer whose function returns for one that runs once: it is     *)
(* destroyed again, which empties the list and leaves the heap locked or   *)
(* faults.  What happens after either is not followed.                     *)
(***************************************************************************)
EXTENDS Timers, Pollables

CONSTANTS
  When,            \* the `when' arguments of callers, in seconds
  Millis,          \* the milliseconds of a second
  IntLimit,        \* an int is at least -IntLimit and less than IntLimit
  DefaultTimeout,  \* the "arbitrary 5 second default timeout", in milliseconds
  Timeouts,        \* the arguments of mowgli_eventloop_timeout_once (0: run_once)
  MaxTime,         \* bound: the clock stops here
  Destroys,        \* which timers callers destroy: any "outside" timer
                   \* functions; in one, those the pass does not hold
                   \* ("other") or those it does ("held")
  InstantCallbacks \* no second passes while the thread is running

ASSUME EventLoopAssumption ==
  /\ Null \notin Timer
  /\ When \subseteq Nat
  /\ Millis \in Nat \ {0}
  /\ IntLimit \in Nat \ {0}
  /\ Timeouts \subseteq Int
  /\ DefaultTimeout \in Nat \ {0}
  /\ MaxTime \in Nat
  /\ Destroys \subseteq {"outside", "other", "held"}
  /\ InstantCallbacks \in BOOLEAN

VARIABLES
  clock,    \* CLOCK_MONOTONIC, in seconds
  pc,
  mode,     \* "run", or "once" for run_once and timeout_once
  timeout,  \* the timeout argument
  wake,     \* when epoll_wait times out, in milliseconds, or Forever
  death_requested,
  dropped   \* the timers of the pass that a timer's function destroyed,
            \* until their memory is handed out again; no function reads it

lvars == <<clock, pc, mode, timeout, wake, death_requested, dropped>>
vars == <<tvars, pvars, lvars>>

Init ==
  /\ TimersInit
  /\ PollablesInit
  /\ clock = 0
  /\ pc = "idle"
  /\ mode = "once"
  /\ timeout = 0
  /\ wake = 0
  /\ death_requested = FALSE
  /\ dropped = {}

Goto(l) == pc' = l

-----------------------------------------------------------------------------
(* The client.                                                             *)

InClient == pc \in {"idle", "timer_cb", "io_cb"}

\* what mowgli_eventloop_run_timers still uses after the function returns
Held == IF pc = "timer_cb" THEN {n, tn} ELSE {}

AddTimer ==
  /\ InClient
  /\ \E t \in Timer, w \in When :
       /\ \/ mowgli_timer_add_real(t, w, w)
          \/ mowgli_timer_add_real(t, w, 0)
       /\ dropped' = dropped \ {t}
  /\ UNCHANGED <<pvars, clock, pc, mode, timeout, wake, death_requested>>

DestroyTimer ==
  /\ InClient
  /\ \E t \in Timer :
       /\ (IF pc # "timer_cb" THEN "outside" ELSE IF t \in Held THEN "held" ELSE "other")
            \in Destroys
       /\ mowgli_timer_destroy(t)
       /\ dropped' = dropped \cup ({t} \cap Held)
  /\ UNCHANGED <<pvars, clock, pc, mode, timeout, wake, death_requested>>

UsePollable ==
  /\ InClient
  /\ \E p \in Pollable :
       \/ mowgli_pollable_create(p)
       \/ \E dir \in Dir, set \in BOOLEAN : mowgli_pollable_setselect(p, dir, set)
       \/ mowgli_pollable_destroy(p)
  /\ UNCHANGED <<tvars, lvars>>

(* Any thread or signal handler may call mowgli_eventloop_break.           *)
mowgli_eventloop_break ==
  /\ ~death_requested
  /\ death_requested' = TRUE
  /\ UNCHANGED <<tvars, pvars, clock, pc, mode, timeout, wake, dropped>>

-----------------------------------------------------------------------------
(* Entering and leaving the loop.                                          *)

\* on to the test of death_requested, which the end of a turn also makes;
\* here there is nothing to reap
mowgli_eventloop_run ==
  /\ pc = "idle"
  /\ death_requested' = FALSE
  /\ processing_events' = TRUE
  /\ mode' = "run"
  /\ timeout' = 0
  /\ Goto("reap")
  /\ UNCHANGED <<tvars, pollable, registered, destroyed_pollable_list, pfd, clock, wake, dropped>>

(* mowgli_eventloop_run_once and mowgli_eventloop_timeout_once.            *)
mowgli_eventloop_timeout_once ==
  /\ pc = "idle"
  /\ processing_events' = TRUE
  /\ mode' = "once"
  /\ timeout' \in Timeouts
  /\ Goto("begin")
  /\ UNCHANGED <<tvars, pollable, registered, destroyed_pollable_list, pfd,
                 clock, wake, death_requested, dropped>>

Mutant_NeverStops ==
  /\ mowgli_eventloop_reap_pollables
  /\ IF mode = "run"
     THEN /\ Goto("begin")
          /\ UNCHANGED processing_events
     ELSE /\ Goto("idle")
          /\ processing_events' = FALSE

(* One turn is over: run goes on unless death was requested, run_once and  *)
(* timeout_once return.                                                    *)
EndTurn ==
  /\ mowgli_eventloop_reap_pollables
  /\ IF mode = "run" /\ ~death_requested
     THEN /\ Goto("begin")
          /\ UNCHANGED processing_events
     ELSE /\ Goto("idle")
          /\ processing_events' = FALSE

Reap ==
  /\ pc = "reap"
  /\ EndTurn
  /\ UNCHANGED <<tvars, registered, pfd, clock, mode, timeout, wake, death_requested, dropped>>

-----------------------------------------------------------------------------
(* mowgli_simple_eventloop_timeout_once.                                   *)

\* mowgli_eventloop_synchronize, then mowgli_eventloop_next_timer
Synchronize ==
  /\ currtime' = clock
  /\ deadline' = mowgli_eventloop_next_timer

Begin ==
  /\ pc = "begin"
  /\ Synchronize
  /\ Goto("check")
  /\ UNCHANGED <<timer_list, timer, n, tn, pvars, clock, mode, timeout, wake, death_requested, dropped>>

\* while (delay != -1 && delay <= currtime) run_timers
CheckRun ==
  /\ pc = "check"
  /\ deadline # -1 /\ deadline <= currtime
  /\ PassStart
  /\ Goto("timers")
  /\ UNCHANGED <<currtime, deadline, timer_list, timer, pvars,
                 clock, mode, timeout, wake, death_requested, dropped>>

\* a number that is not negative, converted to int
ToInt(x) == IF x < IntLimit THEN x ELSE ((x + IntLimit) % (2 * IntLimit)) - IntLimit

Mutant_SleepsDefault == IF timeout # 0 THEN timeout ELSE DefaultTimeout

\* t, in milliseconds
SleepPeriod ==
  IF timeout # 0 THEN timeout
  ELSE IF deadline = -1 THEN DefaultTimeout
  ELSE ToInt((deadline - currtime) * Millis)

\* epoll_wait returns only with events when it is given a negative number
Forever == -1

CheckSelect ==
  /\ pc = "check"
  /\ ~(deadline # -1 /\ deadline <= currtime)
  /\ wake' = IF SleepPeriod < 0 THEN Forever ELSE clock * Millis + SleepPeriod
  /\ Goto("select")
  /\ UNCHANGED <<tvars, pvars, clock, mode, timeout, death_requested, dropped>>

TimersSkip ==
  /\ pc = "timers"
  /\ n \in Live
  /\ RunTimersSkip
  /\ UNCHANGED <<pvars, lvars>>

Mutant_DestroyFirst ==
  /\ pc = "timers"
  /\ n \in Live
  /\ Due(n)
  /\ IF timer[n].frequency = 0
     THEN mowgli_timer_destroy(n)
     ELSE UNCHANGED tvars
  /\ Goto("timer_cb")
  /\ UNCHANGED <<pvars, clock, mode, timeout, wake, death_requested, dropped>>

TimersCall ==
  /\ pc = "timers"
  /\ n \in Live
  /\ Due(n)
  /\ Goto("timer_cb")
  /\ UNCHANGED <<tvars, pvars, clock, mode, timeout, wake, death_requested, dropped>>

TimersReturn ==
  /\ pc = "timer_cb"
  /\ n \in Live
  /\ RunTimersFired
  /\ Goto("timers")
  /\ UNCHANGED <<pvars, clock, mode, timeout, wake, death_requested, dropped>>

TimersDone ==
  /\ pc = "timers"
  /\ n = Null
  /\ Synchronize
  /\ Goto("check")
  /\ UNCHANGED <<timer_list, timer, n, tn, pvars, clock, mode, timeout, wake, death_requested, dropped>>

\* the timer at n was destroyed
UseFreedTimer ==
  /\ pc \in {"timers", "timer_cb"}
  /\ n \notin Live \cup {Null}
  /\ Goto("dead")
  /\ UNCHANGED <<tvars, pvars, clock, mode, timeout, wake, death_requested, dropped>>

Gone == pc = "dead" /\ UNCHANGED vars

-----------------------------------------------------------------------------
(* mowgli_epoll_eventloop_select.                                          *)

\* epoll_wait reports descriptors, or returns early with none (EINTR)
SelectEvents ==
  /\ pc = "select"
  /\ pfd' \in Arrays
  /\ currtime' = clock
  /\ Goto("dispatch")
  /\ UNCHANGED <<deadline, timer_list, timer, n, tn,
                 pollable, registered, destroyed_pollable_list, processing_events,
                 clock, mode, timeout, wake, death_requested, dropped>>

\* the time is up; a sleep that would end after MaxTime ends at that bound
SelectTimeout ==
  /\ pc = "select"
  /\ wake # Forever
  /\ clock * Millis >= wake \/ clock = MaxTime
  /\ currtime' = clock
  /\ Goto("dispatch")
  /\ UNCHANGED <<deadline, timer_list, timer, n, tn, pvars,
                 clock, mode, timeout, wake, death_requested, dropped>>

Dispatch ==
  /\ pc = "dispatch"
  /\ pfd # << >>
  /\ IF CallsBack(Head(pfd)[1], Head(pfd)[2])
     THEN Goto("io_cb") /\ UNCHANGED pfd
     ELSE UNCHANGED pc /\ pfd' = Tail(pfd)
  /\ UNCHANGED <<tvars, pollable, registered, destroyed_pollable_list, processing_events,
                 clock, mode, timeout, wake, death_requested, dropped>>

DispatchReturn ==
  /\ pc = "io_cb"
  /\ pfd' = Tail(pfd)
  /\ Goto("dispatch")
  /\ UNCHANGED <<tvars, pollable, registered, destroyed_pollable_list, processing_events,
                 clock, mode, timeout, wake, death_requested, dropped>>

DispatchDone ==
  /\ pc = "dispatch"
  /\ pfd = << >>
  /\ Goto("reap")
  /\ UNCHANGED <<tvars, pvars, clock, mode, timeout, wake, death_requested, dropped>>

-----------------------------------------------------------------------------
Tick ==
  /\ clock < MaxTime
  /\ InstantCallbacks => pc \in {"idle", "select"}
  /\ clock' = clock + 1
  /\ UNCHANGED <<tvars, pvars, pc, mode, timeout, wake, death_requested, dropped>>

Loop ==
  \/ Begin \/ CheckRun \/ CheckSelect
  \/ TimersSkip \/ TimersCall \/ TimersReturn \/ TimersDone
  \/ UseFreedTimer
  \/ SelectTimeout \/ Dispatch \/ DispatchReturn \/ DispatchDone
  \/ Reap

Next ==
  \/ AddTimer \/ DestroyTimer \/ UsePollable
  \/ mowgli_eventloop_break \/ mowgli_eventloop_run \/ mowgli_eventloop_timeout_once
  \/ Loop \/ SelectEvents \/ Tick \/ Gone

Spec == Init /\ [][Next]_vars

(* The operating system schedules the loop's thread and functions return;  *)
(* the clock advances.  Nothing forces descriptors to become ready.        *)
FairSpec == Spec /\ WF_vars(Loop) /\ SF_vars(Tick)

-----------------------------------------------------------------------------
(* Properties.                                                             *)

\* The state of timers, pollables and the loop keeps its types.
TypeOK ==
  /\ TimersTypeOK
  /\ PollablesTypeOK
  /\ clock \in Nat
  /\ pc \in {"idle", "begin", "check", "timers", "timer_cb", "select",
             "dispatch", "io_cb", "reap", "dead"}
  /\ mode \in {"run", "once"}
  /\ timeout \in Int
  /\ wake \in Int
  /\ death_requested \in BOOLEAN
  /\ dropped \subseteq Timer

\* The cached deadline is never later than a timer's: adding, firing and
\* destroying timers in any order, from any callback, cannot leave the cache
\* pointing past a timer that is waiting.
DeadlineCovers ==
  deadline # -1 => \A t \in Live : deadline <= timer[t].deadline

\* When mowgli_eventloop_run or run_once goes to sleep, epoll_wait is asked
\* to return no later than any timer is due, counted from the loop's own
\* time, whatever timers were added and destroyed since the deadline was
\* cached; unless the timer is so far away that its milliseconds do not fit
\* an int (a little under 25 days), in which case the conversion may well
\* make the loop sleep for ever.
NeverOversleeps ==
  [][pc = "check" /\ pc' = "select" /\ timeout = 0 =>
       \A t \in Live :
         LET left == (timer[t].deadline - currtime) * Millis
         IN  left < IntLimit => wake' # Forever /\ wake' <= clock * Millis + left]_vars

\* While mowgli_eventloop_run_timers walks the list, the nodes it points at
\* are on the list or were destroyed by the function of a timer, which is
\* the one way it can come to a freed timer: no timer that the function
\* adds, no other one that it destroys and no timer that runs once takes
\* them away.
PassHoldsLiveTimers ==
  /\ pc \in {"timers", "timer_cb"} => {n, tn} \ {Null} \subseteq Live \cup dropped
  /\ pc = "dead" => n \in dropped

\* The epoll_event array of the turn in progress never holds a pointer to a
\* freed pollable, and neither does the epoll instance.
NoDanglingPollable ==
  /\ \A i \in DOMAIN pfd : pollable[pfd[i][1]].state # "freed"
  /\ \A p \in Pollable : registered[p] # {} => pollable[p].state = "live"

\* A pollable destroyed during a turn of the loop is freed at its end:
\* outside the loop none is left marked and queued.
NoneLeftToReap ==
  pc \in {"idle", "begin"} => /\ destroyed_pollable_list = << >>
                              /\ \A p \in Pollable : pollable[p].state # "removed"

\* Deferred freeing is neither too early nor forgotten: nothing freed is
\* reachable from the array or the epoll instance, and what was destroyed
\* during a turn does not outlive it.
PollablesReaped == NoDanglingPollable /\ NoneLeftToReap

\* No function of a pollable is called after mowgli_pollable_destroy, though
\* the array still names it: read and write functions of one entry included.
NoCallbackAfterDestroy ==
  [][pc = "dispatch" /\ pc' = "io_cb" => pollable[Head(pfd)[1]].state = "live"]_vars

\* mowgli_eventloop_next_timer "returns the time the next mowgli_timer_run()
\* should happen": at the test of the loop that calls it, its result is the
\* deadline of a timer, or -1 for no timer.
NextTimerExact ==
  pc = "check" =>
    IF Live = {} THEN deadline = -1
                 ELSE deadline = Min({timer[t].deadline : t \in Live})

\* While mowgli_eventloop_run is running, a timer that is waiting runs or is
\* destroyed, unless the loop is told to stop first.
TimersFire ==
  \A t \in Timer :
    (t \in Live /\ timer[t].deadline <= MaxTime /\ mode = "run" /\ pc # "idle") ~>
      (death_requested \/ t \notin Live \/ (pc = "timer_cb" /\ n = t))

\* Once mowgli_eventloop_break was called, mowgli_eventloop_run returns,
\* unless it stays in its timers for ever, where it calls functions again
\* and again (they add timers that are due at once, or are slower than
\* their timers) or its test finds again and again that a deadline has
\* passed (the cached one of a timer that was destroyed); or it sleeps
\* until a descriptor is ready.  Nothing else can hold it.
BreakStops ==
  <>[](death_requested /\ mode = "run" /\ pc \notin {"idle", "dead"}) =>
    \/ /\ <>[](pc \in {"check", "timers", "timer_cb"})
       /\ []<>(\/ pc = "timer_cb"
               \/ pc = "check" /\ deadline # -1 /\ deadline <= currtime)
    \/ <>[](pc = "select" /\ wake = Forever)
=============================================================================
