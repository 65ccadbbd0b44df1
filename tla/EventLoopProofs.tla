--------------------------- MODULE EventLoopProofs ---------------------------
(* Proofs about the event loop, for every set of timers and of pollables,  *)
(* every choice of delays and timeouts and any length of run.              *)
EXTENDS EventLoop, ListProofs, SequenceTheorems, TLAPS

-----------------------------------------------------------------------------
(* The inductive invariant.                                                *)

\* where the pass of run_timers is: its two pointers differ, a timer's
\* function runs on behalf of a timer, and what was dropped is not on the list
PassInv ==
  /\ PassHoldsLiveTimers
  /\ pc \in {"timers", "timer_cb"} /\ n # Null => n # tn
  /\ pc = "timer_cb" => n # Null
  /\ dropped \cap Live = {}

\* a deadline that is not known when the loop is about to sleep means that
\* there is no timer
TimerInv ==
  /\ Injective(timer_list)
  /\ DeadlineCovers
  /\ pc = "check" /\ deadline = -1 => Live = {}
  /\ PassInv

\* the array is empty but for the loop over it, frees are deferred exactly
\* while the loop runs, and what is marked is what is queued
PollableInv ==
  /\ PollablesReaped
  /\ processing_events <=> pc # "idle"
  /\ pc \notin {"dispatch", "io_cb"} => pfd = << >>
  /\ pc = "io_cb" => pfd # << >>
  /\ \A p \in Pollable :
       pollable[p].state = "removed" <=> p \in ToSet(destroyed_pollable_list)

IInv == TypeOK /\ TimerInv /\ PollableInv

-----------------------------------------------------------------------------
(* What mowgli_eventloop_next_timer returns covers every timer.            *)

LEMMA NextTimer ==
  ASSUME TimersTypeOK, DeadlineCovers
  PROVE  /\ mowgli_eventloop_next_timer \in Nat \cup {-1}
         /\ mowgli_eventloop_next_timer = -1 => Live = {}
         /\ mowgli_eventloop_next_timer # -1 =>
              \A t \in Live : mowgli_eventloop_next_timer <= timer[t].deadline
         /\ mowgli_eventloop_next_timer # deadline =>
              \E t \in Live : mowgli_eventloop_next_timer = timer[t].deadline
<1>1. Live \subseteq Timer
  BY DEF Live, ToSet, TimersTypeOK
<1>2. CASE deadline = -1 /\ Live # {}
  <2> DEFINE S == {timer[t].deadline : t \in Live}
  <2>1. S \in SUBSET Nat /\ S # {}
    BY <1>1, <1>2 DEF TimersTypeOK
  <2>2. Min(S) \in S /\ \A y \in S : Min(S) <= y
    BY <2>1, NatMin
  <2>3. mowgli_eventloop_next_timer = Min(S)
    BY <1>2 DEF mowgli_eventloop_next_timer
  <2>4. \A t \in Live : timer[t].deadline \in S
    OBVIOUS
  <2>5. \A d \in S : \E t \in Live : d = timer[t].deadline
    OBVIOUS
  <2> HIDE DEF S
  <2>6. Min(S) \in Nat
    BY <2>1, <2>2, Zenon
  <2>7. \A k \in Nat : k # -1
    OBVIOUS
  <2> QED
    BY <2>2, <2>3, <2>4, <2>5, <2>6, <2>7, Zenon
<1>3. CASE ~(deadline = -1 /\ Live # {})
  BY <1>3 DEF mowgli_eventloop_next_timer, TimersTypeOK, DeadlineCovers
<1> QED
  BY <1>2, <1>3

-----------------------------------------------------------------------------
(* The timers.                                                             *)

\* a step that leaves the timers alone and does not move into the pass or to
\* the loop's test
LEMMA TimerFrame ==
  ASSUME TimersTypeOK, TimerInv, UNCHANGED tvars,
         pc' = "check" => pc = "check",
         pc' \in {"timers", "timer_cb"} => pc \in {"timers", "timer_cb"},
         pc' = "timer_cb" => n # Null,
         UNCHANGED dropped, pc' = "dead" => pc = "dead" \/ n \in dropped
  PROVE  TimersTypeOK' /\ TimerInv'
<1>1. TimersTypeOK'
  BY DEF TimersTypeOK, tvars
<1>2. Injective(timer_list)' /\ DeadlineCovers'
  BY DEF TimerInv, DeadlineCovers, Injective, Live, tvars
<1>3. (pc = "check" /\ deadline = -1 => Live = {})'
  BY DEF TimerInv, Live, tvars
<1>4. PassInv'
  BY DEF TimerInv, PassInv, PassHoldsLiveTimers, Live, tvars
<1> QED
  BY <1>1, <1>2, <1>3, <1>4 DEF TimerInv

LEMMA AddTimerInv ==
  ASSUME IInv, AddTimer
  PROVE  TimersTypeOK' /\ TimerInv'
<1>1. PICK t \in Timer, w \in When, f \in When \cup {0} :
        mowgli_timer_add_real(t, w, f) /\ dropped' = dropped \ {t}
  BY EventLoopAssumption DEF AddTimer
<1> DEFINE d == currtime + w
<1>2. d \in Nat /\ w \in Nat /\ f \in Nat /\ UNCHANGED <<currtime, n, tn, pc>>
      /\ pc \in {"idle", "timer_cb", "io_cb"}
  BY <1>1, EventLoopAssumption DEF IInv, TypeOK, TimersTypeOK, AddTimer, InClient,
                                   mowgli_timer_add_real, lvars
<1>3. /\ t \notin ToSet(timer_list) /\ timer_list' = Append(timer_list, t)
      /\ timer' = [timer EXCEPT ![t] = [deadline |-> d, frequency |-> f]]
      /\ deadline' = IF deadline # -1 /\ d <= deadline THEN d ELSE deadline
  BY <1>1 DEF mowgli_timer_add_real, Live, LoweredDeadline
<1> HIDE DEF d
<1>4. timer_list' \in Seq(Timer) /\ Live' = Live \cup {t} /\ Injective(timer_list)'
  <2>1. timer_list \in Seq(Timer) /\ t \in Timer /\ t \notin ToSet(timer_list)
        /\ \A i, j \in DOMAIN timer_list : timer_list[i] = timer_list[j] => i = j
    BY <1>3 DEF IInv, TypeOK, TimersTypeOK, TimerInv, Injective
  <2>2. /\ Append(timer_list, t) \in Seq(Timer)
        /\ ToSet(Append(timer_list, t)) = ToSet(timer_list) \cup {t}
        /\ \A i, j \in DOMAIN Append(timer_list, t) :
             Append(timer_list, t)[i] = Append(timer_list, t)[j] => i = j
    BY <2>1, SnocSet
  <2> QED
    BY <1>3, <2>2 DEF Injective, Live
<1>5. TimersTypeOK'
  BY <1>2, <1>3, <1>4 DEF IInv, TypeOK, TimersTypeOK
<1>6. DeadlineCovers'
  <2> SUFFICES ASSUME deadline' # -1, NEW u \in Live' PROVE deadline' <= timer'[u].deadline
    BY DEF DeadlineCovers
  <2>1. Live \subseteq Timer
    BY DEF IInv, TypeOK, TimersTypeOK, Live, ToSet
  <2>2. CASE u = t
    BY <1>2, <1>3, <2>2 DEF IInv, TypeOK, TimersTypeOK
  <2>3. CASE u # t
    <3>1. u \in Live /\ timer'[u] = timer[u] /\ timer[u].deadline \in Nat
      BY <1>3, <1>4, <2>1, <2>3 DEF IInv, TypeOK, TimersTypeOK
    <3>2. deadline # -1 /\ deadline \in Nat /\ deadline <= timer[u].deadline
      BY <1>3, <3>1 DEF IInv, TypeOK, TimersTypeOK, TimerInv, DeadlineCovers
    <3> QED
      BY <1>2, <1>3, <3>1, <3>2
  <2> QED
    BY <2>2, <2>3
<1>7. PassInv'
  BY <1>1, <1>2, <1>4 DEF IInv, TimerInv, PassInv, PassHoldsLiveTimers
<1> QED
  BY <1>2, <1>4, <1>5, <1>6, <1>7 DEF TimerInv

LEMMA DestroyTimerInv ==
  ASSUME IInv, DestroyTimer
  PROVE  TimersTypeOK' /\ TimerInv'
<1>1. PICK t \in Timer : mowgli_timer_destroy(t) /\ dropped' = dropped \cup ({t} \cap Held)
  BY DEF DestroyTimer
<1>2. UNCHANGED <<currtime, deadline, n, tn, pc>>
      /\ pc \in {"idle", "timer_cb", "io_cb"}
  BY <1>1 DEF DestroyTimer, InClient, mowgli_timer_destroy, lvars
<1>3. t \in ToSet(timer_list) /\ timer_list' = Unlink(timer_list, t)
      /\ timer' = [timer EXCEPT ![t] = Freed]
  BY <1>1 DEF mowgli_timer_destroy, Live
<1>4. timer_list' \in Seq(Timer) /\ Live' = Live \ {t} /\ Injective(timer_list)'
  BY <1>3, UnlinkSet DEF IInv, TypeOK, TimersTypeOK, TimerInv, Injective, Live
<1>5. TimersTypeOK'
  BY <1>2, <1>3, <1>4 DEF IInv, TypeOK, TimersTypeOK, Freed
<1>6. \A u \in Live' : u \in Live /\ timer'[u] = timer[u]
  <2>1. Live \subseteq Timer
    BY DEF IInv, TypeOK, TimersTypeOK, Live, ToSet
  <2> QED
    BY <1>3, <1>4, <2>1 DEF IInv, TypeOK, TimersTypeOK
<1>7. DeadlineCovers'
  BY <1>2, <1>6 DEF IInv, TimerInv, DeadlineCovers
<1>8. PassInv'
  BY <1>1, <1>2, <1>4 DEF IInv, TimerInv, PassInv, PassHoldsLiveTimers, Held
<1> QED
  BY <1>2, <1>4, <1>5, <1>7, <1>8 DEF TimerInv

\* the loop's clock and deadline are brought up to date
LEMMA SynchronizeInv ==
  ASSUME IInv, Synchronize, UNCHANGED <<timer_list, timer, n, tn, dropped>>, pc' = "check"
  PROVE  TimersTypeOK' /\ TimerInv'
<1>1. TimersTypeOK'
  BY NextTimer DEF IInv, TypeOK, TimersTypeOK, TimerInv, Synchronize
<1>2. DeadlineCovers' /\ (pc = "check" /\ deadline = -1 => Live = {})'
  BY NextTimer DEF IInv, TypeOK, TimerInv, DeadlineCovers, Synchronize, Live
<1> QED
  BY <1>1, <1>2 DEF IInv, TimerInv, Injective, PassInv, PassHoldsLiveTimers, Live

LEMMA CheckRunInv ==
  ASSUME IInv, CheckRun
  PROVE  TimersTypeOK' /\ TimerInv'
<1>1. UNCHANGED <<currtime, deadline, timer_list, timer, dropped>> /\ pc' = "timers"
      /\ n' = HeadNode(timer_list, Null) /\ tn' = NextNode(timer_list, n', Null)
  BY DEF CheckRun, PassStart, Goto
<1>2. n' \in Live \cup {Null} /\ Live \subseteq Timer /\ Live' = Live
  BY <1>1, HeadOnList DEF IInv, TypeOK, TimersTypeOK, Live, ToSet
<1>3. tn' \in Live \cup {Null} /\ (n' # Null => n' # tn')
  BY <1>1, <1>2, NextOnList, EventLoopAssumption
     DEF IInv, TypeOK, TimersTypeOK, TimerInv, Live
<1>4. TimersTypeOK'
  BY <1>1, <1>2, <1>3 DEF IInv, TypeOK, TimersTypeOK
<1>5. DeadlineCovers' /\ Injective(timer_list)'
  BY <1>1, <1>2 DEF IInv, TimerInv, DeadlineCovers, Injective
<1>6. PassInv'
  BY <1>1, <1>2, <1>3 DEF IInv, TimerInv, PassInv, PassHoldsLiveTimers
<1> QED
  BY <1>1, <1>4, <1>5, <1>6 DEF TimerInv

\* a conversion to int gives an integer
LEMMA ToIntIs ==
  ASSUME NEW x \in Nat
  PROVE  ToInt(x) \in Int /\ (x < IntLimit => ToInt(x) = x)
<1>1. IntLimit \in Nat /\ 2 * IntLimit \in Nat /\ 2 * IntLimit > 0 /\ x + IntLimit \in Nat
  BY EventLoopAssumption
<1>2. (x + IntLimit) % (2 * IntLimit) \in Int
  BY <1>1
<1> QED
  BY <1>1, <1>2 DEF ToInt

\* products keep the order
LEMMA TimesMono ==
  ASSUME NEW a \in Nat, NEW b \in Nat, a <= b
  PROVE  a * Millis \in Nat /\ b * Millis \in Nat /\ a * Millis <= b * Millis
<1>1. PICK c \in Nat : b = a + c
  <2>1. b - a \in Nat /\ b = a + (b - a)
    OBVIOUS
  <2> QED
    BY <2>1
<1>2. Millis \in Nat
  BY EventLoopAssumption
<1>3. a * Millis \in Nat /\ c * Millis \in Nat /\ b * Millis = a * Millis + c * Millis
  BY <1>1, <1>2
<1> QED
  BY <1>3

\* what the loop asks of epoll_wait is short enough for every timer that is
\* not too far away
LEMMA SleepIsShort ==
  ASSUME IInv, pc = "check", ~(deadline # -1 /\ deadline <= currtime)
  PROVE  /\ SleepPeriod \in Int
         /\ timeout = 0 =>
              \A t \in Live :
                LET left == (timer[t].deadline - currtime) * Millis
                IN  left < IntLimit => SleepPeriod \in 0..left
<1>1. /\ currtime \in Nat /\ timeout \in Int /\ DefaultTimeout \in Nat /\ Millis \in Nat
      /\ deadline \in Nat \cup {-1} /\ Live \subseteq Timer
      /\ timer \in [Timer -> [deadline : Nat, frequency : Nat]]
  BY EventLoopAssumption DEF IInv, TypeOK, TimersTypeOK, Live, ToSet
<1>2. deadline # -1 => deadline - currtime \in Nat
  BY <1>1
<1>3. deadline # -1 => (deadline - currtime) * Millis \in Nat
  BY <1>1, <1>2, TimesMono
<1>4. SleepPeriod \in Int
  BY <1>1, <1>3, ToIntIs DEF SleepPeriod
<1>5. ASSUME timeout = 0, NEW t \in Live,
             (timer[t].deadline - currtime) * Millis < IntLimit
      PROVE  SleepPeriod \in 0..((timer[t].deadline - currtime) * Millis)
  <2> DEFINE a == deadline - currtime
             b == timer[t].deadline - currtime
  <2>1. deadline # -1 /\ deadline <= timer[t].deadline
    BY DEF IInv, TimerInv, DeadlineCovers
  <2>2. a \in Nat /\ b \in Nat /\ a <= b
    BY <1>1, <1>2, <2>1
  <2>3. SleepPeriod = ToInt(a * Millis)
    BY <1>5, <2>1 DEF SleepPeriod
  <2>4. b * Millis < IntLimit /\ IntLimit \in Nat
    BY <1>5, EventLoopAssumption
  <2> HIDE DEF a, b
  <2>5. a * Millis \in Nat /\ b * Millis \in Nat /\ a * Millis <= b * Millis
    BY <2>2, TimesMono
  <2>6. ToInt(a * Millis) = a * Millis
    <3> DEFINE x == a * Millis
    <3>1. x \in Nat /\ x < IntLimit
      BY <2>4, <2>5
    <3> HIDE DEF x
    <3>2. ToInt(x) = x
      BY <3>1, ToIntIs
    <3> QED
      BY <3>2 DEF x
  <2>7. SleepPeriod \in 0..(b * Millis)
    BY <2>3, <2>5, <2>6
  <2> QED
    BY <2>7 DEF b
<1> QED
  BY <1>4, <1>5

LEMMA CheckSelectInv ==
  ASSUME IInv, CheckSelect
  PROVE  TimersTypeOK' /\ TimerInv' /\ wake' \in Int
<1>1. UNCHANGED <<tvars, timeout, dropped>> /\ pc = "check" /\ pc' = "select"
      /\ wake' = (IF SleepPeriod < 0 THEN Forever ELSE clock * Millis + SleepPeriod)
      /\ ~(deadline # -1 /\ deadline <= currtime)
  BY DEF CheckSelect, Goto
<1>2. clock \in Nat /\ clock * Millis \in Nat /\ SleepPeriod \in Int
  BY <1>1, SleepIsShort, TimesMono DEF IInv, TypeOK
<1>3. wake' \in Int
  BY <1>1, <1>2 DEF Forever
<1>4. TimersTypeOK' /\ TimerInv'
  BY <1>1, TimerFrame DEF IInv, TypeOK
<1> QED
  BY <1>3, <1>4

\* the pass moves on over a list that still holds tn
LEMMA AdvanceInv ==
  ASSUME IInv, PassAdvance, pc \in {"timers", "timer_cb"}, pc' = "timers",
         timer_list' \in Seq(Timer), Injective(timer_list)', UNCHANGED dropped,
         tn \in Live' \cup dropped \cup {Null}, Live' \subseteq Live
  PROVE  PassInv' /\ n' \in Timer \cup {Null} /\ tn' \in Timer \cup {Null}
<1>1. n' = tn /\ tn' = IF tn \in Live' THEN NextNode(timer_list', tn, Null) ELSE Null
  BY DEF PassAdvance
<1>2. tn' \in Live' \cup {Null} /\ (tn # Null => tn' # tn)
  BY <1>1, NextOnList, EventLoopAssumption DEF Live, Injective
<1>3. Live' \subseteq Timer /\ dropped \subseteq Timer
  BY DEF IInv, TypeOK, Live, ToSet
<1>4. dropped' \cap Live' = {}
  BY DEF IInv, TimerInv, PassInv
<1> QED
  BY <1>1, <1>2, <1>3, <1>4 DEF PassInv, PassHoldsLiveTimers

LEMMA TimersSkipInv ==
  ASSUME IInv, TimersSkip
  PROVE  TimersTypeOK' /\ TimerInv'
<1>1. /\ UNCHANGED <<currtime, deadline, timer_list, timer, pc, dropped>>
      /\ PassAdvance /\ pc = "timers" /\ n \in Live
  BY DEF TimersSkip, RunTimersSkip, lvars
<1>2. timer_list' \in Seq(Timer) /\ Injective(timer_list)' /\ Live' = Live
  BY <1>1 DEF IInv, TypeOK, TimersTypeOK, TimerInv, Injective, Live
<1>3. tn \in Live' \cup dropped \cup {Null}
  BY <1>1, <1>2 DEF IInv, TimerInv, PassInv, PassHoldsLiveTimers
<1>4. PassInv' /\ n' \in Timer \cup {Null} /\ tn' \in Timer \cup {Null}
  BY <1>1, <1>2, <1>3, AdvanceInv
<1>5. TimersTypeOK' /\ DeadlineCovers'
  BY <1>1, <1>2, <1>4 DEF IInv, TypeOK, TimersTypeOK, TimerInv, DeadlineCovers
<1> QED
  BY <1>1, <1>2, <1>4, <1>5 DEF TimerInv

LEMMA TimersReturnInv ==
  ASSUME IInv, TimersReturn
  PROVE  TimersTypeOK' /\ TimerInv'
<1>1. /\ Reschedule /\ PassAdvance /\ UNCHANGED <<currtime, dropped>>
      /\ pc = "timer_cb" /\ pc' = "timers" /\ n \in Live
  BY DEF TimersReturn, RunTimersFired, Goto
<1>2. /\ n \in Timer /\ tn \in Live \cup dropped \cup {Null} /\ n # tn /\ deadline' = -1
      /\ timer[n].frequency \in Nat /\ currtime \in Nat
  <2>1. n \in Timer
    BY <1>1 DEF IInv, TypeOK, TimersTypeOK, Live, ToSet
  <2> QED
    BY <1>1, <2>1, EventLoopAssumption
       DEF IInv, TypeOK, TimersTypeOK, TimerInv, PassInv, PassHoldsLiveTimers, Reschedule
<1>3. /\ timer_list' \in Seq(Timer) /\ Injective(timer_list)' /\ Live' \subseteq Live
      /\ tn \in Live' \cup dropped \cup {Null}
      /\ timer' \in [Timer -> [deadline : Nat, frequency : Nat]]
  <2>1. CASE timer[n].frequency # 0
    <3>1. /\ timer_list' = timer_list
          /\ timer' = [timer EXCEPT ![n].deadline = currtime + timer[n].frequency]
      BY <1>1, <2>1 DEF Reschedule
    <3>2. timer_list' \in Seq(Timer) /\ Injective(timer_list)' /\ Live' = Live
      BY <3>1 DEF IInv, TypeOK, TimersTypeOK, TimerInv, Injective, Live
    <3>3. timer' \in [Timer -> [deadline : Nat, frequency : Nat]]
      BY <1>2, <3>1 DEF IInv, TypeOK, TimersTypeOK
    <3> QED
      BY <1>2, <3>2, <3>3
  <2>2. CASE timer[n].frequency = 0
    <3>1. /\ timer_list' = Unlink(timer_list, n)
          /\ timer' = [timer EXCEPT ![n] = Freed]
      BY <1>1, <2>2 DEF Reschedule
    <3>2. timer_list' \in Seq(Timer) /\ Live' = Live \ {n} /\ Injective(timer_list)'
      BY <1>1, <1>2, <3>1, UnlinkSet DEF IInv, TypeOK, TimersTypeOK, TimerInv, Injective, Live
    <3>3. timer' \in [Timer -> [deadline : Nat, frequency : Nat]]
      BY <3>1 DEF IInv, TypeOK, TimersTypeOK, Freed
    <3> QED
      BY <1>2, <3>2, <3>3
  <2> QED
    BY <2>1, <2>2
<1>4. PassInv' /\ n' \in Timer \cup {Null} /\ tn' \in Timer \cup {Null}
  BY <1>1, <1>3, AdvanceInv
<1>5. TimersTypeOK'
  BY <1>1, <1>2, <1>3, <1>4 DEF TimersTypeOK, IInv, TypeOK
<1> QED
  BY <1>1, <1>2, <1>3, <1>4, <1>5 DEF TimerInv, DeadlineCovers

LEMMA LiveNotNull ==
  ASSUME TimersTypeOK
  PROVE  Null \notin Live
BY EventLoopAssumption DEF TimersTypeOK, Live, ToSet

LEMMA TimerStep ==
  ASSUME IInv, [Next]_vars
  PROVE  TimersTypeOK' /\ TimerInv'
<1>0. TimersTypeOK /\ TimerInv
  BY DEF IInv, TypeOK
<1>1. CASE AddTimer
  BY <1>1, AddTimerInv
<1>2. CASE DestroyTimer
  BY <1>2, DestroyTimerInv
<1>3. CASE UsePollable \/ mowgli_eventloop_break \/ Tick
  BY <1>0, <1>3, TimerFrame
     DEF UsePollable, mowgli_eventloop_break, Tick, lvars, TimerInv, PassInv
<1>4. CASE mowgli_eventloop_run \/ mowgli_eventloop_timeout_once
  BY <1>0, <1>4, TimerFrame DEF mowgli_eventloop_run, mowgli_eventloop_timeout_once, Goto
<1>5. CASE Begin \/ TimersDone
  BY <1>5, SynchronizeInv DEF Begin, TimersDone, Goto
<1>6. CASE CheckRun
  BY <1>6, CheckRunInv
<1>7. CASE CheckSelect
  BY <1>7, CheckSelectInv
<1>8. CASE TimersSkip
  BY <1>8, TimersSkipInv
<1>9. CASE TimersCall
  BY <1>0, <1>9, TimerFrame, LiveNotNull DEF TimersCall, Goto
<1>10. CASE TimersReturn
  BY <1>10, TimersReturnInv
<1>11. CASE SelectEvents \/ SelectTimeout
  <2>1. UNCHANGED <<deadline, timer_list, timer, n, tn, dropped>> /\ currtime' = clock
        /\ pc' = "dispatch"
    BY <1>11 DEF SelectEvents, SelectTimeout, Goto
  <2>2. TimersTypeOK'
    BY <2>1 DEF IInv, TypeOK, TimersTypeOK
  <2>3. Injective(timer_list)' /\ DeadlineCovers'
    BY <1>0, <2>1 DEF TimerInv, DeadlineCovers, Injective, Live
  <2> QED
    BY <1>0, <2>1, <2>2, <2>3 DEF TimerInv, PassInv, PassHoldsLiveTimers, Live
<1>12. CASE Dispatch \/ DispatchReturn \/ DispatchDone \/ Reap
  BY <1>0, <1>12, TimerFrame
     DEF Dispatch, DispatchReturn, DispatchDone, Reap, EndTurn, Goto
<1>13. CASE Gone \/ UNCHANGED vars
  BY <1>0, <1>13, TimerFrame DEF Gone, vars, lvars, TimerInv, PassInv
<1>14. CASE UseFreedTimer
  BY <1>0, <1>14, TimerFrame
     DEF UseFreedTimer, Goto, TimerInv, PassInv, PassHoldsLiveTimers
<1> QED
  BY <1>1, <1>2, <1>3, <1>4, <1>5, <1>6, <1>7, <1>8, <1>9, <1>10, <1>11, <1>12, <1>13, <1>14
     DEF Next, Loop

-----------------------------------------------------------------------------
(* The pollables.                                                          *)

\* a step that leaves the pollables alone and neither leaves the loop over
\* the array before its end nor ends a turn
LEMMA PollableFrame ==
  ASSUME PollablesTypeOK, PollableInv, UNCHANGED pvars,
         pc' = "idle" <=> pc = "idle",
         pc' \in {"idle", "begin"} => pc \in {"idle", "begin"},
         pc' \notin {"dispatch", "io_cb"} => pfd = << >>,
         pc' = "io_cb" => pfd # << >>
  PROVE  PollablesTypeOK' /\ PollableInv'
<1>1. PollablesTypeOK'
  BY DEF PollablesTypeOK, pvars
<1>2. PollablesReaped'
  BY DEF PollableInv, PollablesReaped, NoDanglingPollable, NoneLeftToReap, pvars
<1> QED
  BY <1>1, <1>2 DEF PollableInv, pvars

LEMMA UsePollableInv ==
  ASSUME IInv, UsePollable
  PROVE  PollablesTypeOK' /\ PollableInv'
<1>1. PICK p \in Pollable :
        \/ mowgli_pollable_create(p)
        \/ \E dir \in Dir, set \in BOOLEAN : mowgli_pollable_setselect(p, dir, set)
        \/ mowgli_pollable_destroy(p)
  BY DEF UsePollable
<1>2. UNCHANGED pc /\ PollablesTypeOK /\ PollableInv /\ pc # "begin"
  BY DEF UsePollable, InClient, lvars, IInv, TypeOK
<1>3. ASSUME mowgli_pollable_create(p) PROVE PollablesTypeOK' /\ PollableInv'
  <2>1. /\ UNCHANGED <<registered, destroyed_pollable_list, processing_events, pfd>>
        /\ pollable[p].state = "freed"
        /\ pollable' = [pollable EXCEPT ![p].state = "live"]
    BY <1>3 DEF mowgli_pollable_create
  <2>2. PollablesTypeOK'
    BY <1>2, <2>1 DEF PollablesTypeOK
  <2>3. \A q \in Pollable : pollable'[q].state = IF q = p THEN "live" ELSE pollable[q].state
    BY <1>2, <2>1 DEF PollablesTypeOK
  <2>4. \A i \in DOMAIN pfd : pfd[i][1] \in Pollable
    BY <1>2 DEF PollablesTypeOK
  <2>5. NoDanglingPollable'
    BY <1>2, <2>1, <2>3, <2>4 DEF PollableInv, PollablesReaped, NoDanglingPollable
  <2>6. NoneLeftToReap'
    BY <1>2, <2>1, <2>3 DEF PollableInv, PollablesReaped, NoneLeftToReap
  <2> QED
    BY <1>2, <2>1, <2>2, <2>3, <2>5, <2>6 DEF PollableInv, PollablesReaped
<1>4. ASSUME NEW dir \in Dir, NEW set \in BOOLEAN, mowgli_pollable_setselect(p, dir, set)
      PROVE  PollablesTypeOK' /\ PollableInv'
  <2>1. PICK func \in SUBSET Dir, slot \in SUBSET Dir :
          /\ pollable' = [pollable EXCEPT ![p].func = func, ![p].slot = slot]
          /\ registered' = [registered EXCEPT ![p] = IF slot = pollable[p].slot
                                                     THEN @ ELSE slot]
    <3> DEFINE func == IF set THEN pollable[p].func \cup {dir} ELSE pollable[p].func \ {dir}
               slot == (pollable[p].slot \cup {dir}) \cap func
    <3>1. func \in SUBSET Dir /\ slot \in SUBSET Dir
      BY <1>2 DEF PollablesTypeOK
    <3> QED
      BY <1>4, <3>1 DEF mowgli_pollable_setselect
  <2>2. /\ UNCHANGED <<destroyed_pollable_list, processing_events, pfd>>
        /\ pollable[p].state = "live"
    BY <1>4 DEF mowgli_pollable_setselect, Usable
  <2>3. PollablesTypeOK'
    BY <1>2, <2>1, <2>2 DEF PollablesTypeOK
  <2>4. \A q \in Pollable : pollable'[q].state = pollable[q].state
    BY <1>2, <2>1 DEF PollablesTypeOK
  <2>5. \A q \in Pollable : registered'[q] # {} => pollable[q].state = "live"
    <3> SUFFICES ASSUME NEW q \in Pollable, registered'[q] # {} PROVE pollable[q].state = "live"
      OBVIOUS
    <3>1. CASE q = p
      BY <2>2, <3>1
    <3>2. CASE q # p
      <4>1. registered'[q] = registered[q]
        BY <1>2, <2>1, <3>2 DEF PollablesTypeOK
      <4> QED
        BY <1>2, <4>1 DEF PollableInv, PollablesReaped, NoDanglingPollable
    <3> QED
      BY <3>1, <3>2
  <2>6. \A i \in DOMAIN pfd : pfd[i][1] \in Pollable
    BY <1>2 DEF PollablesTypeOK
  <2>7. NoDanglingPollable'
    BY <1>2, <2>2, <2>4, <2>5, <2>6 DEF PollableInv, PollablesReaped, NoDanglingPollable
  <2>8. NoneLeftToReap'
    BY <1>2, <2>2, <2>4 DEF PollableInv, PollablesReaped, NoneLeftToReap
  <2> QED
    BY <1>2, <2>2, <2>3, <2>4, <2>7, <2>8 DEF PollableInv, PollablesReaped
<1>5. ASSUME mowgli_pollable_destroy(p) PROVE PollablesTypeOK' /\ PollableInv'
  <2>1. /\ UNCHANGED <<processing_events, pfd>>
        /\ pollable[p].state = "live"
        /\ registered' = [registered EXCEPT ![p] = {}]
        /\ FreeOrDefer(p)
    BY <1>5 DEF mowgli_pollable_destroy, Usable, Unregister
  <2>2. \A i \in DOMAIN pfd : pfd[i][1] \in Pollable
    BY <1>2 DEF PollablesTypeOK
  <2>3. \A q \in Pollable : registered'[q] # {} => q # p /\ pollable[q].state = "live"
    BY <1>2, <2>1 DEF PollablesTypeOK, PollableInv, PollablesReaped, NoDanglingPollable
  <2>4. registered' \in [Pollable -> SUBSET Dir]
    BY <1>2, <2>1 DEF PollablesTypeOK
  <2>5. CASE processing_events
    <3>1. /\ pollable' = [pollable EXCEPT ![p].state = "removed", ![p].slot = {}]
          /\ destroyed_pollable_list' = Append(destroyed_pollable_list, p)
      BY <2>1, <2>5 DEF FreeOrDefer
    <3>2. PollablesTypeOK'
      <4>1. pollable' \in [Pollable -> [state : {"freed", "live", "removed"},
                                        func : SUBSET Dir, slot : SUBSET Dir]]
        BY <1>2, <3>1 DEF PollablesTypeOK
      <4>2. destroyed_pollable_list' \in Seq(Pollable)
        BY <1>2, <3>1 DEF PollablesTypeOK
      <4> QED
        BY <1>2, <2>1, <2>4, <4>1, <4>2 DEF PollablesTypeOK
    <3>3. \A q \in Pollable :
            pollable'[q].state = IF q = p THEN "removed" ELSE pollable[q].state
      BY <1>2, <3>1 DEF PollablesTypeOK
    <3>4. ToSet(destroyed_pollable_list') = ToSet(destroyed_pollable_list) \cup {p}
      <4>1. destroyed_pollable_list \in Seq(Pollable)
        BY <1>2 DEF PollablesTypeOK
      <4> QED
        BY <3>1, <4>1, AppendSet
    <3>5. NoDanglingPollable'
      BY <1>2, <2>1, <2>2, <2>3, <3>3 DEF PollableInv, PollablesReaped, NoDanglingPollable
    <3>6. pc \notin {"idle", "begin"}
      BY <1>2, <2>5 DEF PollableInv
    <3> QED
      BY <1>2, <2>1, <3>2, <3>3, <3>4, <3>5, <3>6
         DEF PollableInv, PollablesReaped, NoneLeftToReap
  <2>6. CASE ~processing_events
    <3>1. /\ pollable' = [pollable EXCEPT ![p] = FreedPollable]
          /\ UNCHANGED destroyed_pollable_list
      BY <2>1, <2>6 DEF FreeOrDefer
    <3>2. PollablesTypeOK'
      BY <1>2, <2>1, <2>4, <3>1 DEF PollablesTypeOK, FreedPollable
    <3>3. \A q \in Pollable :
            pollable'[q].state = IF q = p THEN "freed" ELSE pollable[q].state
      BY <1>2, <3>1 DEF PollablesTypeOK, FreedPollable
    <3>4. pc = "idle" /\ pfd = << >>
      BY <1>2, <2>6 DEF PollableInv
    <3>5. NoDanglingPollable'
      BY <2>1, <2>3, <3>3, <3>4 DEF NoDanglingPollable
    <3>6. NoneLeftToReap'
      BY <1>2, <3>1, <3>3 DEF PollableInv, PollablesReaped, NoneLeftToReap
    <3> QED
      BY <1>2, <2>1, <3>1, <3>2, <3>3, <3>5, <3>6 DEF PollableInv, PollablesReaped
  <2> QED
    BY <2>5, <2>6
<1> QED
  BY <1>1, <1>3, <1>4, <1>5

\* epoll_wait names only what is registered
LEMMA ArraysRegistered ==
  ASSUME NEW a \in Arrays
  PROVE  a \in Seq(Pollable \X Dir) /\ \A i \in DOMAIN a : registered[a[i][1]] # {}
<1>1. a \in Seq(Pollable \X Dir)
  <2>1. PICK k \in 0 .. 2 * Cardinality(Pollable) : a \in [1 .. k -> Pollable \X Dir]
    BY DEF Arrays, SeqOf
  <2>2. k \in Nat
    BY <2>1
  <2> QED
    BY <2>1, <2>2
<1>2. ASSUME NEW i \in DOMAIN a PROVE registered[a[i][1]] # {}
  <2>1. a[i][1] \in Pollable
    BY <1>1
  <2> DEFINE p == a[i][1]
             dirs == {a[j][2] : j \in {k \in DOMAIN a : a[k][1] = p}}
  <2>2. dirs \in Reports(p) /\ dirs # {}
    BY <2>1 DEF Arrays
  <2> QED
    BY <2>2 DEF Reports
<1> QED
  BY <1>1, <1>2

LEMMA PollableStep ==
  ASSUME IInv, [Next]_vars
  PROVE  PollablesTypeOK' /\ PollableInv'
<1>0. PollablesTypeOK /\ PollableInv
  BY DEF IInv, TypeOK
<1>1. CASE UsePollable
  BY <1>1, UsePollableInv
<1>2. CASE AddTimer \/ DestroyTimer \/ mowgli_eventloop_break \/ Tick
  BY <1>0, <1>2, PollableFrame
     DEF AddTimer, DestroyTimer, mowgli_eventloop_break, Tick, lvars, PollableInv
<1>3. CASE mowgli_eventloop_run \/ mowgli_eventloop_timeout_once
  <2>1. /\ UNCHANGED <<pollable, registered, destroyed_pollable_list, pfd>>
        /\ pc = "idle" /\ pc' \in {"reap", "begin"} /\ processing_events' = TRUE
    BY <1>3 DEF mowgli_eventloop_run, mowgli_eventloop_timeout_once, Goto
  <2>2. PollablesReaped'
    BY <1>0, <2>1 DEF PollableInv, PollablesReaped, NoDanglingPollable, NoneLeftToReap
  <2> QED
    BY <1>0, <2>1, <2>2 DEF PollablesTypeOK, PollableInv
<1>4. CASE \/ Begin \/ CheckRun \/ CheckSelect \/ TimersSkip \/ TimersCall
           \/ TimersReturn \/ TimersDone \/ SelectTimeout \/ UseFreedTimer
  BY <1>0, <1>4, PollableFrame
     DEF Begin, CheckRun, CheckSelect, TimersSkip, TimersCall, TimersReturn, TimersDone, UseFreedTimer,
         SelectTimeout, Goto, lvars, PollableInv
<1>5. CASE SelectEvents
  <2>1. /\ UNCHANGED <<pollable, registered, destroyed_pollable_list, processing_events>>
        /\ pc = "select" /\ pc' = "dispatch" /\ pfd' \in Arrays
    BY <1>5 DEF SelectEvents, Goto
  <2>2. pfd' \in Seq(Pollable \X Dir) /\ \A i \in DOMAIN pfd' : registered[pfd'[i][1]] # {}
    BY <2>1, ArraysRegistered
  <2>3. NoDanglingPollable'
    BY <1>0, <2>1, <2>2 DEF PollableInv, PollablesReaped, NoDanglingPollable
  <2> QED
    BY <1>0, <2>1, <2>2, <2>3 DEF PollablesTypeOK, PollableInv, PollablesReaped, NoneLeftToReap
<1>6. CASE Dispatch \/ DispatchReturn
  <2>1. UNCHANGED <<pollable, registered, destroyed_pollable_list, processing_events>>
    BY <1>6 DEF Dispatch, DispatchReturn
  <2>2. /\ pc \in {"dispatch", "io_cb"} /\ pc' \in {"dispatch", "io_cb"} /\ pfd # << >>
        /\ pfd' = Tail(pfd) \/ pfd' = pfd
        /\ pc' = "io_cb" => pfd' = pfd
    BY <1>0, <1>6 DEF Dispatch, DispatchReturn, Goto, PollableInv
  <2>3. pfd' \in Seq(Pollable \X Dir) /\ \A i \in DOMAIN pfd' :
          \E j \in DOMAIN pfd : pfd'[i] = pfd[j]
    <3>1. pfd \in Seq(Pollable \X Dir)
      BY <1>0 DEF PollablesTypeOK
    <3>2. CASE pfd' = Tail(pfd)
      <4>1. /\ Tail(pfd) \in Seq(Pollable \X Dir)
            /\ \A i \in DOMAIN Tail(pfd) : i + 1 \in DOMAIN pfd /\ Tail(pfd)[i] = pfd[i + 1]
        BY <2>2, <3>1
      <4> QED
        BY <3>2, <4>1
    <3> QED
      BY <2>2, <3>1, <3>2
  <2>4. NoDanglingPollable'
    BY <1>0, <2>1, <2>3 DEF PollableInv, PollablesReaped, NoDanglingPollable
  <2> QED
    BY <1>0, <2>1, <2>2, <2>3, <2>4
       DEF PollablesTypeOK, PollableInv, PollablesReaped, NoneLeftToReap
<1>7. CASE DispatchDone
  BY <1>0, <1>7, PollableFrame DEF DispatchDone, Goto
<1>8. CASE Reap
  <2>1. /\ UNCHANGED <<registered, pfd>> /\ pc = "reap" /\ pc' \in {"begin", "idle"}
        /\ processing_events' = IF pc' = "idle" THEN FALSE ELSE processing_events
        /\ pollable' = Reaped /\ destroyed_pollable_list' = << >>
    BY <1>8 DEF Reap, EndTurn, mowgli_eventloop_reap_pollables, Goto
  <2>2. PollablesTypeOK'
    <3>1. processing_events' \in BOOLEAN
      BY <1>0, <2>1, Zenon DEF PollablesTypeOK
    <3>2. pollable' \in [Pollable -> [state : {"freed", "live", "removed"},
                                      func : SUBSET Dir, slot : SUBSET Dir]]
      BY <1>0, <2>1 DEF PollablesTypeOK, Reaped, FreedPollable
    <3>3. destroyed_pollable_list' \in Seq(Pollable)
      BY <2>1, EmptySeq
    <3> QED
      BY <1>0, <2>1, <3>1, <3>2, <3>3, Zenon DEF PollablesTypeOK
  <2>3. \A p \in Pollable : pollable'[p].state # "removed"
                            /\ (pollable[p].state = "live" => pollable'[p].state = "live")
    BY <1>0, <2>1 DEF PollablesTypeOK, Reaped, FreedPollable, PollableInv
  <2>4. NoDanglingPollable'
    BY <1>0, <2>1, <2>3 DEF PollableInv, PollablesReaped, NoDanglingPollable
  <2>5. ToSet(<< >>) = {}
    BY DEF ToSet
  <2> QED
    BY <1>0, <2>1, <2>2, <2>3, <2>4, <2>5 DEF PollableInv, PollablesReaped, NoneLeftToReap
<1>9. CASE Gone \/ UNCHANGED vars
  BY <1>0, <1>9, PollableFrame DEF Gone, vars, lvars, PollableInv
<1> QED
  BY <1>1, <1>2, <1>3, <1>4, <1>5, <1>6, <1>7, <1>8, <1>9 DEF Next, Loop

-----------------------------------------------------------------------------
(* The invariant and what follows from it.                                 *)

LEMMA InitIInv == Init => IInv
<1> SUFFICES ASSUME Init PROVE IInv
  OBVIOUS
<1>1. ToSet(<< >>) = {}
  BY DEF ToSet
<1>2. TypeOK
  <2>1. TimersTypeOK
    BY DEF Init, TimersInit, TimersTypeOK, Freed
  <2>2. PollablesTypeOK
    <3>1. pollable \in [Pollable -> [state : {"freed", "live", "removed"},
                                     func : SUBSET Dir, slot : SUBSET Dir]]
      BY DEF Init, PollablesInit, FreedPollable
    <3>2. registered \in [Pollable -> SUBSET Dir]
      BY DEF Init, PollablesInit
    <3>3. destroyed_pollable_list \in Seq(Pollable) /\ pfd \in Seq(Pollable \X Dir)
      BY EmptySeq DEF Init, PollablesInit
    <3> QED
      BY <3>1, <3>2, <3>3, Zenon DEF Init, PollablesInit, PollablesTypeOK
  <2>3. /\ clock \in Nat /\ pc = "idle" /\ mode = "once" /\ timeout \in Int
        /\ wake \in Int /\ dropped \subseteq Timer
    BY DEF Init
  <2>4. death_requested \in BOOLEAN
    BY Zenon DEF Init
  <2> QED
    BY <2>1, <2>2, <2>3, <2>4 DEF TypeOK
<1>3. TimerInv
  BY DEF Init, TimersInit, TimerInv, Injective, DeadlineCovers,
         PassInv, PassHoldsLiveTimers
<1>4. PollableInv
  BY <1>1 DEF Init, PollablesInit, PollableInv, PollablesReaped, NoDanglingPollable,
         NoneLeftToReap, FreedPollable
<1> QED
  BY <1>2, <1>3, <1>4 DEF IInv

LEMMA NextIInv == IInv /\ [Next]_vars => IInv'
<1> SUFFICES ASSUME IInv, [Next]_vars PROVE IInv'
  OBVIOUS
<1>1. TimersTypeOK' /\ TimerInv'
  BY TimerStep
<1>2. PollablesTypeOK' /\ PollableInv'
  BY PollableStep
<1> DEFINE LoopType == /\ clock \in Nat
                       /\ pc \in {"idle", "begin", "check", "timers", "timer_cb", "select",
                                  "dispatch", "io_cb", "reap", "dead"}
                       /\ mode \in {"run", "once"}
                       /\ timeout \in Int
                       /\ wake \in Int
                       /\ dropped \subseteq Timer
<1>3. LoopType /\ death_requested \in BOOLEAN
  BY DEF IInv, TypeOK
<1>5. (death_requested \in BOOLEAN)'
  <2>1. death_requested' \in {death_requested, TRUE, FALSE}
    BY DEF Next, Loop, AddTimer, DestroyTimer, UsePollable, mowgli_eventloop_break,
           mowgli_eventloop_run, mowgli_eventloop_timeout_once, Begin, CheckRun, CheckSelect,
           TimersSkip, TimersCall, TimersReturn, TimersDone, SelectEvents, SelectTimeout,
           Dispatch, DispatchReturn, DispatchDone, Reap, Tick, UseFreedTimer, Gone, lvars, vars
  <2> QED
    BY <1>3, <2>1, Zenon
<1>4. LoopType'
  <2>1. CASE \/ UsePollable \/ mowgli_eventloop_break
             \/ TimersSkip \/ Gone \/ UNCHANGED vars
    BY <1>3, <2>1 DEF UsePollable, mowgli_eventloop_break,
                      TimersSkip, Gone, lvars, vars
  <2>7. CASE AddTimer \/ DestroyTimer
    <3>1. dropped' \subseteq Timer
      BY <1>3, <2>7 DEF AddTimer, DestroyTimer
    <3> QED
      BY <1>3, <2>7, <3>1 DEF AddTimer, DestroyTimer
  <2>6. CASE Tick
    BY <1>3, <2>6 DEF Tick
  <2>2. CASE mowgli_eventloop_run \/ mowgli_eventloop_timeout_once
    <3>1. Timeouts \subseteq Int
      BY EventLoopAssumption, Zenon
    <3>2. timeout' \in Int
      <4>1. timeout' \in Timeouts \/ timeout' = 0
        BY <2>2, Zenon DEF mowgli_eventloop_run, mowgli_eventloop_timeout_once
      <4>2. 0 \in Int
        OBVIOUS
      <4> QED
        BY <3>1, <4>1, <4>2, Zenon
    <3>3. /\ UNCHANGED <<clock, wake, dropped>>
          /\ pc' \in {"reap", "begin"} /\ mode' \in {"run", "once"}
      BY <2>2 DEF mowgli_eventloop_run, mowgli_eventloop_timeout_once, Goto
    <3> QED
      BY <1>3, <3>2, <3>3
  <2>3. CASE CheckSelect
    BY <1>3, <2>3, CheckSelectInv DEF CheckSelect, Goto
  <2>4. CASE \/ Begin \/ CheckRun \/ TimersCall \/ TimersReturn \/ TimersDone
             \/ SelectEvents \/ SelectTimeout \/ UseFreedTimer
    BY <1>3, <2>4 DEF Begin, CheckRun, TimersCall, TimersReturn, TimersDone, UseFreedTimer,
                      SelectEvents, SelectTimeout, Goto
  <2>5. CASE Dispatch \/ DispatchReturn \/ DispatchDone \/ Reap
    BY <1>3, <2>5 DEF Dispatch, DispatchReturn, DispatchDone, Reap, EndTurn, Goto
  <2> QED
    BY <2>1, <2>2, <2>3, <2>4, <2>5, <2>6, <2>7 DEF Next, Loop
<1> QED
  BY <1>1, <1>2, <1>4, <1>5 DEF IInv, TypeOK

LEMMA LoopInvariant == Spec => []IInv
  BY InitIInv, NextIInv, PTL DEF Spec

\* Types: in particular the loop never takes an entry from an empty array.
THEOREM LoopTypeCorrect == Spec => []TypeOK
<1>1. IInv => TypeOK
  BY DEF IInv
<1> QED
  BY <1>1, LoopInvariant, PTL

\* The cached deadline never lies past a waiting timer's, whatever
\* mowgli_timer_add, mowgli_timer_destroy and run_timers do in any order.
THEOREM DeadlineIsSound == Spec => []DeadlineCovers
<1>1. IInv => DeadlineCovers
  BY DEF IInv, TimerInv
<1> QED
  BY <1>1, LoopInvariant, PTL

\* mowgli_eventloop_run and run_once ask epoll_wait to return no later than
\* any timer is due whose distance in milliseconds fits an int: for every
\* width of int, every set of timers and delays.
THEOREM LoopWakesInTime == Spec => NeverOversleeps
<1>1. IInv /\ [Next]_vars =>
        [pc = "check" /\ pc' = "select" /\ timeout = 0 =>
           \A t \in Live :
             LET left == (timer[t].deadline - currtime) * Millis
             IN  left < IntLimit => wake' # Forever /\ wake' <= clock * Millis + left]_vars
  <2> SUFFICES ASSUME IInv, Next, pc = "check", pc' = "select", timeout = 0,
                      NEW t \in Live, (timer[t].deadline - currtime) * Millis < IntLimit
               PROVE  /\ wake' # Forever
                      /\ wake' <= clock * Millis + (timer[t].deadline - currtime) * Millis
    BY DEF vars, lvars
  <2>1. CheckSelect
    BY DEF Next, Loop, AddTimer, DestroyTimer, UsePollable, mowgli_eventloop_break,
           mowgli_eventloop_run, mowgli_eventloop_timeout_once, Begin, CheckRun,
           TimersSkip, TimersCall, TimersReturn, TimersDone, UseFreedTimer, SelectEvents,
           SelectTimeout, Dispatch, DispatchReturn, DispatchDone, Reap, Tick, Gone,
           InClient, vars, lvars, Goto
  <2> DEFINE left == (timer[t].deadline - currtime) * Millis
             now  == clock * Millis
  <2>2. SleepPeriod \in 0..left
    BY <2>1, SleepIsShort DEF CheckSelect
  <2>3. wake' = IF SleepPeriod < 0 THEN Forever ELSE now + SleepPeriod
    BY <2>1 DEF CheckSelect
  <2>4. left \in Int
    BY EventLoopAssumption DEF IInv, TypeOK, TimersTypeOK, Live, ToSet
  <2>5. now \in Nat
    BY TimesMono DEF IInv, TypeOK
  <2> HIDE DEF left, now
  <2>6. wake' # Forever /\ wake' <= now + left
    BY <2>2, <2>3, <2>4, <2>5 DEF Forever
  <2> QED
    BY <2>6 DEF left, now
<1> QED
  BY <1>1, LoopInvariant, PTL DEF Spec, NeverOversleeps

\* mowgli_eventloop_run_timers comes to a freed timer only if the function of
\* a timer destroyed that timer or the one after it, and its memory was not
\* handed out again: nothing else that a function adds or destroys, and
\* nothing the pass itself destroys, takes what its pointers name.
THEOREM PassIsSafe == Spec => []PassHoldsLiveTimers
<1>1. IInv => PassHoldsLiveTimers
  BY DEF IInv, TimerInv, PassInv
<1> QED
  BY <1>1, LoopInvariant, PTL

\* mowgli_pollable_destroy frees neither too early for the epoll_event array
\* nor too late for the turn.
THEOREM ReapIsExact == Spec => []PollablesReaped
<1>1. IInv => PollablesReaped
  BY DEF IInv, PollableInv
<1> QED
  BY <1>1, LoopInvariant, PTL

\* No read or write function is called for a pollable after it was destroyed.
THEOREM CallbacksAreLive == Spec => NoCallbackAfterDestroy
<1>1. IInv /\ [Next]_vars =>
        [pc = "dispatch" /\ pc' = "io_cb" => pollable[Head(pfd)[1]].state = "live"]_vars
  <2> SUFFICES ASSUME IInv, Next, pc = "dispatch", pc' = "io_cb"
               PROVE  pollable[Head(pfd)[1]].state = "live"
    BY DEF vars, lvars
  <2>1. Dispatch
    BY DEF Next, Loop, AddTimer, DestroyTimer, UsePollable, mowgli_eventloop_break,
           mowgli_eventloop_run, mowgli_eventloop_timeout_once, Begin, CheckRun, CheckSelect,
           TimersSkip, TimersCall, TimersReturn, TimersDone, SelectEvents, SelectTimeout,
           DispatchReturn, DispatchDone, Reap, Tick, UseFreedTimer, Gone, lvars, vars, Goto
  <2>2. pfd # << >> /\ CallsBack(Head(pfd)[1], Head(pfd)[2])
    BY <2>1 DEF Dispatch
  <2>3. pfd \in Seq(Pollable \X Dir) /\ 1 \in DOMAIN pfd /\ Head(pfd) = pfd[1]
    BY <2>2 DEF IInv, TypeOK, PollablesTypeOK
  <2>4. pollable[Head(pfd)[1]].state \notin {"removed", "freed"}
    BY <2>2, <2>3 DEF IInv, PollableInv, PollablesReaped, NoDanglingPollable, CallsBack
  <2> QED
    BY <2>3, <2>4 DEF IInv, TypeOK, PollablesTypeOK
<1> QED
  BY <1>1, LoopInvariant, PTL DEF Spec, NoCallbackAfterDestroy

-----------------------------------------------------------------------------
(* When timers are destroyed in timer functions only, the cache is exact.  *)

\* a known deadline is that of a timer, but for the function of a timer,
\* after which it is forgotten or the process is gone
CacheInv ==
  pc \notin {"timer_cb", "dead"} /\ deadline # -1 => \E t \in Live : timer[t].deadline = deadline

LEMMA NextCacheInv ==
  ASSUME "outside" \notin Destroys, IInv, CacheInv, [Next]_vars
  PROVE  CacheInv'
<1>0. Live \subseteq Timer /\ timer \in [Timer -> [deadline : Nat, frequency : Nat]]
  BY DEF IInv, TypeOK, TimersTypeOK, Live, ToSet
<1>1. CASE AddTimer
  <2> SUFFICES ASSUME pc' \notin {"timer_cb", "dead"}, deadline' # -1
               PROVE  \E u \in Live' : timer'[u].deadline = deadline'
    BY DEF CacheInv
  <2>1. PICK t \in Timer, w \in When, f \in When \cup {0} : mowgli_timer_add_real(t, w, f)
    BY <1>1 DEF AddTimer
  <2>2. /\ t \notin Live /\ timer_list' = Append(timer_list, t)
        /\ timer' = [timer EXCEPT ![t] = [deadline |-> currtime + w, frequency |-> f]]
        /\ deadline' = IF deadline # -1 /\ currtime + w <= deadline
                       THEN currtime + w ELSE deadline
    BY <2>1 DEF mowgli_timer_add_real, LoweredDeadline
  <2>3. Live' = Live \cup {t}
    BY <2>2, AppendSet DEF IInv, TypeOK, TimersTypeOK, Live
  <2>4. CASE deadline' = deadline
    <3>1. PICK u \in Live : timer[u].deadline = deadline
      BY <1>1, <2>4 DEF CacheInv, AddTimer, lvars
    <3>2. u # t /\ timer'[u] = timer[u]
      BY <1>0, <2>2
    <3> QED
      BY <2>3, <2>4, <3>1, <3>2
  <2>5. CASE deadline' # deadline
    <3>1. deadline' = currtime + w /\ timer'[t].deadline = currtime + w
      BY <1>0, <2>2, <2>5
    <3> QED
      BY <2>3, <3>1
  <2> QED
    BY <2>4, <2>5
<1>2. CASE DestroyTimer
  BY <1>2 DEF DestroyTimer, CacheInv, lvars
<1>3. CASE Begin \/ TimersDone
  <2>1. Synchronize /\ UNCHANGED <<timer_list, timer>> /\ pc \notin {"timer_cb", "dead"}
    BY <1>3 DEF Begin, TimersDone
  <2>2. deadline' # deadline => \E t \in Live : deadline' = timer[t].deadline
    BY <2>1, NextTimer DEF IInv, TypeOK, TimerInv, Synchronize
  <2> QED
    BY <2>1, <2>2 DEF CacheInv, Live
<1>4. CASE TimersReturn
  BY <1>4 DEF TimersReturn, RunTimersFired, Reschedule, CacheInv
<1>5. CASE TimersCall
  BY <1>5 DEF TimersCall, Goto, CacheInv
<1>6. CASE \/ UsePollable \/ mowgli_eventloop_break \/ mowgli_eventloop_run
           \/ mowgli_eventloop_timeout_once \/ Tick \/ UseFreedTimer \/ Gone \/ UNCHANGED vars
  BY <1>6 DEF UsePollable, mowgli_eventloop_break, mowgli_eventloop_run,
              mowgli_eventloop_timeout_once, Tick, UseFreedTimer, Gone, Goto, CacheInv, Live, tvars, lvars, vars
<1>7. CASE \/ CheckRun \/ CheckSelect \/ TimersSkip \/ SelectEvents \/ SelectTimeout
  BY <1>7 DEF CheckRun, CheckSelect, TimersSkip, RunTimersSkip, SelectEvents, SelectTimeout,
              CacheInv, Live, tvars
<1>8. CASE Dispatch \/ DispatchReturn \/ DispatchDone \/ Reap
  BY <1>8 DEF Dispatch, DispatchReturn, DispatchDone, Reap, CacheInv, Live, tvars
<1> QED
  BY <1>1, <1>2, <1>3, <1>4, <1>5, <1>6, <1>7, <1>8 DEF Next, Loop

\* If callers destroy timers in timer functions only,
\* mowgli_eventloop_next_timer is exact: at the loop's test its result is
\* the earliest deadline, and -1 exactly when there is no timer.
THEOREM NextTimerIsExact ==
  ASSUME "outside" \notin Destroys
  PROVE  Spec => []NextTimerExact
<1>1. Init => CacheInv
  BY DEF Init, TimersInit, CacheInv
<1>2. IInv /\ CacheInv /\ [Next]_vars => CacheInv'
  BY NextCacheInv
<1>3. IInv /\ CacheInv => NextTimerExact
  <2> SUFFICES ASSUME IInv, CacheInv, pc = "check"
               PROVE  IF Live = {} THEN deadline = -1
                                   ELSE deadline = Min({timer[t].deadline : t \in Live})
    BY DEF NextTimerExact
  <2>1. CASE Live = {}
    BY <2>1 DEF CacheInv
  <2>2. CASE Live # {}
    <3> DEFINE S == {timer[t].deadline : t \in Live}
    <3>1. deadline # -1 /\ deadline \in S /\ S \in SUBSET Nat
      BY <2>2, SMTT(30) DEF IInv, TypeOK, TimersTypeOK, TimerInv, CacheInv, Live, ToSet
    <3>2. \A d \in S : deadline <= d
      BY <3>1 DEF IInv, TimerInv, DeadlineCovers
    <3> HIDE DEF S
    <3>3. Min(S) \in S /\ \A d \in S : Min(S) <= d
      BY <3>1, NatMin
    <3>4. deadline \in Nat /\ Min(S) \in Nat /\ deadline <= Min(S) /\ Min(S) <= deadline
      BY <3>1, <3>2, <3>3
    <3>5. deadline = Min(S)
      BY <3>4
    <3> QED
      BY <2>2, <3>5 DEF S
  <2> QED
    BY <2>1, <2>2
<1> QED
  BY <1>1, <1>2, <1>3, LoopInvariant, PTL DEF Spec
=============================================================================
