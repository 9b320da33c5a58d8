------------------------------ MODULE AppTimer ------------------------------
(***************************************************************************)
(* app_timer.c: timers on the RTC1 counter.                                *)
(*                                                                         *)
(* Callers of three levels (thread, APP_LOW, APP_HIGH) append operations   *)
(* to a queue of their own.  Two interrupt handlers of level APP_LOW do    *)
(* the work: RTC1 runs the handlers of the timers that have expired, and   *)
(* SWI0 applies expiries and operations to the timer list and sets the     *)
(* compare register.  Neither interrupts the other; both interrupt thread  *)
(* code, and APP_HIGH code interrupts everything.  Nothing is locked.      *)
(***************************************************************************)
EXTENDS Integers, TimerList

CONSTANTS
  NTimers,        \* max_timers; a timer id is 1..NTimers here
  Periodic,       \* timers created with APP_TIMER_MODE_REPEATED
  Timeout,        \* values of timeout_ticks the callers use
  Starter,        \* levels that call app_timer_start,
  Stopper,        \* app_timer_stop
  AllStopper,     \* and app_timer_stop_all
  OpQueueSize,    \* operations a user's queue can hold
  CounterMod,     \* 2^24 in the hardware: width of COUNTER
  CompareOffset,  \* RTC_COMPARE_OFFSET_MIN
  MinTimeout,     \* APP_TIMER_MIN_TIMEOUT_TICKS
  MaxLatency,     \* assumed: ticks until a pending handler has run
  MaxLag          \* assumed: ticks that m_ticks_latest may fall behind

HIGH   == 0
LOW    == 1
THREAD == 2
User   == {HIGH, LOW, THREAD}
Timer  == 1..NTimers
None   == 0                 \* TIMER_NULL
Tick   == 0..CounterMod - 1

ASSUME TimerAssumption   == NTimers \in Nat \ {0} /\ Periodic \subseteq Timer
ASSUME CallerAssumption  == Starter \cup Stopper \cup AllStopper \subseteq User
ASSUME CounterAssumption == /\ CounterMod \in Nat \ {0} /\ MaxLatency \in Nat /\ MaxLag \in Nat
                            /\ CompareOffset \in Nat \ {0} /\ MinTimeout \in Nat
                            /\ OpQueueSize \in Nat
ASSUME TimeoutAssumption == Timeout \subseteq 1..CounterMod - 1

VARIABLES
  counter,    \* RTC1 COUNTER
  cc,         \* RTC1 CC[0]
  sure,       \* CC[0] was written early enough for the COMPARE event to be certain
  event,      \* RTC1 EVENTS_COMPARE[0]
  rtcOn,      \* RTC1 started and its interrupt enabled
  rtcPend,    \* RTC1 interrupt pended by software
  swiPend,    \* SWI0 interrupt pending
  ops,        \* the users' operation queues
  call,       \* the thread's call in progress
  low,        \* handler active at level APP_LOW, and its local variables
  list,       \* m_timer_id_head, next and ticks_to_expire of the nodes
  running,    \* is_running of the nodes
  interval,   \* ticks_first_interval of the last start, also the period
  latest,     \* m_ticks_latest
  queued,     \* the entry of m_ticks_elapsed not yet read, or NoTicks
  late,       \* history: ticks spent on the handler active or pending
  startAt,    \* history: counter value from which the current interval runs
  fires,      \* history: handler runs since the timer was inserted
  owed        \* history: timers running when a stop was accepted, not yet stopped

rtcVars  == <<counter, cc, sure, event, rtcOn, rtcPend>>
nodeVars == <<list, running, interval, startAt, fires>>
vars     == <<rtcVars, late, swiPend, ops, call, low, nodeVars, latest, queued, owed>>

NoTicks == -1
NoOp    == [type |-> "none", timer |-> None, at |-> 0, timeout |-> 0]
IdleLow == [pc |-> "idle", update |-> FALSE, oldHead |-> None, midHead |-> None,
            restart |-> <<>>, pre |-> 0]
IdleCall == [pc |-> "idle", op |-> NoOp]

HandlerDone == low' = IdleLow /\ late' = 0

\* ticks_diff_get
Diff(now, old) == (now - old) % CounterMod
Lag == Diff(counter, latest)

\* app_timer_init and the creation of the timers: the counter may hold any value.
Init == /\ counter \in Tick /\ latest = counter
        /\ cc = 0 /\ sure = FALSE /\ event = FALSE /\ rtcOn = FALSE /\ rtcPend = FALSE
        /\ late = 0
        /\ swiPend = FALSE
        /\ ops = [u \in User |-> <<>>]
        /\ call = IdleCall /\ low = IdleLow
        /\ list = [order |-> <<>>, ticks |-> [t \in Timer |-> 0]]
        /\ running = [t \in Timer |-> FALSE]
        /\ interval = [t \in Timer |-> 0]
        /\ queued = NoTicks
        /\ startAt = [t \in Timer |-> 0]
        /\ fires = [t \in Timer |-> 0]
        /\ owed = {}

-----------------------------------------------------------------------------
(* The RTC1 peripheral.                                                    *)

RtcReady == rtcOn /\ (rtcPend \/ event)

\* A handler or a call is pending or in progress.
Busy == RtcReady \/ swiPend \/ low.pc # "idle" \/ call.pc # "idle"

\* The counter counts while the RTC runs.  The COMPARE event is certain only if
\* CC[0] was written while COUNTER was at least two below it.  A handler is done
\* within MaxLatency ticks.
RtcTick == /\ rtcOn /\ Lag < MaxLag
           /\ Busy => late < MaxLatency
           /\ late' = IF Busy THEN late + 1 ELSE 0
           /\ counter' = (counter + 1) % CounterMod
           /\ event' \in IF counter' # cc THEN {event}
                         ELSE IF sure THEN {TRUE} ELSE {TRUE, event}
           /\ sure' = TRUE
           /\ UNCHANGED <<cc, rtcOn, rtcPend, swiPend, ops, call, low, nodeVars, latest,
                          queued, owed>>

-----------------------------------------------------------------------------
(* Calls of app_timer_start, app_timer_stop and app_timer_stop_all.        *)

Op(u) ==
  {[type |-> "start", timer |-> t, at |-> counter, timeout |-> k] :
     t \in IF u \in Starter THEN Timer ELSE {}, k \in {k \in Timeout : k >= MinTimeout}}
  \cup {[type |-> "stop", timer |-> t, at |-> 0, timeout |-> 0] :
     t \in IF u \in Stopper THEN Timer ELSE {}}
  \cup {[type |-> "stop_all", timer |-> None, at |-> 0, timeout |-> 0] :
     t \in IF u \in AllStopper THEN {None} ELSE {}}

Stops(op, t) == op.type = "stop_all" \/ (op.type = "stop" /\ op.timer = t)

Enque(u, op) == /\ ops' = [ops EXCEPT ![u] = Append(@, op)]
                /\ owed' = owed \cup {t \in Timer : running[t] /\ Stops(op, t)}

\* user_op_alloc finds room; with none the call returns NRF_ERROR_NO_MEM.
HasRoom(u) == Len(ops[u]) < OpQueueSize

\* A call from an interrupt handler is over before anything that touches its
\* queue runs.  APP_LOW callers are other handlers of that level, timeout
\* handlers called by RTC1 included.
IrqCall(u) == /\ (u = LOW => low.pc = "idle")
              /\ HasRoom(u)
              /\ \E op \in Op(u) : Enque(u, op)
              /\ swiPend' = TRUE
              /\ UNCHANGED <<rtcVars, late, call, low, nodeVars, latest, queued>>

\* The thread's call may be interrupted after each step: the entry is filled,
\* then made visible by user_op_enque, then SWI0 is pended.
ThreadCall == /\ low.pc = "idle" /\ call.pc = "idle"
              /\ HasRoom(THREAD)
              /\ \E op \in Op(THREAD) : call' = [pc |-> "enque", op |-> op]
              /\ UNCHANGED <<rtcVars, late, swiPend, ops, low, nodeVars, latest, queued, owed>>

ThreadEnque == /\ call.pc = "enque" /\ low.pc = "idle"
               /\ Enque(THREAD, call.op)
               /\ call' = [call EXCEPT !.pc = "pend"]
               /\ UNCHANGED <<rtcVars, late, swiPend, low, nodeVars, latest, queued>>

\* Mutant: the thread's call ends without pending SWI0.
ThreadPendNot == /\ call.pc = "pend" /\ low.pc = "idle"
                 /\ call' = IdleCall
                 /\ UNCHANGED <<rtcVars, late, swiPend, ops, low, nodeVars, latest, queued,
                                owed>>

ThreadPend == /\ call.pc = "pend" /\ low.pc = "idle"
              /\ swiPend' = TRUE
              /\ call' = IdleCall
              /\ UNCHANGED <<rtcVars, late, ops, low, nodeVars, latest, queued, owed>>

-----------------------------------------------------------------------------
(* RTC1_IRQHandler.                                                        *)

\* It has the lower interrupt number, so it goes first when both are pending.
RtcEnter == /\ RtcReady /\ low.pc = "idle"
            /\ event' = FALSE /\ rtcPend' = FALSE
            /\ low' = [low EXCEPT !.pc = "rtc"]
            /\ UNCHANGED <<counter, cc, sure, rtcOn, late, swiPend, ops, call, nodeVars, latest,
                           queued, owed>>

\* Mutant: SWI0 is not told of the expired timers.
RtcCheckUnannounced ==
  /\ low.pc = "rtc"
  /\ HandlerDone
  /\ \/ IsEmptyList(list) /\ UNCHANGED <<fires, queued>>
     \/ /\ ~IsEmptyList(list)
        /\ fires' = [t \in Timer |-> IF t \in ToSet(Expired(list, Lag)) /\ fires[t] < 2
                                     THEN fires[t] + 1 ELSE fires[t]]
        /\ queued' = ExpiredTicks(list, Lag)
  /\ UNCHANGED <<rtcVars, swiPend, ops, call, list, running, interval, startAt, latest, owed>>

\* timer_timeouts_check: run the handlers of the expired timers and leave the
\* ticks they account for to SWI0, over those it has not yet read.
RtcCheck ==
  /\ low.pc = "rtc"
  /\ HandlerDone
  /\ \/ IsEmptyList(list) /\ UNCHANGED <<fires, queued, swiPend>>
     \/ /\ ~IsEmptyList(list)
        /\ fires' = [t \in Timer |-> IF t \in ToSet(Expired(list, Lag)) /\ fires[t] < 2
                                     THEN fires[t] + 1 ELSE fires[t]]
        /\ queued' = ExpiredTicks(list, Lag)
        /\ swiPend' = TRUE
  /\ UNCHANGED <<rtcVars, ops, call, list, running, interval, startAt, latest, owed>>

-----------------------------------------------------------------------------
(* SWI0_IRQHandler: timer_list_handler.                                    *)

\* list_deletions_handler on one operation: a stop removes the timer if its
\* is_running is set, a stop of all empties the list; both clear the flags.
Deletion(node, op) ==
  CASE op.type = "stop" /\ node.running[op.timer] ->
         [list    |-> Removed(node.list, op.timer),
          running |-> [node.running EXCEPT ![op.timer] = FALSE]]
    [] op.type = "stop_all" ->
         [list    |-> Emptied(node.list),
          running |-> [t \in Timer |-> node.running[t] /\ t \notin Listed(node.list)]]
    [] OTHER -> node

\* Every stop operation queued so far, thread first.
Batch == ops[THREAD] \o ops[LOW] \o ops[HIGH]
Deleted(node, batch) ==
  LET after[n \in 0..Len(batch)] == IF n = 0 THEN node ELSE Deletion(after[n - 1], batch[n])
  IN  after[Len(batch)]

\* The repeating timers among the expired ones, each pushed before those ahead of it.
RestartList(gone) ==
  LET pushed[n \in 0..Len(gone)] ==
        IF n = 0 THEN <<>>
        ELSE IF gone[n] \in Periodic THEN <<gone[n]>> \o pushed[n - 1]
        ELSE pushed[n - 1]
  IN  pushed[Len(gone)]

\* elapsed_ticks_acquire, list_deletions_handler and expired_timers_handler, which
\* takes the expired timers off the list and clears their flags.
SwiBegin ==
  LET deleted == Deleted([list |-> list, running |-> running], Batch)
      left    == deleted.list
      elapsed == queued # NoTicks
      gone    == IF elapsed THEN Expired(left, queued) ELSE <<>>
  IN
  /\ swiPend /\ ~RtcReady /\ low.pc = "idle"
  /\ swiPend' = FALSE
  /\ queued' = NoTicks
  /\ latest' = IF elapsed THEN (latest + queued) % CounterMod ELSE latest
  /\ list' = IF elapsed THEN Advanced(left, queued) ELSE left
  /\ running' = [t \in Timer |-> deleted.running[t] /\ t \notin ToSet(gone)]
  /\ startAt' = [t \in Timer |-> IF t \in ToSet(gone) \cap Periodic
                                 THEN (latest + Due(left, t)) % CounterMod
                                 ELSE IF running'[t] THEN startAt[t] ELSE 0]
  /\ fires' = [t \in Timer |-> IF running'[t] THEN fires[t] ELSE 0]
  /\ owed' = {t \in owed : running'[t]}
  /\ low' = [pc |-> "insert", update |-> elapsed \/ HeadOf(left) # HeadOf(list),
             oldHead |-> HeadOf(list), midHead |-> HeadOf(list'),
             restart |-> RestartList(gone), pre |-> 0]
  /\ UNCHANGED <<rtcVars, late, ops, call, interval>>

\* Mutant: the interval is counted from m_ticks_latest, whenever it began.
TicksFromLatest(at, timeout) == timeout

\* The ticks from m_ticks_latest to the expiry of an interval that began at
\* counter value at; half the counter's range tells past from future.
TicksToExpire(at, timeout) ==
  IF Diff(at, latest) < (CounterMod - 1) \div 2 THEN Diff(at, latest) + timeout
  ELSE IF timeout > Diff(latest, at) THEN timeout - Diff(latest, at)
  ELSE 0

Insert(t, at, timeout) ==
  /\ list' = Inserted(list, t, TicksToExpire(at, timeout))
  /\ running' = [running EXCEPT ![t] = TRUE]
  /\ interval' = [interval EXCEPT ![t] = timeout]
  /\ startAt' = [startAt EXCEPT ![t] = at]
  /\ fires' = [fires EXCEPT ![t] = 0]

\* Mutant: a start of a timer that is running is not ignored.
StartsAnyway(op) == op.type = "start"

Starts(op) == op.type = "start" /\ ~running[op.timer]

\* list_insertions_handler, one operation at a time since APP_HIGH may append
\* meanwhile: the restart list, then the users from thread to APP_HIGH.  Stop
\* operations met here are dropped, and so are starts of a running timer.
SwiRestart == /\ low.pc = "insert" /\ low.restart # <<>>
              /\ Insert(Head(low.restart), startAt[Head(low.restart)],
                        interval[Head(low.restart)])
              /\ low' = [low EXCEPT !.restart = Tail(@)]
              /\ UNCHANGED <<rtcVars, late, swiPend, ops, call, latest, queued, owed>>

SwiInsert(u) ==
  LET op == Head(ops[u]) IN
  /\ low.pc = "insert" /\ low.restart = <<>>
  /\ ops[u] # <<>> /\ \A v \in User : v > u => ops[v] = <<>>
  /\ ops' = [ops EXCEPT ![u] = Tail(@)]
  /\ IF Starts(op)
     THEN Insert(op.timer, op.at, op.timeout)
     ELSE UNCHANGED nodeVars
  /\ UNCHANGED <<rtcVars, late, swiPend, call, low, latest, queued, owed>>

\* No operation is left.  compare_reg_update reads the counter and, with timers
\* to wait for and none before, starts the RTC; or stops it.
SwiCompare ==
  /\ low.pc = "insert" /\ low.restart = <<>> /\ \A u \in User : ops[u] = <<>>
  /\ \/ /\ ~low.update /\ HeadOf(list) = low.midHead
        /\ HandlerDone
        /\ UNCHANGED rtcVars
     \/ /\ low.update \/ HeadOf(list) # low.midHead
        /\ \/ /\ IsEmptyList(list)
              /\ rtcOn' = FALSE
              /\ HandlerDone
              /\ UNCHANGED <<counter, cc, sure, event, rtcPend>>
           \/ /\ ~IsEmptyList(list)
              /\ rtcOn' = TRUE
              /\ rtcPend' = (rtcPend /\ low.oldHead # None)
              /\ low' = [IdleLow EXCEPT !.pc = "compare", !.pre = counter]
              /\ UNCHANGED <<counter, cc, sure, event, late>>
  /\ UNCHANGED <<swiPend, ops, call, nodeVars, latest, queued, owed>>

\* Mutant: a late write of CC[0] is not noticed.
NeverMissed(next) == FALSE

\* N + 1 or less was written to CC[0] while the counter was at N, or may have been.
MayMiss(next) == Diff(counter, low.pre) + CompareOffset > Diff(next, low.pre)

\* Write CC[0], read the counter again and pend RTC1 if the event may be missed.
SwiSetCompare ==
  LET elapsed == Diff(low.pre, latest) + CompareOffset
      due     == DueAt(list, 1)
      next    == (latest + (IF elapsed < due THEN due ELSE elapsed)) % CounterMod
  IN
  /\ low.pc = "compare"
  /\ cc' = next
  /\ sure' = (Diff(next, counter) > 1)
  /\ event' \in IF next = counter THEN {TRUE, event} ELSE {event}
  /\ rtcPend' = (rtcPend \/ MayMiss(next))
  /\ HandlerDone
  /\ UNCHANGED <<counter, rtcOn, swiPend, ops, call, nodeVars, latest, queued, owed>>

-----------------------------------------------------------------------------
ThreadStep == ThreadEnque \/ ThreadPend
RtcStep    == RtcEnter \/ RtcCheck
SwiStep    == SwiBegin \/ SwiRestart \/ (\E u \in User : SwiInsert(u))
              \/ SwiCompare \/ SwiSetCompare

Next == \/ RtcTick
        \/ \E u \in {HIGH, LOW} : IrqCall(u)
        \/ ThreadCall \/ ThreadStep
        \/ RtcStep \/ SwiStep

Spec == Init /\ [][Next]_vars

\* Time passes whatever the callers do (SF: a busy module holds the counter back
\* for an instant only) and interrupts are served; callers owe nothing but to
\* finish a call they began.
FairSpec == /\ Spec
            /\ SF_vars(RtcTick) /\ WF_vars(ThreadStep)
            /\ WF_vars(RtcStep) /\ WF_vars(SwiStep)

-----------------------------------------------------------------------------
(* Properties.                                                             *)

\* The list holds the running timers, each once.
ListIsRunning == /\ IsInjective(list.order)
                 /\ Listed(list) = {t \in Timer : running[t]}

\* Whatever was inserted and removed around it, a listed timer is due its
\* timeout after its start, or at once if that was over when it was inserted.
DeadlineKept ==
  \A t \in Listed(list) :
    LET deadline == Diff(latest + Due(list, t), startAt[t])
    IN  deadline = interval[t] \/ (Due(list, t) = 0 /\ deadline > interval[t])

\* A handler is never run before its timer's timeout is over.
NeverEarly ==
  [][low.pc = "rtc" /\ low'.pc = "idle" =>
       \A t \in ToSet(Expired(list, Lag)) : Diff(counter, startAt[t]) >= interval[t]]_vars

\* While timers run and no handler is active or pending, a COMPARE event is
\* certain to come, when the head is due or within the offset after now.
CompareArmed ==
  ~IsEmptyList(list) /\ low.pc = "idle" /\ ~swiPend /\ ~RtcReady =>
    /\ rtcOn /\ (sure \/ Diff(cc, counter) # 1)
    /\ Diff(cc, latest) > Lag
    /\ Diff(cc, latest) <= DueAt(list, 1) \/ Diff(cc, counter) <= CompareOffset

\* No accepted operation is stranded: SWI0 is pending, or at work on the queues,
\* or the thread is about to pend it.
OpsAnnounced == (\E u \in User : ops[u] # <<>>) =>
                  swiPend \/ low.pc = "insert" \/ call.pc = "pend"

\* A running timer leaves the list: it expires, or is stopped.
EveryTimerExpires == \A t \in Timer : running[t] ~> ~running[t]

Quiet == low.pc = "idle" /\ ~swiPend /\ call.pc = "idle"

\* app_timer.h:115, a single-shot timer "will expire only once".
SingleShotOnce == \A t \in Timer \ Periodic : fires[t] <= 1

\* app_timer.h:225, app_timer_stop answers NRF_SUCCESS, "Timer was successfully
\* stopped": once all operations are applied, a timer that was running when the
\* stop was accepted has been stopped or has expired.
StopHonoured == Quiet => owed = {}
=============================================================================
