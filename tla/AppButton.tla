------------------------------ MODULE AppButton ------------------------------
(***************************************************************************)
(* The button handler (app_button.c) on the GPIOTE handler (app_gpiote.c), *)
(* with one user, as in main.c, and timer expiries coming through the      *)
(* scheduler.  The hardware sets EVENTS_PORT when DETECT rises: when a pin *)
(* comes to the level its SENSE field names while no other pin is at its.  *)
(* Pins change at any moment, also between two statements of the interrupt *)
(* handler, of an enabling or of a disabling.  GPIOTE is APP_HIGH and      *)
(* interrupts the timer's two handlers, RTC1, which finds an expiry, and   *)
(* SWI0, which changes the list of timers; both are APP_LOW, and the main  *)
(* loop goes on when none of the three has anything to do.                 *)
(***************************************************************************)
EXTENDS Integers, FiniteSets, Sequences

CONSTANTS
  Pin,           \* the button pins, numbers below NO_OF_PINS
  ActiveHigh,    \* those of them that are active high
  MaxPresses,    \* bound: activations of pins in a behaviour
  MaxQueued,     \* bound: expiries waiting in the scheduler
  MaxRuns        \* bound: runs of the handler before SWI0 removes the timer

ASSUME PinAssumption == Pin \subseteq Nat /\ IsFiniteSet(Pin) /\ ActiveHigh \subseteq Pin

VARIABLES
  high,          \* pins at high level: NRF_GPIO->IN
  sense,         \* the SENSE fields of PIN_CNF
  event,         \* NRF_GPIOTE->EVENTS_PORT
  enabled,       \* m_enabled_users_mask, and INTEN with it
  senseHigh,     \* sense_high_pins
  irq,           \* GPIOTE_IRQHandler: idle, or the state of the pins it has read
  timer,         \* the detection timer: the pins given to its handler, none if off
  runs,          \* how often RTC1 has queued the handler of the listed timer
  queued,        \* expiries in the scheduler queue, each with its pins
  call,          \* app_button_enable or _disable in progress
  presses,       \* history: activations so far
  credit,        \* history: reports of each pin that are accounted for, less those made
  owed           \* history: pins whose press nothing has disturbed, not yet reported

port    == <<high, sense, event>>
module  == <<enabled, senseHigh, irq>>
timing  == <<timer, runs, queued>>
history == <<presses, credit, owed>>
vars    == <<port, module, timing, call, history>>

NoPins == {}
NoRead == [busy |-> FALSE, pins |-> NoPins]
NoCall == [op |-> "none", todo |-> NoPins, pins |-> NoPins, loaded |-> NoPins]

Active(levels) == {p \in Pin : (p \in levels) = (p \in ActiveHigh)}

\* The level a SENSE field waits for.
AtSense(p, levels, s) == \/ s[p] = "high" /\ p \in levels
                         \/ s[p] = "low" /\ p \notin levels
Detect(levels, s) == \E p \in Pin : AtSense(p, levels, s)
Rises == ~Detect(high, sense) /\ Detect(high', sense')

\* The SENSE field of p is what sense_high_pins says.
Agrees(p) == sense[p] = IF p \in senseHigh THEN "high" ELSE "low"

Count(f, pins, d) == [p \in Pin |-> IF p \in pins THEN f[p] + d ELSE f[p]]

Init == /\ high \in SUBSET Pin
        /\ sense = [p \in Pin |-> "off"] /\ event = FALSE
        /\ enabled = FALSE /\ senseHigh = NoPins /\ irq = NoRead
        /\ timer = NoPins /\ runs = 0 /\ queued = <<>> /\ call = NoCall
        /\ presses = 0 /\ credit = [p \in Pin |-> 0] /\ owed = NoPins

-----------------------------------------------------------------------------
(* The hardware *)

\* A pin changes.  A press is owed a report when it raises DETECT while the
\* handler is idle and knows the pin's SENSE field, as long as no pin changes
\* after it.
PinChange(p) ==
  /\ p \in Active(high) \/ presses < MaxPresses
  /\ high' = IF p \in high THEN high \ {p} ELSE high \cup {p}
  /\ UNCHANGED sense
  /\ event' = (event \/ Rises)
  /\ presses' = IF p \in Active(high') THEN presses + 1 ELSE presses
  /\ credit' = Count(credit, {p} \cap Active(high'), 1)
  /\ owed' = IF p \in Active(high') /\ enabled /\ call = NoCall /\ irq = NoRead
                /\ Agrees(p) /\ Rises
             THEN {p} ELSE NoPins
  /\ UNCHANGED <<module, timing, call>>

\* RTC1_IRQHandler finds the single-shot timer expired and puts its handler into
\* the scheduler, again if it comes a second time before SWI0.
TimerExpiry ==
  /\ irq = NoRead /\ timer # NoPins
  /\ Len(queued) < MaxQueued /\ runs < MaxRuns
  /\ queued' = Append(queued, timer)
  /\ runs' = runs + 1
  /\ credit' = IF runs = 0 THEN credit ELSE Count(credit, timer, 1)
  /\ UNCHANGED <<port, module, timer, call, presses, owed>>

\* SWI0 takes the expired timer out of the list.
TimerRemoved ==
  /\ irq = NoRead /\ runs > 0
  /\ timer' = NoPins /\ runs' = 0
  /\ UNCHANGED <<port, module, queued, call, history>>

-----------------------------------------------------------------------------
(* GPIOTE_IRQHandler: it interrupts the main loop between any two statements *)

IrqRead == /\ enabled /\ event /\ irq = NoRead
           /\ irq' = [busy |-> TRUE, pins |-> high]
           /\ UNCHANGED <<port, enabled, senseHigh, timing, call, history>>

\* Pins that are no longer what sense_high_pins says: a pin with its bit set
\* was low, any other one was high.
TransitionPins(pins) == {p \in Pin : (p \in pins) = (p \in senseHigh)}

\* Mutant: releases are reported to the user as well.
AnyEdge(pins) == TransitionPins(pins)
\* event_low_to_high | event_high_to_low
UserPins(pins) == TransitionPins(pins) \cap Active(pins)

\* sense_level_toggle
SenseToggled(toggled) == (senseHigh \ toggled) \cup (toggled \ senseHigh)

\* gpiote_event_handler of app_button.c: stops the timer and starts it again.
Restarted(pins) == timer' = pins /\ runs' = 0 /\ UNCHANGED owed

\* Either operation is refused when its queue is full, which loses the press.
Refused == /\ timer' \in {timer, NoPins}
           /\ runs' = IF timer' = timer THEN runs ELSE 0
           /\ owed' = NoPins

\* Both are accepted, and the timer goes on for the pins it had: SWI0 drops a stop
\* that comes between its passes and ignores the start of a timer still listed,
\* also that of an earlier start it has yet to carry out.
Overlooked == /\ timer # NoPins
              /\ UNCHANGED <<timer, runs>>
              /\ owed' = owed \cap timer

UserHandler(pins) ==
  \/ pins = NoPins /\ UNCHANGED <<timer, runs, owed>>
  \/ pins # NoPins /\ (Restarted(pins) \/ Refused \/ Overlooked)

Toggled(toggled) == [p \in Pin |-> IF p \notin toggled THEN sense[p]
                                  ELSE IF p \in senseHigh THEN "low" ELSE "high"]

\* The SENSE fields are toggled pin by pin: DETECT may rise again at any of them.
RisesAgain(toggled) ==
  \E p \in toggled : LET before == {q \in toggled : q < p}
                    IN  ~Detect(high, Toggled(before)) /\ Detect(high, Toggled(before \cup {p}))

\* Mutant: the event is left for the next interrupt.
EventKept(toggled) == event' = TRUE
\* EVENTS_PORT is cleared before the SENSE fields are toggled.
EventCleared(toggled) == event' = RisesAgain(toggled)

Enabling == call.op \in {"zero", "load", "store", "set"}

\* An edge handled during an enabling is not one that sense_high_pins vouches for.
IrqHandle ==
  LET toggled == TransitionPins(irq.pins)
  IN  /\ irq.busy
      /\ irq' = NoRead
      /\ UNCHANGED high
      /\ sense' = Toggled(toggled)
      /\ senseHigh' = SenseToggled(toggled)
      /\ EventCleared(toggled)
      /\ UserHandler(UserPins(irq.pins))
      /\ credit' = IF Enabling THEN Count(credit, UserPins(irq.pins), 1) ELSE credit
      /\ UNCHANGED <<enabled, queued, call, presses>>

-----------------------------------------------------------------------------
(* The main loop *)

MayRun == irq = NoRead /\ runs = 0
Idle == MayRun /\ call = NoCall

\* detection_delay_timeout_handler: reports the pins that are still active.
RunTimeout ==
  LET pressed == queued[1] \cap Active(high)
  IN  /\ Idle /\ queued # <<>>
      /\ queued' = Tail(queued)
      /\ credit' = Count(credit, pressed, -1)
      /\ owed' = owed \ pressed
      /\ UNCHANGED <<port, module, timer, runs, call, presses>>

\* app_button_enable (app_gpiote_user_enable), called while not enabled: the
\* event is cleared, the pins are read once and the interrupt is enabled, then
\* sense_high_pins is cleared, and sensing starts pin by pin.
EnableStart ==
  /\ Idle /\ ~enabled
  /\ event' = FALSE
  /\ call' = [NoCall EXCEPT !.op = "read"]
  /\ UNCHANGED <<high, sense, module, timing, history>>

EnableRead ==
  /\ MayRun /\ call.op = "read"
  /\ enabled' = TRUE
  /\ call' = [call EXCEPT !.op = "zero", !.todo = Pin, !.pins = high]
  /\ UNCHANGED <<port, senseHigh, irq, timing, history>>

EnableZero ==
  /\ MayRun /\ call.op = "zero"
  /\ senseHigh' = NoPins
  /\ call' = [call EXCEPT !.op = "load"]
  /\ UNCHANGED <<port, enabled, irq, timing, history>>

First(todo) == CHOOSE p \in todo : \A q \in todo : p <= q

LowBefore(p) == p \notin call.pins

\* sense_high_pins |= pin_mask, in the two steps an interrupt may fall between;
\* a pin that was high keeps the bit an interrupt may have set.
EnableLoad ==
  /\ MayRun /\ call.op = "load" /\ call.todo # NoPins
  /\ call' = [call EXCEPT !.op = "store", !.loaded = senseHigh]
  /\ UNCHANGED <<port, module, timing, history>>

EnableStore ==
  LET p == First(call.todo)
  IN  /\ MayRun /\ call.op = "store"
      /\ senseHigh' = IF LowBefore(p) THEN call.loaded \cup {p} ELSE senseHigh
      /\ credit' = Count(credit, {p} \cap call.pins \cap senseHigh, 1)
      /\ call' = [call EXCEPT !.op = "set", !.loaded = NoPins]
      /\ UNCHANGED <<port, enabled, irq, timing, presses, owed>>

\* PIN_CNF is cleared and set in one step: an interrupt between the two leaves
\* what one before or after them leaves.
EnableSet ==
  LET p == First(call.todo)
  IN  /\ MayRun /\ call.op = "set"
      /\ sense' = [sense EXCEPT ![p] = IF LowBefore(p) THEN "high" ELSE "low"]
      /\ UNCHANGED high
      /\ event' = (event \/ Rises)
      /\ call' = [call EXCEPT !.op = "load", !.todo = @ \ {p}]
      /\ UNCHANGED <<module, timing, history>>

\* app_button_disable
DisableStart ==
  /\ Idle /\ enabled
  /\ call' = [NoCall EXCEPT !.op = "disable", !.todo = Pin]
  /\ owed' = NoPins
  /\ UNCHANGED <<port, module, timing, presses, credit>>

\* pins_sense_disable
DisablePin ==
  LET p == First(call.todo)
  IN  /\ MayRun /\ call.op = "disable" /\ call.todo # NoPins
      /\ sense' = [sense EXCEPT ![p] = "off"]
      /\ UNCHANGED high
      /\ event' = (event \/ Rises)
      /\ call' = [call EXCEPT !.todo = @ \ {p}]
      /\ UNCHANGED <<module, timing, history>>

\* The user's bit and the interrupt go off; then app_timer_stop, which may be
\* refused.
CallEnd ==
  /\ MayRun /\ call.op \in {"load", "disable"} /\ call.todo = NoPins
  /\ call' = NoCall
  /\ IF call.op = "disable" THEN enabled' = FALSE /\ timer' \in {timer, NoPins}
                            ELSE UNCHANGED <<enabled, timer>>
  /\ UNCHANGED <<port, senseHigh, irq, runs, queued, history>>

Irq    == IrqRead \/ IrqHandle
InCall == \/ EnableRead \/ EnableZero \/ EnableLoad \/ EnableStore \/ EnableSet
          \/ DisablePin \/ CallEnd

Next == \/ \E p \in Pin : PinChange(p)
        \/ TimerExpiry \/ TimerRemoved \/ Irq \/ RunTimeout \/ InCall
        \/ EnableStart \/ DisableStart

Spec == Init /\ [][Next]_vars

\* Interrupts are taken, the timer expires and the main loop goes on; nobody
\* has to press a button.
FairSpec == /\ Spec
            /\ WF_vars(TimerExpiry) /\ WF_vars(TimerRemoved) /\ WF_vars(Irq)
            /\ WF_vars(RunTimeout) /\ WF_vars(InCall)

-----------------------------------------------------------------------------
(* Properties *)

\* What the software believes of the SENSE fields is what the fields hold:
\* otherwise an edge is met by a handler that sees no transition, for good.
SenseAgrees ==
  Idle /\ enabled => \A p \in Pin : Agrees(p)

\* The comment of app_gpiote_user_disable, "Disable sensing for all pins for
\* specified user".
SensingStops == Idle /\ ~enabled => \A p \in Pin : sense[p] = "off"

\* The comment of app_button_disable, "Make sure polling timer is not running".
NoReportWhenDisabled == [][(\E p \in Pin : credit'[p] < credit[p]) => enabled]_vars

\* A pin that was pressed and is being detected stays so until the timer
\* expires (the comment of detection_delay_timeout_handler, "p_context will be
\* holding the currently pressed buttons").
PressedHeld ==
  [][IrqHandle /\ timer # NoPins /\ timer' # NoPins => timer \cap Active(high) \subseteq timer']_vars

\* A report needs a press of its own: bounces, restarts of the timer, disabling
\* and expiries that were already on their way never report one press twice.
\* What may is given credit: the timer's handler run a second time, and an edge
\* met while the buttons were being enabled, with the bit it leaves behind.
OneReportPerPress == \A p \in Pin : credit[p] >= 0

\* While a pin keeps DETECT high no other edge raises it: an interrupt must be
\* on its way (app_gpiote.h, "call the event handler of each user for which at
\* least one of the pins generated an event").
PortNotStuck == Idle /\ enabled /\ Detect(high, sense) => event

\* A press that raises DETECT, finds the handler idle and sure of the pin's SENSE
\* field, and is held without any other pin changing, is reported, unless the
\* timer module refuses it or goes on for other pins, or the buttons are disabled.
HeldPressReported == (owed # NoPins) ~> (owed = NoPins)
=============================================================================
