------------------------------- MODULE BleApp -------------------------------
(***************************************************************************)
(* main.c with ble_stack_handler.c: the firmware around the connection     *)
(* parameters module.  BLE events and timer expiries both reach it through *)
(* the scheduler queue, whose behaviour is that of SchedQueue (AppScheduler*)
(* is shown to implement it).  One scheduler entry for BLE events drains   *)
(* every event the SoftDevice has, so entries and events are not paired.   *)
(***************************************************************************)
EXTENDS ConnParams

CONSTANTS
  SchedQueueSize,  \* SCHED_QUEUE_SIZE
  Usages,          \* uses of the module to check, see usage
  PromptMain       \* the main loop is never behind by a timer period (seconds)

ASSUME CountAssumption == MaxUpdateCount \in Nat \ {0} /\ CountMod \in Nat \ {0}
ASSUME QueueAssumption == SchedQueueSize \in Nat \ {0}
ASSUME BoundAssumption == MaxSdEvents \in Nat /\ MaxConn \in Nat

VARIABLES
  appHandle,   \* main.c's own m_conn_handle is valid
  advLed,      \* ADVERTISING_LED_PIN_NO
  connLed,     \* CONNECTED_LED_PIN_NO
  powered,     \* FALSE in system-off
  queue,       \* scheduler queue
  current,     \* entry whose handler is running
  outcome,     \* answer to the last put
  usage        \* "firmware": as in main.c; "library": negotiation starts when the
               \* peer enables notifications, the application calls the whole API

appVars   == <<appHandle, advLed, connLed, powered>>
schedVars == <<queue, current, outcome>>
vars      == <<sdVars, cpVars, fault, appVars, schedVars, usage>>

Firmware == usage = "firmware"

BleEvt    == [kind |-> "ble", conn |-> 0]
Expiry(c) == [kind |-> "timeout", conn |-> c]
NoEvt     == [kind |-> "none", conn |-> 0]
SchedEvt  == {BleEvt} \cup {Expiry(c) : c \in 0..MaxConn}

Sched == INSTANCE SchedQueue WITH
  Event <- SchedEvt, Capacity <- SchedQueueSize, NoEvent <- NoEvt, pending <- queue

\* The state main() reaches before its loop: everything initialised, the
\* SoftDevice fresh and advertising.
Init == /\ link = "adv" /\ updating = FALSE /\ sdEvents = <<>> /\ swi2 = FALSE
        /\ CpInit /\ fault = NoFault
        /\ appHandle = FALSE /\ advLed = TRUE /\ connLed = FALSE /\ powered = TRUE
        /\ Sched!Init
        /\ usage \in Usages
        /\ conn = 0 /\ interval = Preferred

Alive == powered /\ fault = NoFault

-----------------------------------------------------------------------------
(* Interrupts: they only put entries into the scheduler queue.             *)

\* A put, and the APP_ERROR_CHECK of its result.
Put(e) == \/ Sched!Accept(e) /\ fault' = NoFault
          \/ Sched!Refuse /\ ErrorCheck("app_sched_event_put", "NO_MEM")

\* SWI2_IRQHandler
Swi2Irq == /\ Alive /\ swi2
           /\ swi2' = FALSE
           /\ Put(BleEvt)
           /\ UNCHANGED <<link, interval, updating, sdEvents, conn, cpVars, appVars>>

\* The connection parameters timer expires; app_timer schedules its handler.
TimerExpiry == /\ Alive /\ timer.running
               /\ PromptMain => queue = <<>> /\ current = NoEvt /\ ~swi2
               /\ timer' = NoTimer
               /\ Put(Expiry(timer.conn))
               /\ UNCHANGED <<sdVars, appVars, cpHandle, updateCount, currentParams,
                              preferred, changeParam, cpConn, sent, last>>

-----------------------------------------------------------------------------
(* The main loop.                                                          *)

\* ble_evt_dispatch: on_ble_evt of main.c, then ble_conn_params_on_ble_evt.

HandleConnected(e) == /\ appHandle' = TRUE /\ connLed' = TRUE /\ advLed' = FALSE
                      /\ OnConnect(e, ~Firmware)
                      /\ UNCHANGED powered

\* Mutant: nobody restarts advertising.
HandleDisconnectedSilent == /\ appHandle' = FALSE /\ connLed' = FALSE
                            /\ OnDisconnect
                            /\ UNCHANGED <<powered, advLed, link, updating>>

HandleDisconnected == /\ appHandle' = FALSE /\ connLed' = FALSE
                      /\ advLed' = TRUE /\ UNCHANGED powered
                      /\ \/ SdAdvStart("SUCCESS") /\ OnDisconnect
                         \/ \E res \in Result \ {"SUCCESS"} :
                              SdAdvStart(res) /\ ErrorCheck("adv_start", res) /\ UNCHANGED cpVars

HandleRequest(e) == /\ \E res \in Result : SdReply(e.conn, res) /\ ErrorCheck("reply", res)
                    /\ UNCHANGED <<appVars, cpVars>>

\* No connection in time: system-off.
HandleAdvTimeout == /\ advLed' = FALSE /\ powered' = FALSE
                    /\ fault' = NoFault
                    /\ UNCHANGED <<appHandle, connLed, cpVars, link, updating>>

HandleEvent(e) == \/ e.id = "CONNECTED" /\ HandleConnected(e)
                  \/ e.id = "DISCONNECTED" /\ HandleDisconnected
                  \/ e.id \in Request /\ HandleRequest(e)
                  \/ e.id = "ADV_TIMEOUT" /\ HandleAdvTimeout
                  \/ e.id = "PARAM_UPDATE" /\ OnConnParamsUpdate(e) /\ UNCHANGED appVars
                  \/ e.id = "WRITE" /\ OnWrite(e) /\ UNCHANGED appVars

\* app_sched_execute takes the next entry.
ServeNext == /\ Alive
             /\ Sched!Serve
             /\ UNCHANGED <<sdVars, cpVars, fault, appVars>>

\* Mutant: one event per scheduler entry.
DispatchOneEvent == /\ Alive /\ current = BleEvt
                    /\ sdEvents # <<>>
                    /\ sdEvents' = Tail(sdEvents)
                    /\ HandleEvent(Head(sdEvents))
                    /\ Sched!Finish
                    /\ UNCHANGED <<interval, swi2, conn>>

\* intern_ble_stack_events_execute: pull events until there is none.
DispatchEvent == /\ Alive /\ current = BleEvt
                 /\ sdEvents # <<>>
                 /\ sdEvents' = Tail(sdEvents)
                 /\ HandleEvent(Head(sdEvents))
                 /\ UNCHANGED <<interval, swi2, conn, schedVars>>

DrainDone == /\ Alive /\ current = BleEvt
             /\ sdEvents = <<>>
             /\ Sched!Finish
             /\ UNCHANGED <<sdVars, cpVars, fault, appVars>>

RunTimeout == /\ Alive /\ current.kind = "timeout"
              /\ UpdateTimeoutHandler(current.conn)
              /\ Sched!Finish
              /\ UNCHANGED <<interval, sdEvents, swi2, conn, appVars>>

\* Application code in the main loop, between two scheduler entries.
AppRequest == /\ Alive /\ ~Firmware /\ current = NoEvt
              /\ Stop \/ \E p \in Interval : ChangeConnParams(p)
              /\ UNCHANGED <<interval, sdEvents, swi2, conn, appVars, schedVars>>

\* NVIC_SystemReset after an error, or the wake-up button in system-off.
Restart == /\ link' = "adv" /\ updating' = FALSE /\ sdEvents' = <<>> /\ swi2' = FALSE
           /\ CpReset /\ fault' = NoFault
           /\ appHandle' = FALSE /\ advLed' = TRUE /\ connLed' = FALSE /\ powered' = TRUE
           /\ queue' = <<>> /\ current' = NoEvt /\ outcome' = "SUCCESS"
           /\ UNCHANGED <<conn, interval>>
Reset   == powered /\ fault # NoFault /\ Restart
WakeUp  == ~powered /\ Restart

Main == ServeNext \/ DispatchEvent \/ DrainDone \/ RunTimeout

SdNext == /\ Alive
          /\ SdStep \/ (~Firmware /\ SdPeerWrite)
          /\ UNCHANGED <<cpVars, fault, appVars, schedVars>>

Next == /\ SdNext \/ Swi2Irq \/ TimerExpiry \/ Main \/ AppRequest \/ Reset \/ WakeUp
        /\ UNCHANGED usage

Spec == Init /\ [][Next]_vars

\* Interrupts and the main loop run on, a running timer expires and an update
\* procedure ends; the peer and the wake-up button owe nothing.
FairSpec == /\ Spec
            /\ WF_vars(Next /\ Swi2Irq) /\ WF_vars(Next /\ TimerExpiry)
            /\ WF_vars(Next /\ Main) /\ WF_vars(Next /\ Reset)
            /\ WF_vars(Next /\ SdUpdateDone)

-----------------------------------------------------------------------------
(* Properties.                                                             *)

EventId == {"CONNECTED", "DISCONNECTED", "ADV_TIMEOUT", "PARAM_UPDATE", "WRITE"} \cup Request

\* Every variable keeps its type; in the firmware, m_update_count lets no more
\* requests out in a connection than were configured.
TypeOK ==
  /\ link \in {"idle", "adv", "conn", "closing"}
  /\ interval \in Interval /\ updating \in BOOLEAN /\ swi2 \in BOOLEAN
  /\ Len(sdEvents) <= MaxSdEvents
  /\ \A i \in 1..Len(sdEvents) : sdEvents[i].id \in EventId
  /\ conn \in 0..MaxConn /\ cpConn \in 0..MaxConn
  /\ cpHandle \in BOOLEAN /\ appHandle \in BOOLEAN /\ changeParam \in BOOLEAN
  /\ updateCount \in 0..MaxUpdateCount /\ sent \in 0..MaxUpdateCount + 2
  /\ Firmware /\ MaxUpdateCount + 1 < CountMod => sent <= MaxUpdateCount
  /\ currentParams \in Interval \cup {"none"} /\ preferred \in Interval
  /\ timer \in [running : BOOLEAN, conn : 0..MaxConn]
  /\ advLed \in BOOLEAN /\ connLed \in BOOLEAN /\ powered \in BOOLEAN
  /\ Len(queue) <= SchedQueueSize /\ current \in SchedEvt \cup {NoEvt}
  /\ outcome \in {"SUCCESS", "NO_MEM"} /\ usage \in Usages

InHand(e) == current = e \/ \E i \in 1..Len(queue) : queue[i] = e

\* No SoftDevice event is stranded: while one waits to be pulled, SWI2 is
\* pending or an entry that will drain the events is queued or running.
EventsAnnounced == Alive /\ sdEvents # <<>> => swi2 \/ InHand(BleEvt)

\* With no event left to pull, the two connection handles, both LEDs and the
\* recorded interval say what the link is.
QuietAgreement == Alive /\ sdEvents = <<>> =>
  /\ appHandle = (link \in {"conn", "closing"})
  /\ cpHandle = appHandle /\ connLed = appHandle
  /\ advLed = (link = "adv")
  /\ appHandle => currentParams = interval /\ cpConn = conn

\* Advertising is restarted only when the link is down: no reset is ever due to
\* a refused sd_ble_gap_adv_start.
AdvertisingNeverRefused == fault # Fault("adv_start", "INVALID_STATE")

\* A negotiation under way is never dropped: connected with an interval that is
\* not acceptable, either the timer runs, or its expiry is on the way, or an
\* update procedure is in progress.
NegotiationAlive ==
  Firmware /\ Alive /\ sdEvents = <<>> /\ link = "conn" /\ interval # preferred =>
    timer.running \/ updating \/ \E c \in 0..MaxConn : InHand(Expiry(c))

\* The negotiation is given up only after the configured number of requests was
\* sent in that very connection.
FailedAfterAllAttempts == Firmware /\ last.what = "FAILED" => last.sent = MaxUpdateCount

\* Connected with an unacceptable interval, the interval becomes acceptable or
\* the connection ends: the negotiation cannot go on for ever.
NegotiationConcludes ==
  (link = "conn" /\ interval # preferred) ~> (link # "conn" \/ interval = preferred)

\* When the link goes down the device advertises again or switches itself off.
AdvertisingResumes == (link = "idle") ~> (link = "adv" \/ ~powered)

\* ble_conn_params.h:31, FAILED means "Negotiation procedure failed": it is not
\* raised on a connection whose interval has become acceptable.
FailedOnlyWhenNotOk == last.what = "FAILED" => ~last.ok

\* ble_conn_params.h:48, the first request comes the configured delay after the
\* connect event: never from a timer started in an earlier connection.
UpdateFromOwnTimer == last.what = "UPDATE" => last.armed = last.conn
=============================================================================
