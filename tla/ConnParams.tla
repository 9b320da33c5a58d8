----------------------------- MODULE ConnParams -----------------------------
(***************************************************************************)
(* ble_conn_params.c: the negotiation of the connection interval.  Its     *)
(* handlers run in the main loop: BLE events reach it after the            *)
(* application's own handler, and its single-shot timer's expiry through   *)
(* the scheduler.  An interval is acceptable when it belongs to the class  *)
(* the application prefers.                                                *)
(***************************************************************************)
EXTENDS SoftDevice

CONSTANTS
  MaxUpdateCount,   \* max_conn_params_update_count
  CountMod,         \* 2^8 in the code: m_update_count is a uint8_t
  Preferred         \* the preferred interval at start-up

ASSUME PreferredAssumption == Preferred \in Interval

VARIABLES
  cpHandle,         \* m_conn_handle is valid
  updateCount,      \* m_update_count
  currentParams,    \* m_current_conn_params, "none" before the first connection
  preferred,        \* m_preferred_conn_params
  changeParam,      \* m_change_param
  timer,            \* m_conn_params_timer_id: running, and started for which connection
  cpConn,           \* history: number of the connection cpHandle stands for
  sent,             \* history: update requests accepted in this connection
  last,             \* history: the last update attempt or notification
  fault             \* history: the refused call that led to a reset, or NoFault

cpVars == <<cpHandle, updateCount, currentParams, preferred, changeParam, timer, cpConn,
            sent, last>>

IsConnParamsOk(p) == p = preferred'

NoTimer    == [running |-> FALSE, conn |-> 0]
Log(what, armed) == last' = [what |-> what, ok |-> currentParams' = preferred',
                             sent |-> sent, conn |-> cpConn', armed |-> armed]

\* APP_ERROR_CHECK and conn_params_error_handler: any error resets the chip.
Fault(call, res) == [call |-> call, result |-> res]
NoFault == Fault("none", "SUCCESS")
ErrorCheck(call, res) == fault' = IF res = "SUCCESS" THEN NoFault ELSE Fault(call, res)

NoLog == [what |-> "none", ok |-> FALSE, sent |-> 0, conn |-> 0, armed |-> 0]

\* ble_conn_params_init, with p_conn_params NULL: at start-up and after a reset.
CpInit == /\ cpHandle = FALSE /\ updateCount = 0 /\ currentParams = "none"
          /\ preferred = Preferred /\ changeParam = FALSE /\ timer = NoTimer
          /\ cpConn = 0 /\ sent = 0 /\ last = NoLog

CpReset == /\ cpHandle' = FALSE /\ updateCount' = 0 /\ currentParams' = "none"
           /\ preferred' = Preferred /\ changeParam' = FALSE /\ timer' = NoTimer
           /\ cpConn' = 0 /\ sent' = 0 /\ last' = NoLog

\* Either timer operation is refused when the timer module's queue is full.
TimerResult == {"SUCCESS", "NO_MEM"}

\* app_timer_start ignores a timer that is running; app_timer_stop cannot take
\* back an expiry already in the scheduler queue.
TimerStart == \E res \in TimerResult :
  /\ timer' = IF timer.running \/ res # "SUCCESS" THEN timer
              ELSE [running |-> TRUE, conn |-> cpConn']
  /\ ErrorCheck("app_timer_start", res)
TimerStop  == \E res \in TimerResult :
  /\ timer' = IF res = "SUCCESS" THEN NoTimer ELSE timer
  /\ ErrorCheck("app_timer_stop", res)

\* The history counter stops at two requests more than the attempts allow.
CountSent(res) == IF res = "SUCCESS" /\ sent < MaxUpdateCount + 2 THEN sent + 1 ELSE sent

\* Mutant: the application advertises again at once, not when the link is down.
NotifyFailedAdvertises(armed) ==
  /\ Log("FAILED", armed)
  /\ \E res \in Result :
       \/ SdDisconnect(res) /\ res # "SUCCESS" /\ ErrorCheck("disconnect", res)
       \/ SdDisconnect(res) /\ res = "SUCCESS" /\ ErrorCheck("adv_start", "INVALID_STATE")

\* The FAILED event: on_conn_params_evt of main.c disconnects.  (main.c leaves
\* disconnect_on_fail unset, so the module does not do it itself.)
NotifyFailed(armed) ==
  /\ Log("FAILED", armed)
  /\ \E res \in Result : SdDisconnect(res) /\ ErrorCheck("disconnect", res)

NotifySucceeded == /\ Log("SUCCEEDED", 0)
                   /\ fault' = NoFault
                   /\ UNCHANGED <<link, updating>>

\* Mutant: only the first attempt of a connection starts the timer.
ConnParamsNegotiationOnce ==
  /\ changeParam' = FALSE
  /\ \/ /\ IsConnParamsOk(currentParams')
        /\ NotifySucceeded
        /\ UNCHANGED timer
     \/ /\ ~IsConnParamsOk(currentParams')
        /\ IF updateCount' = 0 THEN TimerStart ELSE UNCHANGED timer /\ fault' = NoFault
        /\ UNCHANGED <<link, updating, last>>

\* Start or go on with the negotiation if the interval is not acceptable.
ConnParamsNegotiation ==
  /\ changeParam' = FALSE
  /\ \/ /\ IsConnParamsOk(currentParams')
        /\ NotifySucceeded
        /\ UNCHANGED timer
     \/ /\ ~IsConnParamsOk(currentParams') /\ changeParam
        /\ NotifyFailed(0)
        /\ UNCHANGED timer
     \/ /\ ~IsConnParamsOk(currentParams') /\ ~changeParam
        /\ TimerStart
        /\ UNCHANGED <<link, updating, last>>

NoNegotiation == /\ fault' = NoFault
                 /\ UNCHANGED <<link, updating, changeParam, last>>

\* startOnNotify: start_on_notify_cccd_handle names a CCCD.
OnConnect(e, startOnNotify) ==
  /\ cpHandle' = TRUE /\ currentParams' = e.val /\ updateCount' = 0
  /\ cpConn' = e.conn /\ sent' = 0
  /\ UNCHANGED preferred
  /\ IF startOnNotify THEN NoNegotiation /\ UNCHANGED timer
                      ELSE ConnParamsNegotiation

\* The application's handler, which restarts advertising, has run before.
OnDisconnect ==
  /\ cpHandle' = FALSE /\ updateCount' = 0
  /\ TimerStop
  /\ UNCHANGED <<currentParams, preferred, changeParam, cpConn, sent, last>>

OnWrite(e) ==
  /\ UNCHANGED <<cpHandle, updateCount, currentParams, preferred, cpConn, sent>>
  /\ \/ e.val = "on" /\ ConnParamsNegotiation
     \/ e.val = "off" /\ TimerStop /\ UNCHANGED <<link, updating, changeParam, last>>

\* Mutant: the parameters of the event are not recorded.
OnConnParamsUpdateStale(e) ==
  /\ UNCHANGED <<cpHandle, updateCount, currentParams, preferred, cpConn, sent>>
  /\ ConnParamsNegotiation

OnConnParamsUpdate(e) ==
  /\ currentParams' = e.val
  /\ UNCHANGED <<cpHandle, updateCount, preferred, cpConn, sent>>
  /\ ConnParamsNegotiation

\* Mutants: one request too many, one too few.
OneAttemptMore(count)  == count <= MaxUpdateCount + 1
OneAttemptLess(count)  == count < MaxUpdateCount

\* m_update_count <= max_conn_params_update_count, after the increment.
AttemptsLeft(count) == count <= MaxUpdateCount

\* The timer's expiry, run from the scheduler; armed is the connection for
\* which the timer had been started.
UpdateTimeoutHandler(armed) ==
  LET count == (updateCount + 1) % CountMod IN
  /\ UNCHANGED <<cpHandle, currentParams, preferred, changeParam, timer, cpConn>>
  /\ \/ /\ ~cpHandle
        /\ fault' = NoFault
        /\ UNCHANGED <<updateCount, sent, last, link, updating>>
     \/ /\ cpHandle /\ AttemptsLeft(count)
        /\ updateCount' = count
        /\ \E res \in Result : /\ SdConnParamUpdate(res)
                               /\ ErrorCheck("conn_param_update", res)
                               /\ sent' = CountSent(res)
        /\ Log("UPDATE", armed)
     \/ /\ cpHandle /\ ~AttemptsLeft(count)
        /\ updateCount' = 0
        /\ NotifyFailed(armed)
        /\ sent' = 0

\* ble_conn_params_stop hands the refusal of app_timer_stop to its caller.
Stop == /\ timer' \in {timer, NoTimer}
        /\ fault' = NoFault
        /\ UNCHANGED <<cpHandle, updateCount, currentParams, preferred, changeParam,
                       cpConn, sent, last, link, updating>>

\* ble_conn_params_change_conn_params; the error code of sd_ble_gap_ppcp_set or of
\* the update call goes back to the caller, which is left to deal with it.
ChangeConnParams(p) ==
  /\ preferred' = p
  /\ fault' = NoFault
  /\ UNCHANGED <<cpHandle, currentParams, timer, cpConn>>
  /\ \/ UNCHANGED <<changeParam, updateCount, sent, last, link, updating>>
     \/ /\ ~IsConnParamsOk(currentParams)
        /\ changeParam' = TRUE /\ updateCount' = 1
        /\ \/ /\ cpHandle
              /\ \E res \in Result : /\ SdConnParamUpdate(res)
                                     /\ sent' = CountSent(res)
           \/ ~cpHandle /\ UNCHANGED <<link, updating, sent>>
        /\ UNCHANGED last
     \/ /\ IsConnParamsOk(currentParams)
        /\ NotifySucceeded
        /\ UNCHANGED <<changeParam, updateCount, sent>>
=============================================================================
