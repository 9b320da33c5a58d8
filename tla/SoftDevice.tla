----------------------------- MODULE SoftDevice -----------------------------
(***************************************************************************)
(* The S110 SoftDevice, a binary outside src/, as the firmware sees it:    *)
(* one link, a queue of events pulled with sd_ble_evt_get and announced by *)
(* the SWI2 interrupt, and the sd_ble_gap_* calls with the error codes     *)
(* their header documents.  It runs above every application level, so the  *)
(* link may change while the events that say so are still queued.          *)
(***************************************************************************)
EXTENDS Naturals, Sequences

CONSTANTS
  Interval,      \* classes of connection intervals
  Request,       \* events that the application must answer with a reply call
  Notify,        \* values a peer may write to the CCCD: subset of {"on", "off"}
  MaxSdEvents,   \* bound: events waiting in the SoftDevice
  MaxConn        \* bound: connections in one run of the model

ASSUME RequestAssumption ==
  Request \cap {"CONNECTED", "DISCONNECTED", "ADV_TIMEOUT", "PARAM_UPDATE", "WRITE"} = {}
ASSUME NotifyAssumption == Notify \subseteq {"on", "off"}

VARIABLES
  link,          \* "idle", "adv", "conn" or "closing" (disconnect requested)
  interval,      \* connection interval in use
  updating,      \* a connection parameter update procedure is in progress
  sdEvents,      \* events not yet pulled
  swi2,          \* the SWI2 interrupt is pending
  conn           \* number of the current or last connection

sdVars == <<link, interval, updating, sdEvents, swi2, conn>>

Result == {"SUCCESS", "BUSY", "INVALID_STATE", "INVALID_CONN_HANDLE"}

\* sd_ble_gap_conn_param_update: one procedure at a time; what it answers on a
\* link that is being closed is not documented.
SdConnParamUpdate(res) ==
  /\ \/ link = "conn" /\ ~updating /\ res = "SUCCESS"
     \/ link = "conn" /\ updating /\ res = "BUSY"
     \/ link = "closing" /\ res \in {"SUCCESS", "BUSY"}
     \/ link \in {"idle", "adv"} /\ res = "INVALID_CONN_HANDLE"
  /\ updating' = (updating \/ res = "SUCCESS")
  /\ UNCHANGED link

\* sd_ble_gap_disconnect: fails when a disconnection is already in progress.
SdDisconnect(res) ==
  /\ \/ link = "conn" /\ res = "SUCCESS" /\ link' = "closing"
     \/ link = "closing" /\ res = "INVALID_STATE" /\ UNCHANGED link
     \/ link \in {"idle", "adv"} /\ res = "INVALID_CONN_HANDLE" /\ UNCHANGED link
  /\ UNCHANGED updating

\* sd_ble_gap_adv_start
SdAdvStart(res) ==
  /\ \/ link = "idle" /\ res = "SUCCESS" /\ link' = "adv"
     \/ link # "idle" /\ res = "INVALID_STATE" /\ UNCHANGED link
  /\ UNCHANGED updating

\* A reply to a request of connection c: refused once that connection is gone.
SdReply(c, res) ==
  /\ \/ link = "conn" /\ c = conn /\ res = "SUCCESS"
     \/ link = "conn" /\ c # conn /\ res = "INVALID_STATE"
     \/ link = "closing" /\ res \in {"SUCCESS", "INVALID_STATE"}
     \/ link \in {"idle", "adv"} /\ res = "INVALID_CONN_HANDLE"
  /\ UNCHANGED <<link, updating>>

-----------------------------------------------------------------------------
(* What the SoftDevice and the peer do by themselves.                      *)

\* Queue an event and raise SWI2.
Emit(id, v) == /\ Len(sdEvents) < MaxSdEvents
               /\ sdEvents' = Append(sdEvents, [id |-> id, val |-> v, conn |-> conn'])
               /\ swi2' = TRUE

SdConnect == /\ link = "adv" /\ conn < MaxConn
             /\ link' = "conn" /\ conn' = conn + 1
             /\ interval' \in Interval
             /\ UNCHANGED updating
             /\ Emit("CONNECTED", interval')

\* The peer closes the link or vanishes, or our own disconnection completes.
SdDisconnected == /\ link \in {"conn", "closing"}
                  /\ link' = "idle" /\ updating' = FALSE
                  /\ UNCHANGED <<interval, conn>>
                  /\ Emit("DISCONNECTED", "none")

SdAdvTimeout == /\ link = "adv"
                /\ link' = "idle"
                /\ UNCHANGED <<interval, updating, conn>>
                /\ Emit("ADV_TIMEOUT", "none")

\* The peer changes the interval on its own initiative.
SdPeerUpdate == /\ link \in {"conn", "closing"}
                /\ interval' \in Interval
                /\ UNCHANGED <<link, updating, conn>>
                /\ Emit("PARAM_UPDATE", interval')

\* The update procedure ends: the peer took the requested interval, chose
\* another, rejected the request or let it time out.
SdUpdateDone == /\ link \in {"conn", "closing"} /\ updating
                /\ updating' = FALSE
                /\ interval' \in Interval
                /\ UNCHANGED <<link, conn>>
                /\ Emit("PARAM_UPDATE", interval')

SdPeerRequest == /\ link \in {"conn", "closing"}
                 /\ UNCHANGED <<link, interval, updating, conn>>
                 /\ \E r \in Request : Emit(r, "none")

SdPeerWrite == /\ link \in {"conn", "closing"}
               /\ UNCHANGED <<link, interval, updating, conn>>
               /\ \E v \in Notify : Emit("WRITE", v)

SdStep == \/ SdConnect \/ SdDisconnected \/ SdAdvTimeout
          \/ SdPeerUpdate \/ SdUpdateDone \/ SdPeerRequest
=============================================================================
