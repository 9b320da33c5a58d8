------------------------------- MODULE BleRpc -------------------------------
(***************************************************************************)
(* SoftDevice calls made on the application chip and served by the         *)
(* connectivity chip (ble/rpc): commands, responses and events over the    *)
(* HCI transport.  A call is made by the thread and waits for its response *)
(* (ble_rpc_cmd_encoder*.c); hci_pkt_handler sorts what arrives            *)
(* (ble_rpc_pkt_receiver.c); events wait in a queue until the thread       *)
(* fetches them with sd_ble_evt_get (ble_rpc_event_decoder*.c).  The       *)
(* connectivity chip serves a command and sends its response, or an event, *)
(* when its one TX buffer is free (ble_rpc_cmd_decoder*.c,                 *)
(* ble_rpc_event_encoder*.c); its main loop, which is not in the source,   *)
(* runs ble_rpc_cmd_handle after RX_RDY.  Both users run in the thread,    *)
(* and the UART interrupt comes between any two of their steps.            *)
(***************************************************************************)
EXTENDS HciTransport, SequencesExt

CONSTANTS
  app, conn,        \* the two chips
  OpCode,           \* operation codes of the calls
  NoOpCode,         \* INVALID_OP_CODE
  EventQueueSize,   \* EVENT_QUEUE_SIZE (3)
  MaxSent           \* bound: calls made and events sent

VARIABLES
  call,             \* operation code of the call the thread waits in, or NoOpCode
  txDone,           \* m_tx_done
  response,         \* op_code of g_cmd_response
  responseBuf,      \* slot of g_cmd_response_buf
  events,           \* slots in m_packet_queue, oldest first
  served,           \* op code of the command executed and not yet responded to,
                    \* or NoOpCode
  sent,             \* number of calls made and events sent
  fault,            \* an APP_ERROR_CHECK has failed: its chip is reset
  failed            \* history: a write has ended in TX_DONE_FAILURE

appVars   == <<call, response, responseBuf, events, fault>>
countVars == <<sent, failed>>
rpcVars   == <<appVars, txDone, served, countVars>>
allVars   == <<vars, rpcVars>>

Cmd(op)  == [type |-> "CMD", op |-> op]
Resp(op) == [type |-> "RESP", op |-> op]
Evt      == [type |-> "EVT", op |-> NoOpCode]

RpcPackets == [p \in {app, conn} |->
                 IF p = app THEN {Cmd(op) : op \in OpCode}
                 ELSE {Resp(op) : op \in OpCode} \cup {Evt}]

\* The application chip extracts in hci_pkt_handler, the other in
\* ble_rpc_cmd_handle.
ASSUME RpcAssumption == /\ app # conn /\ Peers = {app, conn} /\ PacketsOf = RpcPackets
                        /\ Preemptible = Peers /\ Deferring = {conn} /\ NoOpCode \notin OpCode

RpcInit == /\ Init
           /\ call = NoOpCode /\ txDone = FALSE
           /\ response = NoOpCode /\ responseBuf = NoSlot
           /\ events = <<>>
           /\ served = NoOpCode /\ sent = 0
           /\ fault = FALSE /\ failed = FALSE

-----------------------------------------------------------------------------
(* Application chip, thread *)

\* An encoder of ble_rpc_cmd_encoder_gap.c or _gatts.c up to its wait.
Call(op) ==
  /\ call = NoOpCode
  /\ sent < MaxSent
  /\ PktWrite(app, Cmd(op))
  /\ call' = op
  /\ sent' = sent + 1
  /\ UNCHANGED <<response, responseBuf, events, fault, txDone, served, failed>>

\* The end of a write: the entry of TX_STATE_IDLE reports TX-done again.
WriteEnd(p) ==
  /\ PktWriteEnd(p)
  /\ txDone' = (txDone \/ (p = app /\ writing[p] = "entry" /\ tx[p].state = "IDLE"))
  /\ UNCHANGED <<appVars, served, countVars>>

\* Mutant: the response is left in its buffer.
KeepResponse(b) == UNCHANGED vars

\* Mutant: the op code of the response is not invalidated.
ResponseKept == response
ResponseAfter == NoOpCode

\* The condition of ble_rpc_cmd_resp_wait
Answered == txDone /\ response = call

\* hci_transport_rx_pkt_consume(b) in the thread, up to its end, or of nothing
\* extracted
ConsumeSlot(b) == \E i \in DOMAIN held[app] : held[app][i] = b /\ Consume(app, i)
ConsumeResponse(b) == ConsumeSlot(b)

ConsumeEnds == access'[app] = NoCall

\* The encoder returns when the response is consumed, and sd_ble_evt_get moves
\* its read index on when the event is: nothing else consumes on this chip.
AfterConsume ==
  /\ call' = IF ConsumeEnds THEN NoOpCode ELSE call
  /\ events' = IF ConsumeEnds /\ call = NoOpCode THEN Tail(events) ELSE events

\* ble_rpc_cmd_resp_wait returns and the encoder begins to consume the response.
CallReturn ==
  /\ call # NoOpCode
  /\ Answered
  /\ ConsumeResponse(responseBuf)
  /\ txDone' = FALSE
  /\ response' = ResponseAfter
  /\ AfterConsume
  /\ UNCHANGED <<responseBuf, fault, served, countVars>>

\* sd_ble_evt_get: decoded or unknown, the oldest event is consumed.
EvtGet ==
  /\ call = NoOpCode
  /\ events # <<>>
  /\ ConsumeSlot(Head(events))
  /\ AfterConsume
  /\ UNCHANGED <<response, responseBuf, fault, txDone, served, countVars>>

AppConsumes ==
  /\ ConsumeStep(app)
  /\ AfterConsume
  /\ UNCHANGED <<response, responseBuf, fault, txDone, served, countVars>>

-----------------------------------------------------------------------------
(* Application chip, interrupt: hci_pkt_handler for the packet in slot b *)

\* ble_rpc_cmd_rsp_pkt_received
ResponseReceived(b, op) ==
  /\ response' = op
  /\ responseBuf' = b
  /\ UNCHANGED <<call, events, fault>>

QueueHasRoom == Len(events) < EventQueueSize

\* ble_rpc_event_pkt_received: NO_MEM fails the APP_ERROR_CHECK of its caller.
\* With room, app_sched_event_put of ble_stack_evt_get may fail the next one.
EventReceived(b) ==
  /\ IF QueueHasRoom
     THEN /\ events' = Append(events, b)
          /\ fault' \in BOOLEAN
     ELSE /\ fault' = TRUE
          /\ UNCHANGED events
  /\ UNCHANGED <<call, response, responseBuf>>

AppTakes(b, m) == IF m.type = "RESP" THEN ResponseReceived(b, m.op) ELSE EventReceived(b)

-----------------------------------------------------------------------------
(* Connectivity chip *)

\* ble_rpc_cmd_handle extracts the command; with none it fails APP_ERROR_CHECK.
Serve ==
  /\ served = NoOpCode
  /\ held[conn] = <<>>
  /\ Extract(conn)
  /\ fault' = ~CanExtract(pool[conn])
  /\ UNCHANGED <<call, response, responseBuf, events, txDone, served, countVars>>

\* The command is executed; it is the last one that came, unless another one is
\* still to be extracted.
Execute ==
  /\ ExtractEnd(conn)
  /\ served' \in OpCode
  /\ OneToExtract(conn) => served' = inbox[conn].op
  /\ UNCHANGED <<appVars, txDone, countVars>>

\* Mutant: the response is given up when the buffer is not free.
RespSendOnce ==
  /\ served # NoOpCode
  /\ MayCall(conn)
  /\ \/ PktWrite(conn, Resp(served))
     \/ Writing(conn) /\ UNCHANGED vars
  /\ served' = NoOpCode
  /\ UNCHANGED <<appVars, txDone, countVars>>

\* ble_rpc_cmd_resp_send: waits in hci_transport_tx_alloc for the buffer, which
\* is freed at the TX-done event.
RespSend ==
  /\ served # NoOpCode
  /\ PktWrite(conn, Resp(served))
  /\ served' = NoOpCode
  /\ UNCHANGED <<appVars, txDone, countVars>>

\* ble_rpc_cmd_handle ends with the command consumed.
ConnConsumes ==
  /\ \/ served = NoOpCode /\ held[conn] # <<>> /\ Consume(conn, 1)
     \/ ConsumeStep(conn)
  /\ UNCHANGED rpcVars

\* ble_rpc_event_handle
EventSend ==
  /\ served = NoOpCode
  /\ held[conn] = <<>>
  /\ sent < MaxSent
  /\ PktWrite(conn, Evt)
  /\ sent' = sent + 1
  /\ UNCHANGED <<appVars, txDone, served, failed>>

-----------------------------------------------------------------------------
(* Transport *)

\* transport_tx_complete_handler, whatever the result.
TxDoneHandled == txDone' = (txDone \/ (Writing(app) /\ tx'[app].state = "IDLE"))

LineStep(p) ==
  /\ FrameEnd(p, Other(p))
  /\ TxDoneHandled
  /\ IF p = conn /\ held'[app] # held[app]
     THEN AppTakes(Last(held'[app]), inbox'[app])
     ELSE UNCHANGED appVars
  /\ UNCHANGED <<served, countVars>>

\* hci_transport_timeout_handle, at any time after the write.
TimeoutStep(p) ==
  /\ Timeout(p)
  /\ TxDoneHandled
  /\ failed' = (failed \/ tx'[p].state = "IDLE")
  /\ UNCHANGED <<appVars, served, sent>>

AppThread  == (\E op \in OpCode : Call(op)) \/ CallReturn \/ EvtGet \/ AppConsumes
ConnThread == Serve \/ Execute \/ RespSend \/ ConnConsumes \/ EventSend

RpcNext == /\ ~fault
           /\ \/ AppThread
              \/ ConnThread
              \/ \E p \in Peers : WriteEnd(p) \/ LineStep(p) \/ TimeoutStep(p)

RpcSpec == RpcInit /\ [][RpcNext]_allVars

\* Each thread goes on with what it has begun, and the application fetches its
\* events.
RpcFairSpec ==
  /\ RpcSpec
  /\ WF_allVars(~fault /\ (CallReturn \/ EvtGet \/ AppConsumes \/ WriteEnd(app)))
  /\ WF_allVars(~fault /\ (Serve \/ Execute \/ RespSend \/ ConnConsumes \/ WriteEnd(conn)))
  /\ \A p \in Peers : /\ WF_allVars(~fault /\ LineStep(p))
                      /\ WF_allVars(~fault /\ TimeoutStep(p))

-----------------------------------------------------------------------------
(* Properties *)

\* A response belongs to the call the thread waits in: none arrives late for
\* the next call, none is left behind.
ResponseClaimed == response # NoOpCode => response = call

\* The events whose buffers are not yet given up: sd_ble_evt_get leaves the one
\* it consumes in the queue up to its end.
EventsKept == IF call = NoOpCode /\ access[app] # NoCall THEN Tail(events) ELSE events

\* Every buffer the application chip has extracted and not given up is an event
\* in the queue or the response of the call in progress, so each is consumed in
\* the end.
BuffersOwned ==
  ~fault => HeldSlots(app) = ToSet(EventsKept)
                             \cup (IF response = NoOpCode THEN {} ELSE {responseBuf})

\* A write waits for the end of a transmission that is over already (its caller
\* was interrupted by it): only another transmission sends the packet.
Stranded(p) == tx[p].state = "PENDING" /\ slip[p] = NoFrame

\* A call returns, unless a write of the transport has failed, which
\* transport_tx_complete_handler ignores, a write is stranded, or a chip is reset
\* because more events came during the call than the queue holds.
CallEnds ==
  call # NoOpCode ~> call = NoOpCode \/ failed \/ fault \/ \E p \in Peers : Stranded(p)
=============================================================================
