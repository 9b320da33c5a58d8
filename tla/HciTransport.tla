---------------------------- MODULE HciTransport ----------------------------
(***************************************************************************)
(* Two chips joined by the HCI transport (hci_transport.c) over SLIP       *)
(* (hci_slip.c, whole frames here) and a UART line that may lose or damage *)
(* a frame: one packet at a time, 3-bit sequence numbers, acknowledgement, *)
(* a bounded number of retransmissions, and a pool of receive buffers.     *)
(* A frame arrives when its last byte is put: HCI_SLIP_TX_DONE at one end  *)
(* and the event of the other end are one step.                            *)
(* A user extracts each packet in its RX_RDY handler, as                   *)
(* ble_rpc_pkt_receiver.c does, or in the thread, as ble_rpc_cmd_decoder.c *)
(* does, and consumes packets later, in any order.                         *)
(* The result code of the TX-done event, which the handler in              *)
(* ble_rpc_cmd_encoder.c ignores, is left to HciChannel.                   *)
(***************************************************************************)
EXTENDS HciMemPool, Sequences

CONSTANTS
  Peers,          \* the two chips
  PacketsOf,      \* the packets each peer writes
  NoPacket,
  SeqCount,         \* sequence numbers are counted modulo SeqCount (8)
  MaxRetry,       \* MAX_RETRY_COUNT (5)
  Preemptible,    \* peers whose user runs in the thread, below the UART interrupt
  Deferring,      \* peers that extract a packet in the thread
  Noisy           \* peers whose frames the line may lose or damage

Packet == UNION {PacketsOf[p] : p \in Peers}

ASSUME PeersAssumption  == \E a, b \in Peers : a # b /\ Peers = {a, b}
ASSUME PacketAssumption == NoPacket \notin Packet
ASSUME SeqCountAssumption == SeqCount \in Nat /\ SeqCount > 1
ASSUME RetryAssumption  == MaxRetry \in Nat

Other(p) == CHOOSE q \in Peers : q # p

VARIABLES
  tx,        \* m_tx_state, packet in mp_tx_buffer, m_packet_transmit_seq_number,
             \* m_tx_retry_counter
  writing,   \* pkt_write_handle, if unfinished: the answer of hci_slip_write, then
             \* "entry" until TX_EVENT_STATE_ENTRY is handled; else "no"
  expected,  \* m_packet_expected_seq_number
  used,      \* mp_slip_used_rx_buffer: a slot, or NoSlot
  buffer,    \* what SLIP receives into: "pool", "ack" (m_rx_ack_buffer) or "null"
  pool,      \* the memory pool
  access,    \* the unfinished call of the memory pool by the thread, or NoCall
  ready,     \* m_is_slip_decode_ready, where it outlasts the RX_RDY handler
  held,      \* slots extracted and not yet consumed by the user, oldest first
  inbox,     \* the last packet the user has extracted
  slip       \* the frame SLIP is transmitting, or NoFrame

userVars == <<ready, held, inbox>>
callVars == <<pool, access, userVars>>
vars     == <<tx, writing, expected, used, buffer, callVars, slip>>

SeqNumber == 0..(SeqCount - 1)
SeqAfter(n) == IF n = SeqCount - 1 THEN 0 ELSE n + 1

Frame(type, seq, data) == [type |-> type, seq |-> seq, data |-> data]
NoFrame      == Frame("none", 0, NoPacket)
Damaged      == Frame("bad", 0, NoPacket)
AckFrame(n)  == Frame("ack", n, NoPacket)
PktFrame(t)  == Frame("pkt", t.seq, t.packet)

\* The frame in SLIP after hci_slip_write(f): refused while transmitting.
SlipWritten(s, f) == IF s = NoFrame THEN f ELSE s

\* app_uart_init gives the UART interrupt APP_IRQ_PRIORITY_LOW: a caller in the
\* thread is interrupted by it, a caller at that level is not.
MayCall(p)     == writing[p] = "no" /\ access[p] = NoCall
Undisturbed(p) == MayCall(p) \/ p \in Preemptible

\* hci_transport_open on both chips; SLIP waits in the first pool buffer.
Init ==
  /\ tx = [p \in Peers |-> [state |-> "IDLE", packet |-> NoPacket, seq |-> 1, retries |-> 0]]
  /\ writing = [p \in Peers |-> "no"]
  /\ expected = [p \in Peers |-> 1]
  /\ used = [p \in Peers |-> 0]
  /\ buffer = [p \in Peers |-> "pool"]
  /\ pool = [p \in Peers |-> Produced(PoolOpened)]
  /\ access = [p \in Peers |-> NoCall]
  /\ ready = [p \in Peers |-> FALSE]
  /\ held = [p \in Peers |-> <<>>]
  /\ inbox = [p \in Peers |-> NoPacket]
  /\ slip = [p \in Peers |-> NoFrame]

-----------------------------------------------------------------------------
(* Transmission *)

\* What TX_EVENT_STATE_ENTRY changes: that of ACTIVE clears the retry counter
\* (and starts the retransmission timer), that of IDLE reports TX-done once more.
Entered(t) == IF t.state = "ACTIVE" THEN [t EXCEPT !.retries = 0] ELSE t

\* tx_sm_state_change after the answer of hci_slip_write
NextState(t, answer)    == [t EXCEPT !.state = IF answer = "SUCCESS" THEN "ACTIVE" ELSE "PENDING"]
StateEntered(t, answer) == Entered(NextState(t, answer))

\* hci_transport_pkt_write accepted. A caller in the thread may be interrupted
\* between the answer of hci_slip_write and the change of state, and between
\* that and the entry of the state.
PktWrite(p, m) ==
  LET answer == IF slip[p] = NoFrame THEN "SUCCESS" ELSE "NO_MEM"
      t      == [tx[p] EXCEPT !.packet = m]
  IN  /\ tx[p].state = "IDLE"
      /\ MayCall(p)
      /\ slip' = [slip EXCEPT ![p] = SlipWritten(@, PktFrame(t))]
      /\ IF p \in Preemptible
         THEN /\ writing' = [writing EXCEPT ![p] = answer]
              /\ tx' = [tx EXCEPT ![p] = t]
         ELSE /\ tx' = [tx EXCEPT ![p] = StateEntered(t, answer)]
              /\ UNCHANGED writing
      /\ UNCHANGED <<expected, used, buffer, callVars>>

\* The two steps of tx_sm_state_change, where they can be told apart.
Unsettled == {"SUCCESS", "NO_MEM"}

PktWriteState(p) ==
  /\ writing[p] \in Unsettled
  /\ tx' = [tx EXCEPT ![p] = NextState(@, writing[p])]
  /\ writing' = [writing EXCEPT ![p] = "entry"]
  /\ UNCHANGED <<expected, used, buffer, callVars, slip>>

PktWriteEntry(p) ==
  /\ writing[p] = "entry"
  /\ tx' = [tx EXCEPT ![p] = Entered(@)]
  /\ writing' = [writing EXCEPT ![p] = "no"]
  /\ UNCHANGED <<expected, used, buffer, callVars, slip>>

PktWriteEnd(p) == PktWriteState(p) \/ PktWriteEntry(p)

\* Mutant: a packet that waits is not written.
TxDoneIgnored(p) == [tx |-> tx[p], frame |-> NoFrame]
\* HCI_SLIP_TX_DONE: a packet that waits for it is written now.
TxDone(p) == IF tx[p].state = "PENDING"
             THEN [tx |-> StateEntered(tx[p], "SUCCESS"), frame |-> PktFrame(tx[p])]
             ELSE [tx |-> tx[p], frame |-> NoFrame]

\* Mutant: the retry counter is not consulted.
RetriesLeftAlways(p) == TRUE
RetriesLeft(p) == tx[p].retries # MaxRetry

\* Mutant: a failed packet gives its sequence number up.
SeqAfterFailureNext(p) == SeqAfter(tx[p].seq)
SeqAfterFailure(p) == tx[p].seq

\* hci_transport_timeout_handle: TX_EVENT_TIMEOUT matters only in ACTIVE, whose
\* entry starts the timer.
Timeout(p) ==
  /\ tx[p].state = "ACTIVE"
  /\ writing[p] = "no"
  /\ IF RetriesLeft(p)
     THEN /\ tx' = [tx EXCEPT ![p].retries = @ + 1]
          /\ slip' = [slip EXCEPT ![p] = SlipWritten(@, PktFrame(tx[p]))]
     ELSE /\ tx' = [tx EXCEPT ![p].state = "IDLE", ![p].seq = SeqAfterFailure(p)]
          /\ UNCHANGED slip
  /\ UNCHANGED <<writing, expected, used, buffer, callVars>>

-----------------------------------------------------------------------------
(* The end of a frame of p: slip_event_handle of q, the other chip, for what *)
(* the line makes of the frame                                               *)

Arrivals(p) == {slip[p]} \cup (IF p \in Noisy THEN {NoFrame, Damaged} ELSE {})

LineReady(p, q) == slip[p] # NoFrame /\ Undisturbed(p) /\ Undisturbed(q)

\* What p does when q neither sends anything nor has an acknowledgement.
SenderOnly(p) == /\ tx' = [tx EXCEPT ![p] = TxDone(p).tx]
                 /\ slip' = [slip EXCEPT ![p] = TxDone(p).frame]
                 /\ UNCHANGED writing

Register(q, b) == buffer' = [buffer EXCEPT ![q] = b]

Lose(p, q, f) ==
  /\ f = NoFrame
  /\ SenderOnly(p)
  /\ UNCHANGED <<expected, used, buffer, callVars>>

\* HCI_SLIP_RX_OVERFLOW: no buffer, too small a one, or two frames run into one.
Overflow(p, q, f) ==
  /\ \/ buffer[q] = "null" /\ f.type # "none"
     \/ buffer[q] = "ack" /\ f.type = "pkt"
     \/ f.type = "bad"
  /\ SenderOnly(p)
  /\ Register(q, "ack")
  /\ UNCHANGED <<expected, used, callVars>>

InSequence(q, f) == f.seq = expected[q]

\* rx_vendor_specific_pkt_type_handle for the packet expected: the number goes
\* up, the acknowledgement is written (and refused if SLIP is busy), a new
\* buffer is produced, and RX_RDY makes the user extract the packet or take note
\* of it. The packet is the user's from then on.
AcceptPkt(p, q, f) ==
  LET room     == CanProduce(pool[q])
      produced == IF room THEN Produced(pool[q]) ELSE pool[q]
      slot     == produced.read
      n        == SeqAfter(expected[q])
  IN  /\ f.type = "pkt" /\ buffer[q] = "pool" /\ InSequence(q, f)
      /\ expected' = [expected EXCEPT ![q] = n]
      /\ tx' = [tx EXCEPT ![p] = TxDone(p).tx]
      /\ slip' = [slip EXCEPT ![p] = TxDone(p).frame,
                              ![q] = SlipWritten(@, AckFrame(n))]
      /\ used' = [used EXCEPT ![q] = IF room THEN pool[q].write ELSE NoSlot]
      /\ Register(q, IF room THEN "pool" ELSE "ack")
      /\ IF q \in Deferring
         THEN /\ ready' = [ready EXCEPT ![q] = TRUE]
              /\ pool' = [pool EXCEPT ![q] = produced]
              /\ inbox' = [inbox EXCEPT ![q] = f.data]
              /\ UNCHANGED held
         ELSE /\ CanExtract(produced)
              /\ pool' = [pool EXCEPT ![q] = Extracted(produced)]
              /\ held' = [held EXCEPT ![q] = Append(@, slot)]
              /\ inbox' = [inbox EXCEPT ![q] = IF slot = used[q] THEN f.data ELSE NoPacket]
              /\ UNCHANGED ready
      /\ UNCHANGED <<writing, access>>

\* The same for any other number: the buffer is kept, the acknowledgement
\* repeated.
RepeatAck(p, q, f) ==
  /\ f.type = "pkt" /\ buffer[q] = "pool" /\ ~InSequence(q, f)
  /\ tx' = [tx EXCEPT ![p] = TxDone(p).tx]
  /\ slip' = [slip EXCEPT ![p] = TxDone(p).frame,
                          ![q] = SlipWritten(@, AckFrame(expected[q]))]
  /\ UNCHANGED <<writing, expected, used, buffer, callVars>>

\* is_rx_pkt_valid fails: mp_slip_used_rx_buffer again, which may be NULL.
InvalidPkt(p, q, f) ==
  /\ f.type = "bad" /\ buffer[q] # "null"
  /\ SenderOnly(p)
  /\ Register(q, IF used[q] = NoSlot THEN "null" ELSE "pool")
  /\ UNCHANGED <<expected, used, callVars>>

\* The default branch of slip_event_handle: the pool buffer again, or a new
\* one, or the acknowledgement buffer.
BufferAgain(q) ==
  LET produce == used[q] = NoSlot /\ CanProduce(pool[q])
  IN  /\ used' = [used EXCEPT ![q] = IF produce THEN pool[q].write ELSE @]
      /\ pool' = [pool EXCEPT ![q] = IF produce THEN Produced(@) ELSE @]
      /\ Register(q, IF used[q] # NoSlot \/ produce THEN "pool" ELSE "ack")
      /\ UNCHANGED <<expected, access, userVars>>

\* expected_ack_number_get
IsExpectedAck(q, n) == n = SeqAfter(tx[q].seq)

\* TX_EVENT_VALID_RX_ACK, which only ACTIVE takes.
AckTaken(q, n) ==
  IF tx[q].state = "ACTIVE" /\ IsExpectedAck(q, n)
  THEN [tx[q] EXCEPT !.state = "IDLE", !.seq = SeqAfter(@)] ELSE tx[q]

\* PKT_TYPE_ACK, then the default branch.
ReceiveAck(p, q, f) ==
  /\ f.type = "ack" /\ buffer[q] # "null"
  /\ tx' = [tx EXCEPT ![p] = TxDone(p).tx, ![q] = AckTaken(q, f.seq)]
  /\ slip' = [slip EXCEPT ![p] = TxDone(p).frame]
  /\ UNCHANGED writing
  /\ BufferAgain(q)

\* A damaged frame of no known type, then the default branch.
ReceiveOther(p, q, f) ==
  /\ f.type = "bad" /\ buffer[q] # "null"
  /\ SenderOnly(p)
  /\ BufferAgain(q)

FrameEnd(p, q) ==
  /\ LineReady(p, q)
  /\ \E f \in Arrivals(p) :
       \/ Lose(p, q, f) \/ Overflow(p, q, f) \/ AcceptPkt(p, q, f) \/ RepeatAck(p, q, f)
       \/ InvalidPkt(p, q, f) \/ ReceiveAck(p, q, f) \/ ReceiveOther(p, q, f)

-----------------------------------------------------------------------------
(* Calls of the user, which the UART interrupt may come between where they   *)
(* are made in the thread                                                    *)

lineVars == <<tx, writing, expected, used, buffer, slip>>

\* hci_transport_rx_pkt_extract of a user that defers it: the packet there is,
\* or none (NRF_ERROR_NO_MEM).
Extract(q) ==
  /\ MayCall(q)
  /\ ready[q]
  /\ ready' = [ready EXCEPT ![q] = FALSE]
  /\ access' = [access EXCEPT ![q] = IF CanExtract(pool[q]) THEN Extracting(pool[q].readable)
                                     ELSE NoCall]
  /\ UNCHANGED <<pool, held, inbox, lineVars>>

ExtractEnd(q) ==
  /\ access[q].pc = "extract"
  /\ pool' = [pool EXCEPT ![q] = ExtractedFrom(@, access[q].count)]
  /\ held' = [held EXCEPT ![q] = Append(@, pool[q].read)]
  /\ access' = [access EXCEPT ![q] = NoCall]
  /\ UNCHANGED <<ready, inbox, lineVars>>

\* The slot the next packet is received into, if there is one by then; it is the
\* one after that read next, if that one alone is filled.
NextFilled(q)   == IF used[q] = NoSlot THEN pool[q].write ELSE used[q]
OneToExtract(q) == SlotAfter(pool[q].read) = NextFilled(q)

\* hci_transport_rx_pkt_consume of the i-th oldest packet held, which is given
\* up by the call, and the steps of hci_mem_pool_rx_consume
Consume(q, i) ==
  /\ MayCall(q)
  /\ i \in DOMAIN held[q]
  /\ access' = [access EXCEPT ![q] = Consuming(pool[q], held[q][i])]
  /\ held' = [held EXCEPT ![q] = SubSeq(@, 1, i - 1) \o SubSeq(@, i + 1, Len(@))]
  /\ UNCHANGED <<pool, ready, inbox, lineVars>>

Goes(q, to, next) == /\ pool' = [pool EXCEPT ![q] = to]
                     /\ access' = [access EXCEPT ![q] = next]

ConsumeStep(q) ==
  LET now == pool[q]
      c   == access[q]
  IN  /\ \/ c.pc = "find"  /\ Goes(q, now, ConsumeFind(now, c))
         \/ c.pc = "turn"  /\ Goes(q, [now EXCEPT !.bits = TurnedOver(c)],
                                      [c EXCEPT !.pc = "test", !.bits = {}])
         \/ c.pc = "test"  /\ Goes(q, now, ConsumeTest(now, c))
         \/ c.pc = "count" /\ Goes(q, [now EXCEPT !.available = c.count - 1],
                                      [c EXCEPT !.pc = "free", !.count = now.window])
         \/ c.pc = "free"  /\ Goes(q, [now EXCEPT !.window = c.count + 1],
                                      [c EXCEPT !.pc = "test", !.start = SlotAfter(c.found),
                                                !.count = 0])
      /\ UNCHANGED <<userVars, lineVars>>

Next == \E p \in Peers : \/ \E m \in PacketsOf[p] : PktWrite(p, m)
                         \/ PktWriteEnd(p)
                         \/ Timeout(p)
                         \/ FrameEnd(p, Other(p))
                         \/ Extract(p)
                         \/ ExtractEnd(p)
                         \/ \E i \in DOMAIN held[p] : Consume(p, i)
                         \/ ConsumeStep(p)

Spec == Init /\ [][Next]_vars

-----------------------------------------------------------------------------
(* Properties *)

TxType == [state: {"IDLE", "PENDING", "ACTIVE"}, packet: Packet \cup {NoPacket},
           seq: SeqNumber, retries: 0..MaxRetry]

FrameType == [type: {"none", "ack", "pkt"}, seq: SeqNumber, data: Packet \cup {NoPacket}]

\* Every variable keeps its type: in particular the retry counter stays within
\* its bound, and no counter of the pool goes below zero.
TypeOK ==
  /\ tx \in [Peers -> TxType]
  /\ writing \in [Peers -> Unsettled \cup {"no", "entry"}]
  /\ expected \in [Peers -> SeqNumber]
  /\ used \in [Peers -> PoolSlot \cup {NoSlot}]
  /\ buffer \in [Peers -> {"pool", "ack", "null"}]
  /\ pool \in [Peers -> PoolType]
  /\ access \in [Peers -> ProgressType]
  /\ ready \in [Peers -> BOOLEAN]
  /\ held \in [Peers -> Seq(PoolSlot)]
  /\ inbox \in [Peers -> Packet \cup {NoPacket}]
  /\ slip \in [Peers -> FrameType]

HeldSlots(p) == {held[p][i] : i \in DOMAIN held[p]}

\* Memory extracted by the user is not received into before it is consumed
\* (hci_transport.h, rx_pkt_extract).
ExtractedNotReused == \A p \in Peers : used[p] \notin HeldSlots(p)

\* A packet waits in PENDING only while SLIP is transmitting, unless its caller
\* can be preempted: the end of that transmission is what sends it.
PendingHasSlip ==
  \A p \in Peers \ Preemptible : tx[p].state = "PENDING" => slip[p] # NoFrame

\* Whether the other peer has taken a packet under the number p is sending.
HasTaken(p) == expected[Other(p)] # tx[p].seq
Writing(p)  == tx[p].state # "IDLE" \/ writing[p] \in Unsettled
Copies(p)   == {f \in {slip[p]} : f.type = "pkt" /\ f.seq = tx[p].seq}

Pending  == [p \in Peers |-> IF Writing(p) THEN tx[p].packet ELSE NoPacket]
Underway == [p \in Peers |-> IF HasTaken(p) THEN {}
                             ELSE {f.data : f \in Copies(p)}
                                  \cup (IF Writing(p) THEN {tx[p].packet} ELSE {})]
Taken    == [p \in Peers |-> HasTaken(p)]

Channel == INSTANCE HciChannel WITH pending <- Pending, underway <- Underway, taken <- Taken

\* The transport is the channel its users rely on, in both directions, over a
\* line that loses and damages frames.
ImplementsChannel == Channel!Spec

FairSpec ==
  Spec /\ \A p \in Peers : /\ WF_vars(PktWriteEnd(p))
                           /\ WF_vars(Timeout(p))
                           /\ WF_vars(FrameEnd(p, Other(p)))

\* Every write ends with a TX-done event, whatever the line does
\* (hci_transport.h, pkt_write: "an event will be send").
WriteEnds == \A p \in Peers : Writing(p) ~> ~Writing(p)
=============================================================================
