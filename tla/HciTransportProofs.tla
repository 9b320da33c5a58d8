------------------------- MODULE HciTransportProofs -------------------------
(***************************************************************************)
(* Proofs about HciTransport for every number of sequence numbers,         *)
(* retries and buffers, every set of packets, whether or not the line is   *)
(* noisy, whichever chip can be preempted and whichever defers extraction. *)
(***************************************************************************)
EXTENDS HciTransport, TLAPS, SequenceTheorems, FiniteSetTheorems

USE PeersAssumption, PacketAssumption, SeqCountAssumption, RetryAssumption, RxQueueSizeAssumption

LEMMA OtherPeer ==
  ASSUME NEW p \in Peers
  PROVE  /\ Other(p) \in Peers /\ Other(p) # p /\ Other(Other(p)) = p
         /\ \A r \in Peers : r = p \/ r = Other(p)
<1>1. \E q \in Peers : q # p OBVIOUS
<1>2. \A r \in Peers : (\E q \in Peers : q # r) => Other(r) \in Peers /\ Other(r) # r
  BY DEF Other
<1>3. QED BY <1>1, <1>2

LEMMA SeqAfterDiffers ==
  ASSUME NEW n \in SeqNumber
  PROVE  SeqAfter(n) \in SeqNumber /\ SeqAfter(n) # n
BY DEF SeqNumber, SeqAfter

-----------------------------------------------------------------------------
(* The link: transmitters, expected numbers and frames.                    *)

LinkType == /\ tx \in [Peers -> TxType]
            /\ writing \in [Peers -> Unsettled \cup {"no", "entry"}]
            /\ expected \in [Peers -> SeqNumber]
            /\ slip \in [Peers -> FrameType]

\* The peer is at the number of the packet being sent or at the next one.  A
\* packet in the air has that number, or is a copy of the packet before; an
\* acknowledgement in the air confirms nothing new or what the peer has taken.
InOrder(p) ==
  LET q == Other(p)
  IN  /\ expected[q] \in {tx[p].seq, SeqAfter(tx[p].seq)}
      /\ slip[p].type = "pkt" => \/ slip[p].seq = tx[p].seq
                                 \/ /\ SeqAfter(slip[p].seq) = tx[p].seq
                                    /\ expected[q] = tx[p].seq
      /\ slip[q].type = "ack" => slip[q].seq \in {tx[p].seq, expected[q]}

\* A write in progress has a packet, and so has a packet in the air; a write
\* that was preempted before the change of state is still idle.
InCall(p) == /\ writing[p] \in Unsettled => tx[p].state = "IDLE"
             /\ Writing(p) => tx[p].packet \in Packet
             /\ slip[p].type = "pkt" => slip[p].data \in Packet

LinkInv == LinkType /\ \A p \in Peers : InOrder(p) /\ InCall(p)

\* The entry of a state clears the retry counter at most.
LEMMA EnteredFacts ==
  ASSUME NEW t \in TxType
  PROVE  /\ Entered(t) \in TxType
         /\ Entered(t).seq = t.seq /\ Entered(t).packet = t.packet /\ Entered(t).state = t.state
<1>1. CASE t.state = "ACTIVE"
  <2>1. Entered(t) = [state |-> t.state, packet |-> t.packet, seq |-> t.seq, retries |-> 0]
    BY <1>1 DEF Entered, TxType
  <2>2. QED BY <1>1, <2>1 DEF TxType
<1>2. CASE t.state # "ACTIVE" BY <1>2 DEF Entered
<1>3. QED BY <1>1, <1>2

LEMMA NextStateFacts ==
  ASSUME NEW t \in TxType, NEW answer
  PROVE  /\ NextState(t, answer) \in TxType
         /\ NextState(t, answer).seq = t.seq
         /\ NextState(t, answer).packet = t.packet
         /\ NextState(t, answer).state = IF answer = "SUCCESS" THEN "ACTIVE" ELSE "PENDING"
<1>1. NextState(t, answer) = [state |-> IF answer = "SUCCESS" THEN "ACTIVE" ELSE "PENDING",
                              packet |-> t.packet, seq |-> t.seq, retries |-> t.retries]
  BY DEF NextState, TxType
<1>2. QED BY <1>1 DEF TxType

LEMMA StateEnteredFacts ==
  ASSUME NEW t \in TxType, NEW answer
  PROVE  /\ StateEntered(t, answer) \in TxType
         /\ StateEntered(t, answer).seq = t.seq
         /\ StateEntered(t, answer).packet = t.packet
         /\ StateEntered(t, answer).state = IF answer = "SUCCESS" THEN "ACTIVE" ELSE "PENDING"
BY NextStateFacts, EnteredFacts DEF StateEntered

LEMMA PktFrameFacts ==
  ASSUME NEW t \in TxType
  PROVE  /\ PktFrame(t) \in FrameType
         /\ PktFrame(t).type = "pkt" /\ PktFrame(t).seq = t.seq /\ PktFrame(t).data = t.packet
BY DEF PktFrame, Frame, TxType, FrameType

LEMMA AckFrameFacts ==
  ASSUME NEW n \in SeqNumber
  PROVE  /\ AckFrame(n) \in FrameType
         /\ AckFrame(n).type = "ack" /\ AckFrame(n).seq = n
BY DEF AckFrame, Frame, FrameType

LEMMA NoFrameFacts == NoFrame \in FrameType /\ NoFrame.type = "none"
BY DEF NoFrame, Frame, FrameType, SeqNumber

\* The end of p's frame at p: its number and its packet stay, and a packet that
\* waited is in the air.
LEMMA TxDoneFacts ==
  ASSUME LinkType, NEW p \in Peers
  PROVE  /\ TxDone(p).tx \in TxType
         /\ TxDone(p).tx.seq = tx[p].seq /\ TxDone(p).tx.packet = tx[p].packet
         /\ TxDone(p).tx.state = IF tx[p].state = "PENDING" THEN "ACTIVE" ELSE tx[p].state
         /\ TxDone(p).frame \in FrameType /\ TxDone(p).frame.type \in {"none", "pkt"}
         /\ TxDone(p).frame.type = "pkt" => /\ tx[p].state = "PENDING"
                                            /\ TxDone(p).frame.seq = tx[p].seq
                                            /\ TxDone(p).frame.data = tx[p].packet
<1>1. tx[p] \in TxType BY DEF LinkType
<1>2. CASE tx[p].state = "PENDING"
  <2>1. TxDone(p).tx = StateEntered(tx[p], "SUCCESS") /\ TxDone(p).frame = PktFrame(tx[p])
    BY <1>2 DEF TxDone
  <2>2. QED BY <1>1, <1>2, <2>1, StateEnteredFacts, PktFrameFacts
<1>3. CASE tx[p].state # "PENDING"
  <2>1. TxDone(p).tx = tx[p] /\ TxDone(p).frame = NoFrame BY <1>3 DEF TxDone
  <2>2. QED BY <1>1, <1>3, <2>1, NoFrameFacts
<1>4. QED BY <1>2, <1>3

\* What is left of the link when the frame of p has gone and q has kept, or
\* begun to send, an acknowledgement of the number it expects.
LEMMA FrameGone ==
  ASSUME LinkInv, NEW p \in Peers, NEW q \in Peers, q = Other(p),
         NEW e \in SeqNumber,
         tx' = [tx EXCEPT ![p] = TxDone(p).tx],
         slip'[p] = TxDone(p).frame, slip'[q] \in {slip[q], AckFrame(e)},
         slip' \in [Peers -> FrameType],
         expected' = [expected EXCEPT ![q] = e],
         e = expected[q] \/ (expected[q] = tx[p].seq /\ e = SeqAfter(tx[p].seq)),
         UNCHANGED writing
  PROVE  LinkInv'
<1>1. q # p /\ p = Other(q) /\ \A r \in Peers : r = p \/ r = q BY OtherPeer
<1>2. LinkType BY DEF LinkInv
<1>3. tx'[p] = TxDone(p).tx /\ tx'[q] = tx[q] /\ expected'[p] = expected[p] /\ expected'[q] = e
  BY <1>1, <1>2 DEF LinkType
<1>4. LinkType' BY <1>2, TxDoneFacts DEF LinkType
<1>5. InOrder(p)'
  <2>1. InOrder(p) BY DEF LinkInv
  <2>2. tx'[p].seq = tx[p].seq BY <1>2, <1>3, TxDoneFacts
  <2>3. slip'[p].type = "pkt" => slip'[p].seq = tx[p].seq BY <1>2, TxDoneFacts
  <2>4. slip'[q].type = "ack" => slip'[q].seq = e \/ slip'[q] = slip[q] BY AckFrameFacts
  <2>5. QED BY <1>3, <2>1, <2>2, <2>3, <2>4 DEF InOrder
<1>6. InOrder(q)'
  <2>1. InOrder(q) BY DEF LinkInv
  <2>2. slip'[p].type # "ack" BY <1>2, TxDoneFacts
  <2>3. slip'[q].type = "pkt" => slip'[q] = slip[q] BY AckFrameFacts
  <2>4. QED BY <1>1, <1>3, <2>1, <2>2, <2>3 DEF InOrder
<1>7. InCall(p)' /\ InCall(q)'
  <2>1. InCall(p) /\ InCall(q) BY DEF LinkInv
  <2>2. slip'[p].type = "pkt" => slip'[p].data \in Packet
    BY <1>2, <2>1, TxDoneFacts DEF InCall, Writing
  <2>3. slip'[q].type = "pkt" => slip'[q] = slip[q] BY AckFrameFacts
  <2>4. QED BY <1>2, <1>3, <2>1, <2>2, <2>3, TxDoneFacts DEF InCall, Writing
<1>8. QED BY <1>1, <1>4, <1>5, <1>6, <1>7 DEF LinkInv

\* Steps of p alone that keep its number: the rest of the link is as it was.
LEMMA SenderStep ==
  ASSUME LinkInv, NEW p \in Peers, NEW t \in TxType, t.seq = tx[p].seq,
         tx' = [tx EXCEPT ![p] = t],
         \/ slip' = slip
         \/ slip' = [slip EXCEPT ![p] = SlipWritten(@, PktFrame(t))] /\ t.packet \in Packet,
         writing' \in [Peers -> Unsettled \cup {"no", "entry"}],
         \A r \in Peers \ {p} : writing'[r] = writing[r],
         writing'[p] \in Unsettled => t.state = "IDLE",
         (t.state # "IDLE" \/ writing'[p] \in Unsettled) => t.packet \in Packet,
         UNCHANGED expected
  PROVE  LinkInv'
<1>1. PICK q \in Peers : q = Other(p) /\ q # p /\ p = Other(q) /\ \A r \in Peers : r = p \/ r = q
  BY OtherPeer
<1>2. LinkType BY DEF LinkInv
<1>3. tx'[p] = t /\ tx'[q] = tx[q] /\ writing'[q] = writing[q] BY <1>1, <1>2 DEF LinkType
<1>4. /\ slip' \in [Peers -> FrameType] /\ slip'[q] = slip[q]
      /\ slip'[p] = slip[p] \/ (slip'[p] = PktFrame(t) /\ t.packet \in Packet)
  BY <1>1, <1>2, PktFrameFacts DEF LinkType, SlipWritten
<1>5. LinkType' BY <1>2, <1>4 DEF LinkType
<1>6. InOrder(p)'
  <2>1. InOrder(p) BY DEF LinkInv
  <2>2. QED BY <1>1, <1>3, <1>4, <2>1, PktFrameFacts DEF InOrder
<1>7. InOrder(q)'
  <2>1. InOrder(q) BY DEF LinkInv
  <2>2. QED BY <1>1, <1>3, <1>4, <2>1, PktFrameFacts DEF InOrder
<1>8. InCall(p)' /\ InCall(q)'
  BY <1>1, <1>3, <1>4, PktFrameFacts DEF LinkInv, InCall, Writing
<1>9. QED BY <1>1, <1>5, <1>6, <1>7, <1>8 DEF LinkInv

LEMMA PktWriteLink ==
  ASSUME LinkInv, NEW p \in Peers, NEW m \in PacketsOf[p], PktWrite(p, m)
  PROVE  LinkInv'
<1> DEFINE answer == IF slip[p] = NoFrame THEN "SUCCESS" ELSE "NO_MEM"
           t == [tx[p] EXCEPT !.packet = m]
<1>1. m \in Packet BY DEF Packet
<1>2. t \in TxType /\ t.seq = tx[p].seq /\ t.packet = m /\ t.state = "IDLE" /\ writing[p] = "no"
  BY <1>1 DEF LinkInv, LinkType, TxType, PktWrite, MayCall
<1>3. slip' = [slip EXCEPT ![p] = SlipWritten(@, PktFrame(t))] /\ UNCHANGED expected
  BY DEF PktWrite
<1>4. CASE p \in Preemptible
  <2>1. tx' = [tx EXCEPT ![p] = t] /\ writing' = [writing EXCEPT ![p] = answer]
    BY <1>4 DEF PktWrite
  <2>2. /\ writing' \in [Peers -> Unsettled \cup {"no", "entry"}]
        /\ \A r \in Peers \ {p} : writing'[r] = writing[r]
    BY <2>1 DEF LinkInv, LinkType, Unsettled
  <2> HIDE DEF t
  <2>3. QED BY <1>1, <1>2, <1>3, <2>1, <2>2, SenderStep
<1>5. CASE p \notin Preemptible
  <2> DEFINE u == StateEntered(t, answer)
  <2>1. tx' = [tx EXCEPT ![p] = u] /\ writing' = writing BY <1>5 DEF PktWrite
  <2>2. u \in TxType /\ u.seq = t.seq /\ u.packet = t.packet BY <1>2, StateEnteredFacts
  <2>3. PktFrame(u) = PktFrame(t) BY <2>2 DEF PktFrame
  <2>4. writing' \in [Peers -> Unsettled \cup {"no", "entry"}] /\ writing'[p] \notin Unsettled
    BY <1>2, <2>1 DEF LinkInv, LinkType, Unsettled
  <2> HIDE DEF t, u
  <2>5. QED BY <1>1, <1>2, <1>3, <2>1, <2>2, <2>3, <2>4, SenderStep
<1>6. QED BY <1>4, <1>5

LEMMA PktWriteEndLink ==
  ASSUME LinkInv, NEW p \in Peers, PktWriteEnd(p)
  PROVE  LinkInv'
<1>1. tx[p] \in TxType /\ LinkType BY DEF LinkInv, LinkType
<1>2. UNCHANGED <<slip, expected>> BY DEF PktWriteEnd, PktWriteState, PktWriteEntry
<1>3. CASE PktWriteState(p)
  <2> DEFINE u == NextState(tx[p], writing[p])
  <2>1. tx[p].packet \in Packet BY <1>3 DEF LinkInv, InCall, Writing, PktWriteState
  <2>2. u \in TxType /\ u.seq = tx[p].seq /\ u.packet \in Packet BY <1>1, <2>1, NextStateFacts
  <2>3. tx' = [tx EXCEPT ![p] = u] /\ writing' = [writing EXCEPT ![p] = "entry"]
    BY <1>3 DEF PktWriteState
  <2>4. /\ writing' \in [Peers -> Unsettled \cup {"no", "entry"}] /\ writing'[p] \notin Unsettled
        /\ \A r \in Peers \ {p} : writing'[r] = writing[r]
    BY <1>1, <2>3 DEF LinkType, Unsettled
  <2> HIDE DEF u
  <2>5. QED BY <1>2, <2>2, <2>3, <2>4, SenderStep
<1>4. CASE PktWriteEntry(p)
  <2> DEFINE u == Entered(tx[p])
  <2>1. u \in TxType /\ u.seq = tx[p].seq /\ u.packet = tx[p].packet /\ u.state = tx[p].state
    BY <1>1, EnteredFacts
  <2>2. tx' = [tx EXCEPT ![p] = u] /\ writing' = [writing EXCEPT ![p] = "no"]
    BY <1>4 DEF PktWriteEntry
  <2>3. /\ writing' \in [Peers -> Unsettled \cup {"no", "entry"}] /\ writing'[p] \notin Unsettled
        /\ \A r \in Peers \ {p} : writing'[r] = writing[r]
    BY <1>1, <2>2 DEF LinkType, Unsettled
  <2>4. u.state # "IDLE" => u.packet \in Packet BY <2>1 DEF LinkInv, InCall, Writing
  <2> HIDE DEF u
  <2>5. QED BY <1>2, <2>1, <2>2, <2>3, <2>4, SenderStep
<1>5. QED BY <1>3, <1>4 DEF PktWriteEnd

LEMMA TimeoutLink ==
  ASSUME LinkInv, NEW p \in Peers, Timeout(p)
  PROVE  LinkInv'
<1>1. tx[p] \in TxType /\ tx[p].packet \in Packet /\ writing[p] = "no"
  BY DEF LinkInv, LinkType, InCall, Writing, Timeout
<1>2. UNCHANGED <<writing, expected>> /\ writing \in [Peers -> Unsettled \cup {"no", "entry"}]
  BY DEF Timeout, LinkInv, LinkType
<1>3. CASE RetriesLeft(p)
  <2> DEFINE u == [tx[p] EXCEPT !.retries = @ + 1]
  <2>1. u = [state |-> tx[p].state, packet |-> tx[p].packet, seq |-> tx[p].seq,
             retries |-> tx[p].retries + 1]
    BY <1>1 DEF TxType
  <2>2. tx[p].retries + 1 \in 0..MaxRetry BY <1>1, <1>3 DEF RetriesLeft, TxType
  <2>3. u \in TxType /\ u.seq = tx[p].seq /\ u.packet = tx[p].packet
    BY <1>1, <2>1, <2>2 DEF TxType
  <2>4. tx' = [tx EXCEPT ![p] = u] /\ slip' = [slip EXCEPT ![p] = SlipWritten(@, PktFrame(tx[p]))]
    BY <1>3 DEF Timeout
  <2>5. PktFrame(u) = PktFrame(tx[p]) BY <2>3 DEF PktFrame
  <2>6. writing[p] \notin Unsettled BY <1>1 DEF Unsettled
  <2> HIDE DEF u
  <2>7. QED BY <1>1, <1>2, <2>3, <2>4, <2>5, <2>6, SenderStep
<1>4. CASE ~RetriesLeft(p)
  <2> DEFINE u == [tx[p] EXCEPT !.state = "IDLE"]
  <2>1. u = [state |-> "IDLE", packet |-> tx[p].packet, seq |-> tx[p].seq,
             retries |-> tx[p].retries]
    BY <1>1 DEF TxType
  <2>2. u \in TxType /\ u.seq = tx[p].seq /\ u.packet = tx[p].packet /\ u.state = "IDLE"
    BY <1>1, <2>1 DEF TxType
  <2>3. tx' = [tx EXCEPT ![p] = u] /\ slip' = slip
    BY <1>1, <1>4, <2>1 DEF Timeout, SeqAfterFailure, TxType, LinkInv, LinkType
  <2> HIDE DEF u
  <2>4. QED BY <1>1, <1>2, <2>2, <2>3, SenderStep
<1>5. QED BY <1>3, <1>4

-----------------------------------------------------------------------------
(* The events at the end of a frame *)

\* What can arrive is of a known type.
LEMMA ArrivalFacts ==
  ASSUME LinkType, NEW p \in Peers, NEW f \in Arrivals(p)
  PROVE  /\ f.seq \in SeqNumber /\ f.data \in Packet \cup {NoPacket}
         /\ f.type \in {"pkt", "ack"} => f = slip[p]
<1>1. slip[p] \in FrameType BY DEF LinkType
<1>2. f \in {slip[p], NoFrame, Damaged} BY DEF Arrivals
<1>3. CASE f = slip[p] BY <1>1, <1>3 DEF FrameType
<1>4. CASE f \in {NoFrame, Damaged} BY <1>4 DEF NoFrame, Damaged, Frame, SeqNumber
<1>5. QED BY <1>2, <1>3, <1>4

LEMMA SenderOnlyLink ==
  ASSUME LinkInv, NEW p \in Peers, SenderOnly(p), UNCHANGED expected
  PROVE  LinkInv'
<1>1. PICK q \in Peers : q = Other(p) /\ q # p BY OtherPeer
<1>2. LinkType BY DEF LinkInv
<1>3. TxDone(p).frame \in FrameType BY <1>2, TxDoneFacts
<1>4. /\ tx' = [tx EXCEPT ![p] = TxDone(p).tx] /\ UNCHANGED writing
      /\ slip' = [slip EXCEPT ![p] = TxDone(p).frame]
  BY DEF SenderOnly
<1>5. slip' \in [Peers -> FrameType] /\ slip'[p] = TxDone(p).frame /\ slip'[q] = slip[q]
  BY <1>1, <1>2, <1>3, <1>4 DEF LinkType
<1>6. expected' = [expected EXCEPT ![q] = expected[q]] /\ expected[q] \in SeqNumber
  BY <1>2 DEF LinkType
<1>7. QED BY <1>1, <1>4, <1>5, <1>6, FrameGone

LEMMA AcceptPktLink ==
  ASSUME LinkInv, NEW p \in Peers, NEW q \in Peers, q = Other(p), NEW f \in Arrivals(p),
         AcceptPkt(p, q, f)
  PROVE  /\ LinkInv'
         /\ f = slip[p] /\ f.seq = tx[p].seq /\ expected[q] = tx[p].seq
<1>1. q # p BY OtherPeer
<1>2. LinkType BY DEF LinkInv
<1>3. f = slip[p] /\ f.type = "pkt" /\ f.seq = expected[q] /\ expected[q] \in SeqNumber
  BY <1>2, ArrivalFacts DEF AcceptPkt, InSequence, LinkType
<1>4. tx[p].seq \in SeqNumber /\ InOrder(p) BY <1>2 DEF LinkInv, LinkType, TxType
<1>5. f.seq = tx[p].seq /\ expected[q] = tx[p].seq
  BY <1>3, <1>4, SeqAfterDiffers DEF InOrder
<1> DEFINE n == SeqAfter(expected[q])
<1>6. n \in SeqNumber BY <1>3, SeqAfterDiffers
<1>7. /\ expected' = [expected EXCEPT ![q] = n]
      /\ tx' = [tx EXCEPT ![p] = TxDone(p).tx] /\ UNCHANGED writing
      /\ slip' = [slip EXCEPT ![p] = TxDone(p).frame, ![q] = SlipWritten(@, AckFrame(n))]
  BY DEF AcceptPkt
<1>8. TxDone(p).frame \in FrameType /\ AckFrame(n) \in FrameType
  BY <1>2, <1>6, TxDoneFacts, AckFrameFacts
<1> HIDE DEF n
<1>9. /\ slip' \in [Peers -> FrameType] /\ slip'[p] = TxDone(p).frame
      /\ slip'[q] \in {slip[q], AckFrame(n)}
  BY <1>1, <1>2, <1>7, <1>8 DEF LinkType, SlipWritten
<1>10. n = SeqAfter(tx[p].seq) BY <1>5 DEF n
<1>11. LinkInv' BY <1>5, <1>6, <1>7, <1>9, <1>10, FrameGone
<1>12. QED BY <1>3, <1>5, <1>11

LEMMA RepeatAckLink ==
  ASSUME LinkInv, NEW p \in Peers, NEW q \in Peers, q = Other(p), NEW f \in Arrivals(p),
         RepeatAck(p, q, f)
  PROVE  LinkInv'
<1>1. q # p BY OtherPeer
<1>2. LinkType BY DEF LinkInv
<1> DEFINE n == expected[q]
<1>3. n \in SeqNumber /\ expected' = [expected EXCEPT ![q] = n] BY <1>2 DEF LinkType, RepeatAck
<1>4. /\ tx' = [tx EXCEPT ![p] = TxDone(p).tx] /\ UNCHANGED writing
      /\ slip' = [slip EXCEPT ![p] = TxDone(p).frame, ![q] = SlipWritten(@, AckFrame(n))]
  BY DEF RepeatAck
<1>5. TxDone(p).frame \in FrameType /\ AckFrame(n) \in FrameType
  BY <1>2, <1>3, TxDoneFacts, AckFrameFacts
<1>6. /\ slip' \in [Peers -> FrameType] /\ slip'[p] = TxDone(p).frame
      /\ slip'[q] \in {slip[q], AckFrame(n)}
  BY <1>1, <1>2, <1>4, <1>5 DEF LinkType, SlipWritten
<1>7. QED BY <1>3, <1>4, <1>6, FrameGone

\* An acknowledgement that q takes confirms what p has taken: q's number moves
\* on to the one p expects.
LEMMA ReceiveAckLink ==
  ASSUME LinkInv, NEW p \in Peers, NEW q \in Peers, q = Other(p), NEW f \in Arrivals(p),
         ReceiveAck(p, q, f)
  PROVE  /\ LinkInv'
         /\ slip[p].type = "ack"
         /\ \/ tx'[q] = tx[q]
            \/ /\ tx[q].state = "ACTIVE" /\ expected[p] = SeqAfter(tx[q].seq)
               /\ tx'[q] = [tx[q] EXCEPT !.state = "IDLE", !.seq = expected[p]]
<1>1. q # p /\ p = Other(q) /\ \A r \in Peers : r = p \/ r = q BY OtherPeer
<1>2. LinkType BY DEF LinkInv
<1>3. f = slip[p] /\ slip[p].type = "ack" /\ f.seq \in SeqNumber BY <1>2, ArrivalFacts DEF ReceiveAck
<1>4. /\ tx[q] \in TxType /\ tx[q].seq \in SeqNumber /\ expected[p] \in SeqNumber
      /\ InOrder(p) /\ InOrder(q) /\ InCall(p) /\ InCall(q)
  BY <1>2 DEF LinkInv, LinkType, TxType
<1>5. /\ tx' = [tx EXCEPT ![p] = TxDone(p).tx, ![q] = AckTaken(q, f.seq)]
      /\ slip' = [slip EXCEPT ![p] = TxDone(p).frame]
      /\ UNCHANGED <<writing, expected>>
  BY DEF ReceiveAck, BufferAgain
<1>6. /\ tx'[p] = TxDone(p).tx /\ tx'[q] = AckTaken(q, f.seq)
      /\ slip'[p] = TxDone(p).frame /\ slip'[q] = slip[q]
  BY <1>1, <1>2, <1>5 DEF LinkType
<1>7. \/ tx'[q] = tx[q]
      \/ /\ tx[q].state = "ACTIVE" /\ expected[p] = SeqAfter(tx[q].seq)
         /\ tx'[q] = [tx[q] EXCEPT !.state = "IDLE", !.seq = expected[p]]
  <2>1. f.seq \in {tx[q].seq, expected[p]} BY <1>1, <1>3, <1>4 DEF InOrder
  <2>2. SeqAfter(tx[q].seq) # tx[q].seq BY <1>4, SeqAfterDiffers
  <2>3. CASE tx[q].state = "ACTIVE" /\ f.seq = SeqAfter(tx[q].seq)
    <3>1. expected[p] = SeqAfter(tx[q].seq) BY <2>1, <2>2, <2>3
    <3>2. AckTaken(q, f.seq) = [tx[q] EXCEPT !.state = "IDLE", !.seq = SeqAfter(@)]
      BY <2>3 DEF AckTaken, IsExpectedAck
    <3>3. QED BY <1>6, <2>3, <3>1, <3>2
  <2>4. CASE ~(tx[q].state = "ACTIVE" /\ f.seq = SeqAfter(tx[q].seq))
    <3>1. AckTaken(q, f.seq) = tx[q] BY <2>4 DEF AckTaken, IsExpectedAck
    <3>2. QED BY <1>6, <3>1
  <2>5. QED BY <2>3, <2>4
<1>8. tx'[q] \in TxType /\ tx'[q].packet = tx[q].packet /\ (tx'[q] = tx[q] \/ tx'[q].state = "IDLE")
  <2>1. CASE tx'[q] = tx[q] BY <1>4, <2>1
  <2>2. CASE tx'[q] = [tx[q] EXCEPT !.state = "IDLE", !.seq = expected[p]]
    <3>1. tx'[q] = [state |-> "IDLE", packet |-> tx[q].packet, seq |-> expected[p],
                    retries |-> tx[q].retries]
      BY <1>4, <2>2 DEF TxType
    <3>2. QED BY <1>4, <3>1 DEF TxType
  <2>3. QED BY <1>7, <2>1, <2>2
<1>9. LinkType'
  BY <1>1, <1>2, <1>5, <1>6, <1>8, TxDoneFacts DEF LinkType
<1>10. InOrder(p)' BY <1>1, <1>2, <1>4, <1>5, <1>6, TxDoneFacts DEF InOrder
<1>11. InOrder(q)'
  <2>1. slip'[p].type # "ack" BY <1>2, <1>6, TxDoneFacts
  <2>2. CASE tx'[q] = tx[q] BY <1>1, <1>4, <1>5, <1>6, <2>1, <2>2 DEF InOrder
  <2>3. CASE /\ expected[p] = SeqAfter(tx[q].seq)
             /\ tx'[q] = [tx[q] EXCEPT !.state = "IDLE", !.seq = expected[p]]
    <3>1. tx'[q].seq = expected[p] BY <1>4, <2>3 DEF TxType
    <3>2. slip[q].type = "pkt" => slip[q].seq = tx[q].seq
      BY <1>1, <1>4, <2>3, SeqAfterDiffers DEF InOrder
    <3>3. QED BY <1>1, <1>5, <1>6, <2>1, <2>3, <3>1, <3>2 DEF InOrder
  <2>4. QED BY <1>7, <2>2, <2>3
<1>12. InCall(p)' /\ InCall(q)'
  BY <1>2, <1>4, <1>5, <1>6, <1>8, TxDoneFacts, <1>7 DEF InCall, Writing
<1>13. QED BY <1>1, <1>3, <1>7, <1>9, <1>10, <1>11, <1>12 DEF LinkInv

-----------------------------------------------------------------------------
(* The pool *)

LEMMA SlotAfterType == ASSUME NEW i \in PoolSlot PROVE SlotAfter(i) \in PoolSlot
BY DEF SlotAfter, PoolSlot

LEMMA ProducedFacts ==
  ASSUME NEW q \in PoolType, CanProduce(q)
  PROVE  Produced(q) = [window |-> q.window - 1, available |-> q.available,
                        readable |-> q.readable + 1, write |-> SlotAfter(q.write),
                        read |-> q.read, bits |-> q.bits \cup {q.write}]
         /\ Produced(q) \in PoolType
<1> DEFINE next == SlotAfter(q.write)
           bits == q.bits \cup {q.write}
<1>1. next \in PoolSlot /\ bits \in SUBSET PoolSlot BY SlotAfterType DEF PoolType
<1>2. Produced(q) = [q EXCEPT !.window = @ - 1, !.readable = @ + 1, !.bits = bits, !.write = next]
  BY DEF Produced
<1>3. q.window - 1 \in Nat /\ q.readable + 1 \in Nat BY DEF PoolType, CanProduce
<1> HIDE DEF next, bits
<1>4. Produced(q) = [window |-> q.window - 1, available |-> q.available,
                     readable |-> q.readable + 1, write |-> next, read |-> q.read, bits |-> bits]
  BY <1>1, <1>2 DEF PoolType
<1>5. Produced(q) \in PoolType BY <1>1, <1>3, <1>4 DEF PoolType
<1>6. QED BY <1>4, <1>5 DEF next, bits

LEMMA ExtractedFacts ==
  ASSUME NEW q \in PoolType, NEW n \in Nat \ {0}
  PROVE  /\ ExtractedFrom(q, n) \in PoolType
         /\ ExtractedFrom(q, n).read = SlotAfter(q.read)
         /\ ExtractedFrom(q, n).write = q.write
<1> DEFINE next == SlotAfter(q.read)
<1>1. next \in PoolSlot BY SlotAfterType DEF PoolType
<1>2. ExtractedFrom(q, n) = [q EXCEPT !.readable = n - 1, !.available = @ + 1, !.read = next]
  BY DEF ExtractedFrom
<1> HIDE DEF next
<1>3. ExtractedFrom(q, n) = [window |-> q.window, available |-> q.available + 1,
                             readable |-> n - 1, write |-> q.write, read |-> next,
                             bits |-> q.bits]
  BY <1>1, <1>2 DEF PoolType
<1>4. n - 1 \in Nat /\ q.available + 1 \in Nat BY DEF PoolType
<1>5. ExtractedFrom(q, n) \in PoolType BY <1>1, <1>3, <1>4 DEF PoolType
<1>6. QED BY <1>3, <1>5 DEF next

PoolTypes == /\ used \in [Peers -> PoolSlot \cup {NoSlot}]
             /\ buffer \in [Peers -> {"pool", "ack", "null"}]
             /\ pool \in [Peers -> PoolType]
             /\ access \in [Peers -> ProgressType]
             /\ ready \in [Peers -> BOOLEAN]
             /\ held \in [Peers -> Seq(PoolSlot)]
             /\ inbox \in [Peers -> Packet \cup {NoPacket}]

\* SLIP's buffer is the one produced last and, where packets are extracted as
\* they come, the one the user extracts next.
SlipBuffer(q) ==
  /\ used[q] # NoSlot => pool[q].write = SlotAfter(used[q])
  /\ buffer[q] = "pool" => used[q] # NoSlot
  /\ q \notin Deferring => pool[q].read = NextFilled(q)

\* A call of the thread decrements no counter that it has read as zero, and
\* only a user that defers extraction extracts in the thread.
CallInv(q) ==
  /\ access[q].pc \in {"extract", "count"} => access[q].count # 0
  /\ ready[q] \/ access[q].pc = "extract" => q \in Deferring

PoolInv == PoolTypes /\ \A q \in Peers : SlipBuffer(q) /\ CallInv(q)

LEMMA NoCallType == NoCall \in ProgressType /\ NoCall.pc = "none"
BY DEF NoCall, ProgressType, PoolSlot

LEMMA SlotIsOne == \A b \in PoolSlot : b # NoSlot
BY DEF PoolSlot, NoSlot

\* A step of the pool's owner q that leaves SLIP's buffer alone.
LEMMA CallPool ==
  ASSUME PoolInv, NEW q \in Peers, NEW c \in PoolType, NEW a \in ProgressType,
         NEW b \in BOOLEAN, NEW h \in Seq(PoolSlot),
         pool' = [pool EXCEPT ![q] = c], access' = [access EXCEPT ![q] = a],
         ready' = [ready EXCEPT ![q] = b], held' = [held EXCEPT ![q] = h],
         c.write = pool[q].write, c.read = pool[q].read \/ q \in Deferring,
         a.pc \in {"extract", "count"} => a.count # 0,
         b \/ a.pc = "extract" => q \in Deferring,
         UNCHANGED <<used, buffer, inbox>>
  PROVE  PoolInv'
<1>1. PoolTypes' BY DEF PoolInv, PoolTypes
<1>2. pool'[q] = c /\ access'[q] = a /\ ready'[q] = b BY DEF PoolInv, PoolTypes
<1>3. SlipBuffer(q)' /\ CallInv(q)'
  BY <1>2 DEF PoolInv, SlipBuffer, CallInv, NextFilled
<1>4. ASSUME NEW r \in Peers \ {q} PROVE SlipBuffer(r)' /\ CallInv(r)'
  <2>1. pool'[r] = pool[r] /\ access'[r] = access[r] /\ ready'[r] = ready[r]
    BY DEF PoolInv, PoolTypes
  <2>2. QED BY <2>1 DEF PoolInv, SlipBuffer, CallInv, NextFilled
<1>5. QED BY <1>1, <1>3, <1>4 DEF PoolInv

LEMMA PoolKept ==
  ASSUME PoolInv, UNCHANGED <<used, buffer, callVars>>
  PROVE  PoolInv'
BY DEF PoolInv, PoolTypes, SlipBuffer, CallInv, NextFilled, callVars, userVars

LEMMA RegisterPool ==
  ASSUME PoolInv, NEW q \in Peers, NEW b \in {"pool", "ack", "null"}, Register(q, b),
         b = "pool" => used[q] # NoSlot, UNCHANGED <<used, callVars>>
  PROVE  PoolInv'
BY DEF PoolInv, PoolTypes, SlipBuffer, CallInv, NextFilled, Register, callVars, userVars

LEMMA BufferAgainPool ==
  ASSUME PoolInv, NEW q \in Peers, BufferAgain(q)
  PROVE  PoolInv'
<1> DEFINE produce == used[q] = NoSlot /\ CanProduce(pool[q])
<1>1. SlipBuffer(q) /\ pool[q] \in PoolType /\ pool[q].write \in PoolSlot
  BY DEF PoolInv, PoolTypes, PoolType
<1>2. UNCHANGED <<access, ready, held, inbox>> BY DEF BufferAgain, userVars
<1>3. CASE produce
  <2>1. /\ used' = [used EXCEPT ![q] = pool[q].write]
        /\ pool' = [pool EXCEPT ![q] = Produced(pool[q])]
        /\ buffer' = [buffer EXCEPT ![q] = "pool"]
    BY <1>3 DEF BufferAgain, Register
  <2>2. /\ Produced(pool[q]) \in PoolType /\ Produced(pool[q]).read = pool[q].read
        /\ Produced(pool[q]).write = SlotAfter(pool[q].write)
    BY <1>1, <1>3, ProducedFacts
  <2>3. pool[q].write # NoSlot BY <1>1, SlotIsOne
  <2>4. PoolTypes' BY <1>1, <1>2, <2>1, <2>2 DEF PoolInv, PoolTypes
  <2>5. used'[q] = pool[q].write /\ pool'[q] = Produced(pool[q]) BY <2>1 DEF PoolInv, PoolTypes
  <2>6. SlipBuffer(q)' BY <1>1, <1>3, <2>2, <2>3, <2>5 DEF SlipBuffer, NextFilled
  <2>7. ASSUME NEW r \in Peers \ {q} PROVE SlipBuffer(r)'
    BY <2>1 DEF PoolInv, PoolTypes, SlipBuffer, NextFilled
  <2>8. QED BY <1>2, <2>4, <2>6, <2>7 DEF PoolInv, CallInv
<1>4. CASE ~produce
  <2>1. /\ used' = used /\ pool' = pool
        /\ buffer' = [buffer EXCEPT ![q] = IF used[q] # NoSlot THEN "pool" ELSE "ack"]
    BY <1>4 DEF BufferAgain, Register, PoolInv, PoolTypes
  <2>2. QED BY <1>2, <2>1 DEF PoolInv, PoolTypes, SlipBuffer, CallInv, NextFilled
<1>5. QED BY <1>3, <1>4

\* No packet reaches a user: what the next one is received into and what is
\* extracted next stay.
NothingTaken ==
  /\ UNCHANGED <<access, ready, held>>
  /\ \A r \in Peers : pool'[r].read = pool[r].read /\ NextFilled(r)' = NextFilled(r)

LEMMA PoolUntouched ==
  ASSUME UNCHANGED <<used, callVars>>
  PROVE  NothingTaken
BY DEF NothingTaken, NextFilled, callVars, userVars

LEMMA BufferAgainTakesNothing ==
  ASSUME PoolInv, NEW q \in Peers, BufferAgain(q)
  PROVE  NothingTaken
<1> DEFINE produce == used[q] = NoSlot /\ CanProduce(pool[q])
<1>1. pool[q] \in PoolType /\ pool[q].write \in PoolSlot
  BY DEF PoolInv, PoolTypes, PoolType
<1>2. UNCHANGED <<access, ready, held>> BY DEF BufferAgain, userVars
<1>3. CASE produce
  <2>1. /\ used' = [used EXCEPT ![q] = pool[q].write]
        /\ pool' = [pool EXCEPT ![q] = Produced(pool[q])]
    BY <1>3 DEF BufferAgain
  <2>2. Produced(pool[q]).read = pool[q].read BY <1>1, <1>3, ProducedFacts
  <2>3. pool[q].write # NoSlot BY <1>1, SlotIsOne
  <2>4. /\ used'[q] = pool[q].write /\ pool'[q] = Produced(pool[q])
        /\ \A r \in Peers \ {q} : used'[r] = used[r] /\ pool'[r] = pool[r]
    BY <2>1 DEF PoolInv, PoolTypes
  <2>5. pool'[q].read = pool[q].read /\ NextFilled(q)' = NextFilled(q)
    BY <1>3, <2>2, <2>3, <2>4 DEF NextFilled
  <2>6. \A r \in Peers \ {q} : pool'[r].read = pool[r].read /\ NextFilled(r)' = NextFilled(r)
    BY <2>4 DEF NextFilled
  <2>7. QED BY <1>2, <2>5, <2>6 DEF NothingTaken
<1>4. CASE ~produce
  <2>1. used' = used /\ pool' = pool BY <1>4 DEF BufferAgain, PoolInv, PoolTypes
  <2>2. QED BY <1>2, <2>1 DEF NothingTaken, NextFilled
<1>5. QED BY <1>3, <1>4

\* A user that defers extraction has one packet more to extract.
LEMMA AcceptPktReady ==
  ASSUME PoolInv, NEW p \in Peers, NEW q \in Deferring, q \in Peers, NEW f, AcceptPkt(p, q, f),
         pool[q].read = NextFilled(q)
  PROVE  OneToExtract(q)'
<1> DEFINE room == CanProduce(pool[q])
           produced == IF room THEN Produced(pool[q]) ELSE pool[q]
           next == IF room THEN pool[q].write ELSE NoSlot
<1>1. /\ pool[q] \in PoolType /\ pool[q].write # NoSlot
      /\ pool[q].write = SlotAfter(used[q]) /\ pool[q].read = used[q]
  BY SlotIsOne DEF PoolInv, SlipBuffer, PoolTypes, PoolType, AcceptPkt, NextFilled
<1>2. /\ produced.read = pool[q].read
      /\ produced.write = IF room THEN SlotAfter(pool[q].write) ELSE pool[q].write
  BY <1>1, ProducedFacts
<1>3. used'[q] = next /\ pool'[q] = produced
  BY DEF AcceptPkt, PoolInv, PoolTypes
<1>4. NextFilled(q)' = pool[q].write BY <1>1, <1>2, <1>3 DEF NextFilled
<1>5. QED BY <1>1, <1>2, <1>3, <1>4 DEF OneToExtract

\* The user is given the very packet that has arrived.
LEMMA AcceptPktPool ==
  ASSUME PoolInv, NEW p \in Peers, NEW q \in Peers, NEW f, f.data \in Packet \cup {NoPacket},
         AcceptPkt(p, q, f)
  PROVE  PoolInv' /\ inbox' = [inbox EXCEPT ![q] = f.data]
<1> DEFINE room == CanProduce(pool[q])
           produced == IF room THEN Produced(pool[q]) ELSE pool[q]
           next == IF room THEN pool[q].write ELSE NoSlot
<1>1. /\ SlipBuffer(q) /\ CallInv(q) /\ used[q] # NoSlot /\ used[q] \in PoolSlot
      /\ pool[q] \in PoolType /\ pool[q].write \in PoolSlot /\ pool[q].write # NoSlot
      /\ pool[q].write = SlotAfter(used[q]) /\ held[q] \in Seq(PoolSlot)
  BY SlotIsOne DEF PoolInv, SlipBuffer, PoolTypes, PoolType, AcceptPkt
<1>2. /\ produced \in PoolType /\ produced.read = pool[q].read
      /\ produced.write = IF room THEN SlotAfter(pool[q].write) ELSE pool[q].write
  BY <1>1, ProducedFacts
<1>3. /\ used' = [used EXCEPT ![q] = next]
      /\ buffer' = [buffer EXCEPT ![q] = IF room THEN "pool" ELSE "ack"]
      /\ UNCHANGED access
  BY DEF AcceptPkt, Register
<1>4. CASE q \in Deferring
  <2>1. /\ ready' = [ready EXCEPT ![q] = TRUE] /\ pool' = [pool EXCEPT ![q] = produced]
        /\ inbox' = [inbox EXCEPT ![q] = f.data] /\ UNCHANGED held
    BY <1>4 DEF AcceptPkt
  <2> HIDE DEF produced
  <2>2. PoolTypes' BY <1>1, <1>2, <1>3, <2>1 DEF PoolInv, PoolTypes
  <2>3. pool'[q] = produced /\ used'[q] = next /\ buffer'[q] = IF room THEN "pool" ELSE "ack"
    BY <1>3, <2>1 DEF PoolInv, PoolTypes
  <2>4. SlipBuffer(q)' BY <1>1, <1>2, <1>4, <2>3 DEF SlipBuffer
  <2>5. CallInv(q)' BY <1>1, <1>3, <1>4 DEF CallInv
  <2>6. ASSUME NEW r \in Peers \ {q} PROVE SlipBuffer(r)' /\ CallInv(r)'
    BY <1>3, <2>1 DEF PoolInv, PoolTypes, SlipBuffer, CallInv, NextFilled
  <2>7. QED BY <2>1, <2>2, <2>4, <2>5, <2>6 DEF PoolInv
<1>5. CASE q \notin Deferring
  <2> DEFINE last == Extracted(produced)
  <2>1. /\ pool' = [pool EXCEPT ![q] = last] /\ CanExtract(produced) /\ UNCHANGED ready
        /\ held' = [held EXCEPT ![q] = Append(@, produced.read)]
        /\ inbox' = [inbox EXCEPT ![q] = IF produced.read = used[q] THEN f.data ELSE NoPacket]
    BY <1>5 DEF AcceptPkt
  <2>2. pool[q].read = used[q] /\ used[q] \in PoolSlot BY <1>1, <1>5 DEF SlipBuffer, NextFilled
  <2> HIDE DEF produced
  <2>3. produced.readable \in Nat \ {0} BY <1>2, <2>1 DEF PoolType, CanExtract
  <2>4. last \in PoolType /\ last.read = SlotAfter(used[q]) /\ last.write = produced.write
    BY <1>2, <2>2, <2>3, ExtractedFacts DEF Extracted
  <2> HIDE DEF last
  <2>5. inbox' = [inbox EXCEPT ![q] = f.data] BY <1>2, <2>1, <2>2
  <2>6. Append(held[q], produced.read) \in Seq(PoolSlot) BY <1>1, <1>2, <2>2
  <2>7. PoolTypes' BY <1>1, <1>3, <2>1, <2>4, <2>5, <2>6 DEF PoolInv, PoolTypes
  <2>8. pool'[q] = last /\ used'[q] = next /\ buffer'[q] = IF room THEN "pool" ELSE "ack"
    BY <1>3, <2>1 DEF PoolInv, PoolTypes
  <2>9. SlipBuffer(q)' BY <1>1, <1>2, <2>4, <2>8 DEF SlipBuffer, NextFilled
  <2>10. \A r \in Peers : CallInv(r)' BY <1>3, <2>1 DEF PoolInv, CallInv
  <2>11. ASSUME NEW r \in Peers \ {q} PROVE SlipBuffer(r)'
    BY <1>3, <2>1 DEF PoolInv, PoolTypes, SlipBuffer, NextFilled
  <2>12. QED BY <2>5, <2>7, <2>9, <2>10, <2>11 DEF PoolInv
<1>6. QED BY <1>4, <1>5

LEMMA ExtractPool ==
  ASSUME PoolInv, NEW q \in Peers, Extract(q)
  PROVE  PoolInv'
<1> DEFINE a == IF CanExtract(pool[q]) THEN Extracting(pool[q].readable) ELSE NoCall
<1>1. pool[q] \in PoolType /\ held[q] \in Seq(PoolSlot) /\ q \in Deferring
  BY DEF PoolInv, PoolTypes, CallInv, Extract
<1>2. a \in ProgressType /\ (a.pc \in {"extract", "count"} => a.count # 0)
  <2>1. CASE CanExtract(pool[q])
    <3>1. a = [pc |-> "extract", slot |-> NoSlot, start |-> 0, found |-> 0,
               count |-> pool[q].readable, bits |-> {}]
      BY <2>1 DEF Extracting, NoCall
    <3>2. QED BY <1>1, <2>1, <3>1 DEF ProgressType, PoolType, CanExtract, PoolSlot
  <2>2. CASE ~CanExtract(pool[q]) BY <2>2, NoCallType
  <2>3. QED BY <2>1, <2>2
<1>3. /\ pool' = [pool EXCEPT ![q] = pool[q]] /\ held' = [held EXCEPT ![q] = held[q]]
      /\ access' = [access EXCEPT ![q] = a] /\ ready' = [ready EXCEPT ![q] = FALSE]
      /\ UNCHANGED <<used, buffer, inbox>>
  BY DEF Extract, PoolInv, PoolTypes, lineVars
<1> HIDE DEF a
<1>4. QED BY <1>1, <1>2, <1>3, CallPool

LEMMA ExtractEndPool ==
  ASSUME PoolInv, NEW q \in Peers, ExtractEnd(q)
  PROVE  PoolInv'
<1> DEFINE c == ExtractedFrom(pool[q], access[q].count)
           h == Append(held[q], pool[q].read)
<1>1. /\ pool[q] \in PoolType /\ held[q] \in Seq(PoolSlot) /\ ready[q] \in BOOLEAN
      /\ access[q].count \in Nat \ {0} /\ q \in Deferring /\ pool[q].read \in PoolSlot
  BY DEF PoolInv, PoolTypes, CallInv, ExtractEnd, ProgressType, PoolType
<1>2. c \in PoolType /\ c.write = pool[q].write BY <1>1, ExtractedFacts
<1>3. h \in Seq(PoolSlot) BY <1>1
<1>4. /\ pool' = [pool EXCEPT ![q] = c] /\ held' = [held EXCEPT ![q] = h]
      /\ access' = [access EXCEPT ![q] = NoCall] /\ ready' = [ready EXCEPT ![q] = ready[q]]
      /\ UNCHANGED <<used, buffer, inbox>>
  BY DEF ExtractEnd, PoolInv, PoolTypes, lineVars
<1> HIDE DEF c, h
<1>5. QED BY <1>1, <1>2, <1>3, <1>4, NoCallType, CallPool

\* A sequence without its i-th element.
LEMMA WithoutFacts ==
  ASSUME NEW S, NEW s \in Seq(S), NEW i \in 1..Len(s)
  PROVE  LET r == SubSeq(s, 1, i - 1) \o SubSeq(s, i + 1, Len(s))
         IN  /\ r \in Seq(S) /\ Len(r) = Len(s) - 1
             /\ \A j \in 1..(Len(s) - 1) : r[j] = IF j < i THEN s[j] ELSE s[j + 1]
<1> DEFINE before == SubSeq(s, 1, i - 1)
           after  == SubSeq(s, i + 1, Len(s))
<1>1. Len(s) \in Nat /\ i \in Nat \ {0} /\ i <= Len(s) OBVIOUS
<1>2. \A j \in 1..Len(s) : s[j] \in S BY ElementOfSeq
<1>3. /\ before \in Seq(S) /\ Len(before) = i - 1
      /\ \A j \in 1..(i - 1) : before[j] = s[j]
  BY <1>1, <1>2, SubSeqProperties
<1>4. /\ after \in Seq(S) /\ Len(after) = Len(s) - i
      /\ \A j \in 1..(Len(s) - i) : after[j] = s[i + j]
  <2>1. \A j \in (i + 1)..Len(s) : s[j] \in S BY <1>1, <1>2
  <2>2. /\ after \in Seq(S)
        /\ Len(after) = IF i + 1 <= Len(s) THEN Len(s) - (i + 1) + 1 ELSE 0
        /\ \A j \in 1..(Len(s) - (i + 1) + 1) : after[j] = s[i + 1 + j - 1]
    BY <1>1, <2>1, SubSeqProperties
  <2>3. QED BY <1>1, <2>2
<1> HIDE DEF before, after
<1>5. /\ before \o after \in Seq(S) /\ Len(before \o after) = Len(before) + Len(after)
      /\ \A j \in 1..(Len(before) + Len(after)) :
           (before \o after)[j] = IF j <= Len(before) THEN before[j] ELSE after[j - Len(before)]
  <2>1. before \in Seq(S) /\ after \in Seq(S) BY <1>3, <1>4
  <2>2. QED BY <2>1, ConcatProperties
<1>6. Len(before) + Len(after) = Len(s) - 1 BY <1>1, <1>3, <1>4
<1>7. ASSUME NEW j \in 1..(Len(s) - 1)
      PROVE  (before \o after)[j] = IF j < i THEN s[j] ELSE s[j + 1]
  <2>1. (before \o after)[j] = IF j <= i - 1 THEN before[j] ELSE after[j - (i - 1)]
    BY <1>3, <1>5, <1>6
  <2>2. CASE j < i BY <1>1, <1>3, <2>1, <2>2
  <2>3. CASE ~(j < i)
    <3>1. j - (i - 1) \in 1..(Len(s) - i) /\ i + (j - (i - 1)) = j + 1 BY <1>1, <2>3
    <3>2. after[j - (i - 1)] = s[i + (j - (i - 1))] BY <1>4, <3>1
    <3>3. ~(j <= i - 1) BY <1>1, <2>3
    <3>4. QED BY <2>1, <2>3, <3>1, <3>2, <3>3
  <2>4. QED BY <2>2, <2>3
<1>8. QED BY <1>5, <1>6, <1>7 DEF before, after

LEMMA ConsumePool ==
  ASSUME PoolInv, NEW q \in Peers, NEW i \in DOMAIN held[q], Consume(q, i)
  PROVE  PoolInv'
<1> DEFINE a == Consuming(pool[q], held[q][i])
           h == SubSeq(held[q], 1, i - 1) \o SubSeq(held[q], i + 1, Len(held[q]))
<1>1. /\ held[q] \in Seq(PoolSlot) /\ i \in 1..Len(held[q]) /\ pool[q] \in PoolType
      /\ ready[q] \in BOOLEAN /\ CallInv(q)
  BY DEF PoolInv, PoolTypes
<1>2. held[q][i] \in PoolSlot /\ h \in Seq(PoolSlot)
  BY <1>1, ElementOfSeq, WithoutFacts
<1>3. a \in ProgressType /\ a.pc \notin {"extract", "count"}
  <2>1. CASE pool[q].available = 0 BY <2>1, NoCallType DEF Consuming
  <2>2. CASE pool[q].available # 0
    <3>1. a = [pc |-> "find", slot |-> held[q][i], start |-> 0, found |-> 0,
               count |-> pool[q].read, bits |-> {}]
      BY <2>2 DEF Consuming, NoCall
    <3>2. QED BY <1>1, <1>2, <3>1 DEF ProgressType, PoolType, PoolSlot
  <2>3. QED BY <2>1, <2>2
<1>4. /\ pool' = [pool EXCEPT ![q] = pool[q]] /\ held' = [held EXCEPT ![q] = h]
      /\ access' = [access EXCEPT ![q] = a] /\ ready' = [ready EXCEPT ![q] = ready[q]]
      /\ UNCHANGED <<used, buffer, inbox>>
  BY DEF Consume, PoolInv, PoolTypes, lineVars
<1>5. ready[q] => q \in Deferring BY <1>1 DEF CallInv
<1> HIDE DEF a, h
<1>6. QED BY <1>1, <1>2, <1>3, <1>4, <1>5, CallPool

LEMMA SlotBackType ==
  ASSUME NEW i \in Nat, NEW k \in Nat
  PROVE  SlotBack(i, k) \in PoolSlot
BY DEF SlotBack, PoolSlot

\* A call that goes on: its record with other values.
LEMMA ProgressAt ==
  ASSUME NEW c \in ProgressType, NEW pc
  PROVE  [c EXCEPT !.pc = pc]
           = [pc |-> pc, slot |-> c.slot, start |-> c.start, found |-> c.found,
              count |-> c.count, bits |-> c.bits]
BY DEF ProgressType

LEMMA ProgressChanged ==
  ASSUME NEW c \in ProgressType, NEW pc, NEW count, NEW bits
  PROVE  /\ [c EXCEPT !.pc = pc, !.bits = bits]
              = [pc |-> pc, slot |-> c.slot, start |-> c.start, found |-> c.found,
                 count |-> c.count, bits |-> bits]
         /\ [c EXCEPT !.pc = pc, !.count = count]
              = [pc |-> pc, slot |-> c.slot, start |-> c.start, found |-> c.found,
                 count |-> count, bits |-> c.bits]
<1> DEFINE d == [c EXCEPT !.pc = pc]
<1>1. /\ [c EXCEPT !.pc = pc, !.bits = bits] = [d EXCEPT !.bits = bits]
      /\ [c EXCEPT !.pc = pc, !.count = count] = [d EXCEPT !.count = count]
  OBVIOUS
<1>2. d = [pc |-> pc, slot |-> c.slot, start |-> c.start, found |-> c.found,
           count |-> c.count, bits |-> c.bits]
  BY ProgressAt
<1> HIDE DEF d
<1>3. [d EXCEPT !.bits = bits]
        = [pc |-> pc, slot |-> c.slot, start |-> c.start, found |-> c.found,
           count |-> c.count, bits |-> bits]
  BY <1>2
<1>4. [d EXCEPT !.count = count]
        = [pc |-> pc, slot |-> c.slot, start |-> c.start, found |-> c.found,
           count |-> count, bits |-> c.bits]
  BY <1>2
<1>5. QED BY <1>1, <1>3, <1>4

LEMMA ProgressRepeated ==
  ASSUME NEW c \in ProgressType, NEW start
  PROVE  [c EXCEPT !.pc = "test", !.start = start, !.count = 0]
           = [pc |-> "test", slot |-> c.slot, start |-> start, found |-> c.found,
              count |-> 0, bits |-> c.bits]
<1> DEFINE d == [c EXCEPT !.pc = "test"]
           e == [d EXCEPT !.start = start]
<1>1. [c EXCEPT !.pc = "test", !.start = start, !.count = 0] = [e EXCEPT !.count = 0]
  OBVIOUS
<1>2. d = [pc |-> "test", slot |-> c.slot, start |-> c.start, found |-> c.found,
           count |-> c.count, bits |-> c.bits]
  BY ProgressAt
<1> HIDE DEF d
<1>3. e = [pc |-> "test", slot |-> c.slot, start |-> start, found |-> c.found,
           count |-> c.count, bits |-> c.bits]
  BY <1>2
<1> HIDE DEF e
<1>4. [e EXCEPT !.count = 0]
        = [pc |-> "test", slot |-> c.slot, start |-> start, found |-> c.found,
           count |-> 0, bits |-> c.bits]
  BY <1>3
<1>5. QED BY <1>1, <1>4

\* A step of a consume moves no position of the pool.
LEMMA ConsumeStepFacts ==
  ASSUME PoolInv, NEW q \in Peers, ConsumeStep(q)
  PROVE  \E to \in PoolType, next \in ProgressType :
           /\ to.write = pool[q].write /\ to.read = pool[q].read
           /\ next.pc # "extract" /\ (next.pc = "count" => next.count # 0)
           /\ Goes(q, to, next)
<1> DEFINE now == pool[q]
           c == access[q]
<1>1. now \in PoolType /\ c \in ProgressType /\ CallInv(q)
  BY DEF PoolInv, PoolTypes
<1>2. CASE c.pc = "find" /\ Goes(q, now, ConsumeFind(now, c))
  <2> DEFINE start == SlotBack(c.count, now.available)
  <2>1. start \in PoolSlot /\ now.read \in PoolSlot /\ now.bits \in SUBSET PoolSlot
    BY <1>1, SlotBackType DEF ProgressType, PoolType
  <2>2. CASE c.slot \in Searched(start, now.read)
    <3>1. c.slot \in PoolSlot BY <2>2 DEF Searched
    <3>2. ConsumeFind(now, c) = [c EXCEPT !.pc = "turn", !.start = start, !.found = c.slot,
                                          !.bits = now.bits, !.count = 0]
      BY <2>2 DEF ConsumeFind
    <3> HIDE DEF start
    <3>3. ConsumeFind(now, c) = [pc |-> "turn", slot |-> c.slot, start |-> start,
                                 found |-> c.slot, count |-> 0, bits |-> now.bits]
      BY <1>1, <3>2 DEF ProgressType
    <3>4. ConsumeFind(now, c) \in ProgressType /\ ConsumeFind(now, c).pc = "turn"
      BY <2>1, <3>1, <3>3 DEF ProgressType
    <3>5. QED BY <1>1, <1>2, <3>4
  <2>3. CASE c.slot \notin Searched(start, now.read)
    <3>1. ConsumeFind(now, c) = [c EXCEPT !.pc = "test", !.start = start, !.found = now.read,
                                          !.count = 0]
      BY <2>3 DEF ConsumeFind
    <3> HIDE DEF start
    <3>2. ConsumeFind(now, c) = [pc |-> "test", slot |-> c.slot, start |-> start,
                                 found |-> now.read, count |-> 0, bits |-> c.bits]
      BY <1>1, <3>1 DEF ProgressType
    <3>3. ConsumeFind(now, c) \in ProgressType /\ ConsumeFind(now, c).pc = "test"
      BY <1>1, <2>1, <3>2 DEF ProgressType
    <3>4. QED BY <1>1, <1>2, <3>3
  <2>4. QED BY <2>2, <2>3
<1>3. CASE c.pc = "turn" /\ Goes(q, [now EXCEPT !.bits = TurnedOver(c)],
                                    [c EXCEPT !.pc = "test", !.bits = {}])
  <2> DEFINE bits == TurnedOver(c)
             to == [now EXCEPT !.bits = bits]
             next == [c EXCEPT !.pc = "test", !.bits = {}]
  <2>1. bits \in SUBSET PoolSlot BY <1>1 DEF TurnedOver, ProgressType
  <2> HIDE DEF bits
  <2>2. to = [window |-> now.window, available |-> now.available, readable |-> now.readable,
              write |-> now.write, read |-> now.read, bits |-> bits]
    BY <1>1 DEF PoolType
  <2>3. to \in PoolType /\ to.write = now.write /\ to.read = now.read
    BY <1>1, <2>1, <2>2 DEF PoolType
  <2>4. next = [pc |-> "test", slot |-> c.slot, start |-> c.start, found |-> c.found,
                count |-> c.count, bits |-> {}]
    BY <1>1, ProgressChanged
  <2>5. next \in ProgressType /\ next.pc = "test" BY <1>1, <2>4 DEF ProgressType
  <2>6. Goes(q, to, next) BY <1>3 DEF bits
  <2> HIDE DEF to, next
  <2>7. QED BY <2>3, <2>5, <2>6
<1>4. CASE c.pc = "test" /\ Goes(q, now, ConsumeTest(now, c))
  <2>1. CASE c.start \in now.bits \/ now.available = 0
    BY <1>1, <1>4, <2>1, NoCallType DEF ConsumeTest
  <2>2. CASE ~(c.start \in now.bits \/ now.available = 0)
    <3>1. ConsumeTest(now, c) = [c EXCEPT !.pc = "count", !.count = now.available]
      BY <2>2 DEF ConsumeTest
    <3>2. ConsumeTest(now, c) = [pc |-> "count", slot |-> c.slot, start |-> c.start,
                                 found |-> c.found, count |-> now.available, bits |-> c.bits]
      BY <1>1, <3>1 DEF ProgressType
    <3>3. now.available \in Nat BY <1>1 DEF PoolType
    <3>4. /\ ConsumeTest(now, c) \in ProgressType /\ ConsumeTest(now, c).pc = "count"
          /\ ConsumeTest(now, c).count # 0
      BY <1>1, <2>2, <3>2, <3>3 DEF ProgressType
    <3>5. QED BY <1>1, <1>4, <3>4
  <2>3. QED BY <2>1, <2>2
<1>5. CASE c.pc = "count" /\ Goes(q, [now EXCEPT !.available = c.count - 1],
                                     [c EXCEPT !.pc = "free", !.count = now.window])
  <2> DEFINE to == [now EXCEPT !.available = c.count - 1]
             next == [c EXCEPT !.pc = "free", !.count = now.window]
  <2>1. c.count - 1 \in Nat BY <1>1, <1>5 DEF CallInv, ProgressType
  <2>2. to = [window |-> now.window, available |-> c.count - 1, readable |-> now.readable,
              write |-> now.write, read |-> now.read, bits |-> now.bits]
    BY <1>1 DEF PoolType
  <2>3. to \in PoolType /\ to.write = now.write /\ to.read = now.read
    BY <1>1, <2>1, <2>2 DEF PoolType
  <2>4. next = [pc |-> "free", slot |-> c.slot, start |-> c.start, found |-> c.found,
                count |-> now.window, bits |-> c.bits]
    BY <1>1, ProgressChanged
  <2>5. now.window \in Nat BY <1>1 DEF PoolType
  <2>6. next \in ProgressType /\ next.pc = "free" BY <1>1, <2>4, <2>5 DEF ProgressType
  <2>7. Goes(q, to, next) BY <1>5
  <2> HIDE DEF to, next
  <2>8. QED BY <2>3, <2>6, <2>7
<1>6. CASE c.pc = "free" /\ Goes(q, [now EXCEPT !.window = c.count + 1],
                                    [c EXCEPT !.pc = "test", !.start = SlotAfter(c.found),
                                              !.count = 0])
  <2> DEFINE start == SlotAfter(c.found)
             to == [now EXCEPT !.window = c.count + 1]
  <2>1. start \in PoolSlot /\ c.count + 1 \in Nat BY <1>1, SlotAfterType DEF ProgressType
  <2> HIDE DEF start
  <2> DEFINE next == [c EXCEPT !.pc = "test", !.start = start, !.count = 0]
  <2>2. to = [window |-> c.count + 1, available |-> now.available, readable |-> now.readable,
              write |-> now.write, read |-> now.read, bits |-> now.bits]
    BY <1>1 DEF PoolType
  <2>3. to \in PoolType /\ to.write = now.write /\ to.read = now.read
    BY <1>1, <2>1, <2>2 DEF PoolType
  <2>4. next = [pc |-> "test", slot |-> c.slot, start |-> start, found |-> c.found,
                count |-> 0, bits |-> c.bits]
    BY <1>1, ProgressRepeated
  <2>5. next \in ProgressType /\ next.pc = "test" BY <1>1, <2>1, <2>4 DEF ProgressType
  <2>6. Goes(q, to, next) BY <1>6 DEF start
  <2> HIDE DEF to, next
  <2>7. QED BY <2>3, <2>5, <2>6
<1>7. QED BY <1>2, <1>3, <1>4, <1>5, <1>6 DEF ConsumeStep

LEMMA ConsumeStepPool ==
  ASSUME PoolInv, NEW q \in Peers, ConsumeStep(q)
  PROVE  PoolInv'
<1>1. CallInv(q) /\ held[q] \in Seq(PoolSlot) /\ ready[q] \in BOOLEAN
  BY DEF PoolInv, PoolTypes
<1>2. PICK to \in PoolType, next \in ProgressType :
        /\ to.write = pool[q].write /\ to.read = pool[q].read
        /\ next.pc # "extract" /\ (next.pc = "count" => next.count # 0)
        /\ Goes(q, to, next)
  BY ConsumeStepFacts
<1>3. /\ pool' = [pool EXCEPT ![q] = to] /\ access' = [access EXCEPT ![q] = next]
      /\ held' = [held EXCEPT ![q] = held[q]] /\ ready' = [ready EXCEPT ![q] = ready[q]]
      /\ UNCHANGED <<used, buffer, inbox>>
  BY <1>2 DEF ConsumeStep, Goes, PoolInv, PoolTypes, userVars, lineVars
<1>4. ready[q] => q \in Deferring BY <1>1 DEF CallInv
<1>5. QED BY <1>1, <1>2, <1>3, <1>4, CallPool

-----------------------------------------------------------------------------
(* Both together *)

IInv == LinkInv /\ PoolInv

LEMMA InitIInv == Init => IInv
<1> SUFFICES ASSUME Init PROVE IInv OBVIOUS
<1>1. LinkInv
  <2>1. 1 \in SeqNumber /\ 0 \in 0..MaxRetry BY DEF SeqNumber
  <2>2. LinkType BY <2>1, NoFrameFacts DEF Init, LinkType, TxType
  <2>3. \A p \in Peers : InOrder(p) /\ InCall(p)
    BY OtherPeer, NoFrameFacts DEF Init, InOrder, InCall, Writing, Unsettled
  <2>4. QED BY <2>2, <2>3 DEF LinkInv
<1>2. PoolInv
  <2>1. 0 \in PoolSlot /\ 0 # NoSlot /\ RxQueueSize \in Nat \ {0}
    BY RxQueueSizeAssumption DEF PoolSlot, NoSlot
  <2>2. /\ PoolOpened \in PoolType /\ CanProduce(PoolOpened)
        /\ PoolOpened.read = 0 /\ PoolOpened.write = 0
    BY <2>1 DEF PoolOpened, PoolType, CanProduce
  <2>3. /\ Produced(PoolOpened) \in PoolType
        /\ Produced(PoolOpened).read = 0 /\ Produced(PoolOpened).write = SlotAfter(0)
    BY <2>2, ProducedFacts
  <2>4. /\ used = [p \in Peers |-> 0] /\ buffer = [p \in Peers |-> "pool"]
        /\ pool = [p \in Peers |-> Produced(PoolOpened)] /\ held = [p \in Peers |-> <<>>]
        /\ inbox = [p \in Peers |-> NoPacket] /\ access = [p \in Peers |-> NoCall]
        /\ ready = [p \in Peers |-> FALSE]
    BY DEF Init
  <2>5. PoolTypes BY <2>1, <2>3, <2>4, NoCallType DEF PoolTypes
  <2>6. \A p \in Peers : SlipBuffer(p) BY <2>1, <2>3, <2>4 DEF SlipBuffer, NextFilled
  <2>7. \A p \in Peers : CallInv(p) BY <2>4, NoCallType DEF CallInv
  <2>8. QED BY <2>5, <2>6, <2>7 DEF PoolInv
<1>3. QED BY <1>1, <1>2 DEF IInv

LEMMA FrameEndIInv ==
  ASSUME IInv, NEW p \in Peers, FrameEnd(p, Other(p))
  PROVE  IInv'
<1> DEFINE q == Other(p)
<1>1. q \in Peers BY OtherPeer
<1>2. LinkInv /\ PoolInv /\ LinkType BY DEF IInv, LinkInv
<1>3. PICK f \in Arrivals(p) :
        \/ Lose(p, q, f) \/ Overflow(p, q, f) \/ AcceptPkt(p, q, f) \/ RepeatAck(p, q, f)
        \/ InvalidPkt(p, q, f) \/ ReceiveAck(p, q, f) \/ ReceiveOther(p, q, f)
  BY DEF FrameEnd
<1> HIDE DEF q
<1>4. CASE Lose(p, q, f)
  BY <1>2, <1>4, SenderOnlyLink, PoolKept DEF Lose, IInv
<1>5. CASE Overflow(p, q, f)
  BY <1>1, <1>2, <1>5, SenderOnlyLink, RegisterPool DEF Overflow, IInv
<1>6. CASE AcceptPkt(p, q, f)
  BY <1>1, <1>2, <1>6, AcceptPktLink, AcceptPktPool, ArrivalFacts DEF IInv, q
<1>7. CASE RepeatAck(p, q, f)
  BY <1>1, <1>2, <1>7, RepeatAckLink, PoolKept DEF RepeatAck, IInv, q
<1>8. CASE InvalidPkt(p, q, f)
  BY <1>1, <1>2, <1>8, SenderOnlyLink, RegisterPool DEF InvalidPkt, IInv
<1>9. CASE ReceiveAck(p, q, f)
  BY <1>1, <1>2, <1>9, ReceiveAckLink, BufferAgainPool DEF ReceiveAck, IInv, q
<1>10. CASE ReceiveOther(p, q, f)
  BY <1>1, <1>2, <1>10, SenderOnlyLink, BufferAgainPool DEF ReceiveOther, BufferAgain, IInv
<1>11. QED BY <1>3, <1>4, <1>5, <1>6, <1>7, <1>8, <1>9, <1>10

LEMMA LineKept == LinkInv /\ UNCHANGED lineVars => LinkInv'
BY DEF LinkInv, LinkType, InOrder, InCall, Writing, lineVars

LEMMA NextIInv == IInv /\ [Next]_vars => IInv'
<1> SUFFICES ASSUME IInv, [Next]_vars PROVE IInv' OBVIOUS
<1>0. LinkInv /\ PoolInv BY DEF IInv
<1>1. ASSUME NEW p \in Peers, NEW m \in PacketsOf[p], PktWrite(p, m) PROVE IInv'
  BY <1>0, <1>1, PktWriteLink, PoolKept DEF IInv, PktWrite
<1>2. ASSUME NEW p \in Peers, PktWriteEnd(p) PROVE IInv'
  BY <1>0, <1>2, PktWriteEndLink, PoolKept DEF IInv, PktWriteEnd, PktWriteState, PktWriteEntry
<1>3. ASSUME NEW p \in Peers, Timeout(p) PROVE IInv'
  BY <1>0, <1>3, TimeoutLink, PoolKept DEF IInv, Timeout
<1>4. ASSUME NEW p \in Peers, FrameEnd(p, Other(p)) PROVE IInv' BY <1>4, FrameEndIInv
<1>5. ASSUME NEW p \in Peers, Extract(p) PROVE IInv'
  BY <1>0, <1>5, ExtractPool, LineKept DEF IInv, Extract
<1>6. ASSUME NEW p \in Peers, ExtractEnd(p) PROVE IInv'
  BY <1>0, <1>6, ExtractEndPool, LineKept DEF IInv, ExtractEnd
<1>7. ASSUME NEW p \in Peers, NEW i \in DOMAIN held[p], Consume(p, i) PROVE IInv'
  BY <1>0, <1>7, ConsumePool, LineKept DEF IInv, Consume
<1>8. ASSUME NEW p \in Peers, ConsumeStep(p) PROVE IInv'
  BY <1>0, <1>8, ConsumeStepPool, LineKept DEF IInv, ConsumeStep
<1>9. ASSUME UNCHANGED vars PROVE IInv'
  BY <1>0, <1>9, PoolKept, LineKept DEF IInv, vars, lineVars
<1>10. QED BY <1>1, <1>2, <1>3, <1>4, <1>5, <1>6, <1>7, <1>8, <1>9 DEF Next

\* The invariant of the link and the pool, for every value of the constants.
THEOREM Inductive == Spec => []IInv
BY InitIInv, NextIInv, PTL DEF Spec

\* Every variable keeps its type: the retry counter stays within its bound
\* (hci_transport.c), and no counter of the pool goes below zero
\* (hci_mem_pool.c), however the calls of the thread are interrupted.
THEOREM TypeCorrect == Spec => []TypeOK
<1>1. IInv => TypeOK BY DEF IInv, LinkInv, LinkType, PoolInv, PoolTypes, TypeOK
<1>2. QED BY <1>1, Inductive, PTL

-----------------------------------------------------------------------------
(* The packet that waits *)

\* A caller at the level of the UART interrupt leaves no call half done.
WaitInv == PendingHasSlip /\ \A p \in Peers \ Preemptible : writing[p] = "no"

LEMMA WaitInvStep == IInv /\ WaitInv /\ [Next]_vars => WaitInv'
<1> SUFFICES ASSUME IInv, WaitInv, [Next]_vars, NEW r \in Peers \ Preemptible
             PROVE  (tx[r].state = "PENDING" => slip[r] # NoFrame)' /\ writing'[r] = "no"
  BY DEF WaitInv, PendingHasSlip
<1>1. LinkType /\ writing[r] = "no" /\ (tx[r].state = "PENDING" => slip[r] # NoFrame)
  BY DEF IInv, LinkInv, WaitInv, PendingHasSlip
<1>2. \A t \in TxType : PktFrame(t) # NoFrame
  BY PktFrameFacts, NoFrameFacts
<1>3. \A n \in SeqNumber : AckFrame(n) # NoFrame
  BY AckFrameFacts, NoFrameFacts
<1>4. ASSUME NEW p \in Peers, NEW m \in PacketsOf[p], PktWrite(p, m)
      PROVE  (tx[r].state = "PENDING" => slip[r] # NoFrame)' /\ writing'[r] = "no"
  <2>1. CASE r = p
    <3> DEFINE t == [tx[p] EXCEPT !.packet = m]
               answer == IF slip[p] = NoFrame THEN "SUCCESS" ELSE "NO_MEM"
    <3>1. t \in TxType BY <1>1, <1>4 DEF LinkType, TxType, Packet
    <3>2. /\ tx' = [tx EXCEPT ![p] = StateEntered(t, answer)] /\ writing' = writing
          /\ slip' = [slip EXCEPT ![p] = SlipWritten(@, PktFrame(t))]
      BY <1>4, <2>1 DEF PktWrite
    <3>3. tx'[p] = StateEntered(t, answer) /\ slip'[p] = SlipWritten(slip[p], PktFrame(t))
      BY <1>1, <3>2 DEF LinkType
    <3> HIDE DEF t
    <3>4. CASE slip[p] = NoFrame
      BY <1>1, <2>1, <3>1, <3>2, <3>3, <3>4, StateEnteredFacts
    <3>5. CASE slip[p] # NoFrame
      BY <1>1, <2>1, <3>2, <3>3, <3>5 DEF SlipWritten
    <3>6. QED BY <3>4, <3>5
  <2>2. CASE r # p
    <3>1. tx'[r] = tx[r] /\ slip'[r] = slip[r] /\ writing'[r] = writing[r]
      BY <1>1, <1>4, <2>2 DEF PktWrite, LinkType
    <3>2. QED BY <1>1, <3>1
  <2>3. QED BY <2>1, <2>2
<1>5. ASSUME NEW p \in Peers, PktWriteEnd(p)
      PROVE  (tx[r].state = "PENDING" => slip[r] # NoFrame)' /\ writing'[r] = "no"
  <2>1. writing[p] # "no" BY <1>5 DEF PktWriteEnd, PktWriteState, PktWriteEntry, Unsettled
  <2>2. r # p BY <1>1, <2>1
  <2>3. tx'[r] = tx[r] /\ writing'[r] = writing[r] /\ slip' = slip
    BY <1>1, <1>5, <2>2 DEF PktWriteEnd, PktWriteState, PktWriteEntry, LinkType
  <2>4. QED BY <1>1, <2>3
<1>6. ASSUME NEW p \in Peers, Timeout(p)
      PROVE  (tx[r].state = "PENDING" => slip[r] # NoFrame)' /\ writing'[r] = "no"
  <2>1. /\ tx'[r].state = "PENDING" => tx[r].state = "PENDING"
        /\ slip'[r] = slip[r] \/ (slip[r] = NoFrame /\ tx[r].state # "PENDING")
    BY <1>1, <1>6 DEF Timeout, LinkType, TxType, SlipWritten
  <2>2. writing' = writing BY <1>6 DEF Timeout
  <2>3. QED BY <1>1, <2>1, <2>2
<1>7. ASSUME NEW p \in Peers, FrameEnd(p, Other(p))
      PROVE  (tx[r].state = "PENDING" => slip[r] # NoFrame)' /\ writing'[r] = "no"
  <2>1. PICK q \in Peers : q = Other(p) /\ q # p /\ \A s \in Peers : s = p \/ s = q BY OtherPeer
  <2>2. writing' = writing
    BY <1>7 DEF FrameEnd, Lose, Overflow, AcceptPkt, RepeatAck, InvalidPkt, ReceiveAck,
       ReceiveOther, SenderOnly
  <2>3. PICK f \in Arrivals(p) :
          \/ Lose(p, q, f) \/ Overflow(p, q, f) \/ AcceptPkt(p, q, f) \/ RepeatAck(p, q, f)
          \/ InvalidPkt(p, q, f) \/ ReceiveAck(p, q, f) \/ ReceiveOther(p, q, f)
    BY <1>7, <2>1 DEF FrameEnd
  <2>4. /\ tx'[p] = TxDone(p).tx
        /\ tx'[q] = tx[q] \/ tx'[q] = AckTaken(q, f.seq)
        /\ \E n \in SeqNumber : slip'[q] \in {slip[q], SlipWritten(slip[q], AckFrame(n))}
    <3>1. expected[q] \in SeqNumber /\ SeqAfter(expected[q]) \in SeqNumber
      BY <1>1, SeqAfterDiffers DEF LinkType
    <3>2. QED
      BY <1>1, <2>1, <2>3, <3>1 DEF Lose, Overflow, AcceptPkt, RepeatAck, InvalidPkt, ReceiveAck,
         ReceiveOther, SenderOnly, LinkType
  <2>5. tx'[p].state # "PENDING" BY <1>1, <2>4, TxDoneFacts
  <2>6. tx'[q].state = "PENDING" => tx[q].state = "PENDING"
    BY <1>1, <2>4 DEF AckTaken, LinkType, TxType
  <2>7. slip[q] # NoFrame => slip'[q] = slip[q] BY <2>4 DEF SlipWritten
  <2>8. QED BY <1>1, <2>1, <2>2, <2>5, <2>6, <2>7
<1>8. ASSUME UNCHANGED lineVars
      PROVE  (tx[r].state = "PENDING" => slip[r] # NoFrame)' /\ writing'[r] = "no"
  BY <1>1, <1>8 DEF lineVars
<1>9. QED BY <1>4, <1>5, <1>6, <1>7, <1>8
      DEF Next, Extract, ExtractEnd, Consume, ConsumeStep, vars, lineVars

\* A packet that waits for SLIP is sent at the end of a frame that is on its
\* way (tx_sm_event_handle), for callers the UART interrupt cannot preempt.
THEOREM PendingIsServed == Spec => []PendingHasSlip
<1>1. Init => WaitInv BY DEF Init, WaitInv, PendingHasSlip
<1>2. WaitInv => PendingHasSlip BY DEF WaitInv
<1>3. QED BY <1>1, <1>2, Inductive, WaitInvStep, PTL DEF Spec

-----------------------------------------------------------------------------
(* The transport implements the channel *)

CopyData(r) == IF slip[r].type = "pkt" /\ slip[r].seq = tx[r].seq THEN {slip[r].data} ELSE {}
InFlight(r) == IF expected[Other(r)] # tx[r].seq THEN {}
               ELSE CopyData(r) \cup (IF Writing(r) THEN {tx[r].packet} ELSE {})

\* The abstract variables, direction by direction.
Mapped == /\ Pending \in [Peers -> {Pending[r] : r \in Peers}]
          /\ Underway \in [Peers -> {Underway[r] : r \in Peers}]
          /\ Taken \in [Peers -> BOOLEAN]
          /\ \A r \in Peers : /\ Pending[r] = IF Writing(r) THEN tx[r].packet ELSE NoPacket
                              /\ Underway[r] = InFlight(r)
                              /\ Taken[r] <=> expected[Other(r)] # tx[r].seq

LEMMA MappedNow == Mapped
<1>1. \A r \in Peers : {f.data : f \in Copies(r)} = CopyData(r)
  BY DEF Copies, CopyData
<1>2. \A r \in Peers : Underway[r] = InFlight(r)
  BY <1>1 DEF Underway, InFlight, HasTaken
<1>3. QED BY <1>2 DEF Mapped, Pending, Underway, Taken, HasTaken

LEMMA MappedNext == Mapped'
BY MappedNow, PTL

\* Direction r is as it was.
Same(r) == Pending'[r] = Pending[r] /\ Underway'[r] = Underway[r] /\ (Taken'[r] <=> Taken[r])

LEMMA Untouched ==
  ASSUME NEW r \in Peers, tx'[r] = tx[r], writing'[r] = writing[r],
         slip'[r] = slip[r] \/ (slip[r].type # "pkt" /\ slip'[r].type # "pkt"),
         expected'[Other(r)] = expected[Other(r)]
  PROVE  Same(r)
<1>1. CopyData(r)' = CopyData(r) BY DEF CopyData
<1>2. Writing(r)' <=> Writing(r) BY DEF Writing
<1>3. InFlight(r)' = InFlight(r) BY <1>1, <1>2 DEF InFlight
<1>4. QED BY <1>2, <1>3, MappedNow, MappedNext DEF Mapped, Same

\* The same while a write goes on, whichever copies of its packet come and go.
LEMMA GoesOn ==
  ASSUME NEW r \in Peers, Writing(r), Writing(r)',
         tx'[r].seq = tx[r].seq, tx'[r].packet = tx[r].packet,
         expected'[Other(r)] = expected[Other(r)],
         CopyData(r)' \cup {tx[r].packet} = CopyData(r) \cup {tx[r].packet}
  PROVE  Same(r)
<1>1. InFlight(r) = IF expected[Other(r)] # tx[r].seq THEN {}
                    ELSE CopyData(r) \cup {tx[r].packet}
  BY DEF InFlight
<1>2. InFlight(r)' = IF expected'[Other(r)] # tx'[r].seq THEN {}
                     ELSE CopyData(r)' \cup {tx'[r].packet}
  BY DEF InFlight
<1>3. InFlight(r)' = InFlight(r) BY <1>1, <1>2
<1>4. QED BY <1>3, MappedNow, MappedNext DEF Mapped, Same

\* A step that leaves every direction and the inboxes as they were stutters.
LEMMA Stutters ==
  ASSUME \A r \in Peers : Same(r), UNCHANGED inbox
  PROVE  UNCHANGED <<Pending, Underway, Taken, inbox>>
BY MappedNow, MappedNext DEF Mapped, Same

\* A frame of p that brings q nothing new: at most a copy is lost.
LEMMA LosesCopy ==
  ASSUME LinkInv, NEW p \in Peers, NEW q \in Peers, q = Other(p), Same(q), UNCHANGED inbox,
         tx'[p] = TxDone(p).tx, slip'[p] = TxDone(p).frame, writing'[p] = writing[p],
         expected'[q] = expected[q]
  PROVE  Channel!Lose(p)
<1>1. LinkType /\ (\A r \in Peers : r = p \/ r = q) /\ q # p BY OtherPeer DEF LinkInv
<1>2. Pending'[p] = Pending[p] /\ (Taken'[p] <=> Taken[p])
  BY <1>1, TxDoneFacts, MappedNow, MappedNext DEF Mapped, Writing
<1>3. Underway'[p] \subseteq Underway[p] /\ Underway[p] \cap {Pending[p]} \subseteq Underway'[p]
  <2>1. InFlight(p)' = IF expected[q] # tx[p].seq THEN {}
                       ELSE IF Writing(p) THEN {tx[p].packet} ELSE {}
    BY <1>1, TxDoneFacts, SMTT(30) DEF InFlight, CopyData, Writing
  <2>2. Underway'[p] = InFlight(p)' /\ Underway[p] = InFlight(p)
        /\ Pending[p] = IF Writing(p) THEN tx[p].packet ELSE NoPacket
    BY MappedNow, MappedNext DEF Mapped
  <2>3. CASE expected[q] # tx[p].seq BY <2>1, <2>2, <2>3 DEF InFlight
  <2>4. CASE expected[q] = tx[p].seq /\ Writing(p)
    <3>1. Underway'[p] = {tx[p].packet} /\ Pending[p] = tx[p].packet BY <2>1, <2>2, <2>4
    <3>2. Underway[p] = CopyData(p) \cup {tx[p].packet} BY <2>2, <2>4 DEF InFlight
    <3>3. QED BY <3>1, <3>2
  <2>5. CASE expected[q] = tx[p].seq /\ ~Writing(p)
    <3>1. Underway'[p] = {} /\ Pending[p] = NoPacket BY <2>1, <2>2, <2>5
    <3>2. Underway[p] = CopyData(p) BY <2>2, <2>5 DEF InFlight
    <3>3. NoPacket \notin CopyData(p) BY DEF CopyData, LinkInv, InCall
    <3>4. QED BY <3>1, <3>2, <3>3
  <2>6. QED BY <2>3, <2>4, <2>5
<1>4. Underway' = [Underway EXCEPT ![p] = Underway'[p]]
  BY <1>1, MappedNow, MappedNext DEF Mapped, Same
<1>5. UNCHANGED <<Pending, Taken, inbox>>
  BY <1>1, <1>2, MappedNow, MappedNext DEF Mapped, Same
<1>6. QED BY <1>3, <1>4, <1>5 DEF Channel!Lose

LEMMA SenderOnlyLoses ==
  ASSUME LinkInv, NEW p \in Peers, SenderOnly(p), UNCHANGED <<expected, inbox>>
  PROVE  Channel!Lose(p)
<1>1. PICK q \in Peers : q = Other(p) /\ q # p BY OtherPeer
<1>2. tx'[p] = TxDone(p).tx /\ tx'[q] = tx[q] /\ slip'[p] = TxDone(p).frame /\ slip'[q] = slip[q]
      /\ writing' = writing
  BY <1>1 DEF SenderOnly, LinkInv, LinkType
<1>3. Same(q) BY <1>1, <1>2, Untouched
<1>4. QED BY <1>1, <1>2, <1>3, LosesCopy

LEMMA WriteRefines ==
  ASSUME LinkInv, NEW p \in Peers, NEW m \in PacketsOf[p], PktWrite(p, m)
  PROVE  m \in Packet /\ Channel!Write(p, m)
<1>1. PICK q \in Peers : q = Other(p) /\ q # p /\ \A r \in Peers : r = p \/ r = q BY OtherPeer
<1>2. LinkType BY DEF LinkInv
<1> DEFINE t == [tx[p] EXCEPT !.packet = m]
           answer == IF slip[p] = NoFrame THEN "SUCCESS" ELSE "NO_MEM"
<1>3. m \in Packet BY DEF Packet
<1>4. t \in TxType /\ t.seq = tx[p].seq /\ t.packet = m /\ ~Writing(p)
  BY <1>2, <1>3 DEF LinkType, TxType, PktWrite, MayCall, Unsettled, Writing
<1> HIDE DEF t
<1>5. /\ slip' = [slip EXCEPT ![p] = SlipWritten(@, PktFrame(t))]
      /\ tx' \in {[tx EXCEPT ![p] = t], [tx EXCEPT ![p] = StateEntered(t, answer)]}
      /\ UNCHANGED <<expected, inbox>>
      /\ tx' = [tx EXCEPT ![p] = t] => writing' = [writing EXCEPT ![p] = answer]
      /\ writing' = writing \/ writing' = [writing EXCEPT ![p] = answer]
  <2>1. CASE p \in Preemptible BY <2>1 DEF PktWrite, callVars, userVars, t
  <2>2. CASE p \notin Preemptible
    <3>1. tx' = [tx EXCEPT ![p] = StateEntered(t, answer)] /\ writing' = writing
      BY <2>2 DEF PktWrite, t
    <3>2. t.state = "IDLE" BY <1>2 DEF PktWrite, LinkType, TxType, t
    <3>3. tx' # [tx EXCEPT ![p] = t]
      BY <1>2, <1>4, <3>1, <3>2, StateEnteredFacts DEF LinkType
    <3>4. QED BY <3>1, <3>3 DEF PktWrite, callVars, userVars, t
  <2>3. QED BY <2>1, <2>2
<1>6. /\ tx'[p].seq = tx[p].seq /\ tx'[p].packet = m /\ tx'[q] = tx[q]
      /\ Writing(p)' /\ writing'[q] = writing[q]
      /\ slip'[p] = SlipWritten(slip[p], PktFrame(t)) /\ slip'[q] = slip[q]
  BY <1>1, <1>2, <1>4, <1>5, StateEnteredFacts DEF LinkType, Writing, Unsettled
<1>7. Same(q) BY <1>1, <1>5, <1>6, Untouched
<1>8. Pending[p] = NoPacket /\ Pending'[p] = m /\ (Taken'[p] <=> Taken[p])
  BY <1>4, <1>5, <1>6, MappedNow, MappedNext DEF Mapped
<1>9. Underway'[p] = IF Taken[p] THEN {} ELSE Underway[p] \cup {m}
  <2>1. CopyData(p)' \cup {m} = CopyData(p) \cup {m}
    BY <1>4, <1>6, PktFrameFacts, NoFrameFacts DEF CopyData, SlipWritten
  <2>2. /\ Taken[p] <=> expected[Other(p)] # tx[p].seq
        /\ Underway[p] = InFlight(p) /\ Underway'[p] = InFlight(p)'
    BY MappedNow, MappedNext DEF Mapped
  <2>3. expected' = expected /\ tx'[p].seq = tx[p].seq BY <1>5, <1>6
  <2>4. ~Writing(p) /\ Writing(p)' /\ tx'[p].packet = m BY <1>4, <1>6
  <2>5. InFlight(p) = IF expected[Other(p)] # tx[p].seq THEN {} ELSE CopyData(p)
    BY <2>4 DEF InFlight
  <2>6. InFlight(p)' = IF expected[Other(p)] # tx[p].seq THEN {} ELSE CopyData(p)' \cup {m}
    BY <2>3, <2>4 DEF InFlight
  <2>7. QED BY <2>1, <2>2, <2>5, <2>6
<1>10. /\ Pending' = [Pending EXCEPT ![p] = m]
       /\ Underway' = [Underway EXCEPT ![p] = IF Taken[p] THEN {} ELSE @ \cup {m}]
       /\ Taken' = Taken
  BY <1>1, <1>7, <1>8, <1>9, MappedNow, MappedNext DEF Mapped, Same
<1>11. Channel!Write(p, m) BY <1>5, <1>8, <1>10 DEF Channel!Write
<1>12. QED BY <1>3, <1>11

LEMMA WriteEndRefines ==
  ASSUME LinkInv, NEW p \in Peers, PktWriteEnd(p)
  PROVE  UNCHANGED <<Pending, Underway, Taken, inbox>>
<1>1. PICK q \in Peers : q = Other(p) /\ q # p /\ \A r \in Peers : r = p \/ r = q BY OtherPeer
<1>2. LinkType /\ tx[p] \in TxType BY DEF LinkInv, LinkType
<1>3. tx'[q] = tx[q] /\ writing'[q] = writing[q] /\ UNCHANGED <<slip, expected, inbox>>
  BY <1>1, <1>2 DEF LinkType, PktWriteEnd, PktWriteState, PktWriteEntry, callVars, userVars
<1>4. Same(q) BY <1>1, <1>3, Untouched
<1>5. /\ tx'[p].seq = tx[p].seq /\ tx'[p].packet = tx[p].packet
      /\ Writing(p)' <=> Writing(p)
  <2>1. CASE PktWriteState(p)
    <3>1. tx'[p] = NextState(tx[p], writing[p]) /\ writing[p] \in Unsettled
      BY <1>2, <2>1 DEF PktWriteState, LinkType
    <3>2. QED BY <1>2, <3>1, NextStateFacts DEF Writing
  <2>2. CASE PktWriteEntry(p)
    <3>1. tx'[p] = Entered(tx[p]) /\ writing[p] = "entry" /\ writing'[p] = "no"
      BY <1>2, <2>2 DEF PktWriteEntry, LinkType
    <3>2. QED BY <1>2, <3>1, EnteredFacts DEF Writing, Unsettled
  <2>3. QED BY <2>1, <2>2 DEF PktWriteEnd
<1>6. CopyData(p)' = CopyData(p) BY <1>3, <1>5 DEF CopyData
<1>7. InFlight(p)' = InFlight(p) BY <1>3, <1>5, <1>6 DEF InFlight
<1>8. Same(p) BY <1>3, <1>5, <1>7, MappedNow, MappedNext DEF Mapped, Same
<1>9. QED BY <1>1, <1>3, <1>4, <1>8, Stutters

LEMMA TimeoutRefines ==
  ASSUME LinkInv, NEW p \in Peers, Timeout(p)
  PROVE  UNCHANGED <<Pending, Underway, Taken, inbox>> \/ Channel!Fail(p)
<1>1. PICK q \in Peers : q = Other(p) /\ q # p /\ \A r \in Peers : r = p \/ r = q BY OtherPeer
<1>2. /\ LinkType /\ tx[p] \in TxType /\ tx[p].packet \in Packet /\ writing[p] = "no" /\ Writing(p)
      /\ tx[p].packet # NoPacket
  BY DEF LinkInv, LinkType, InCall, Timeout, Writing
<1>3. UNCHANGED <<writing, expected, inbox>> BY DEF Timeout, callVars, userVars
<1>4. CASE RetriesLeft(p)
  <2>1. /\ tx' = [tx EXCEPT ![p].retries = @ + 1]
        /\ slip' = [slip EXCEPT ![p] = SlipWritten(@, PktFrame(tx[p]))]
    BY <1>4 DEF Timeout
  <2>2. /\ tx'[p].state = tx[p].state /\ tx'[p].seq = tx[p].seq /\ tx'[p].packet = tx[p].packet
        /\ tx'[q] = tx[q] /\ slip'[p] = SlipWritten(slip[p], PktFrame(tx[p])) /\ slip'[q] = slip[q]
    BY <1>1, <1>2, <2>1 DEF LinkType, TxType
  <2>3. Same(q) BY <1>1, <1>3, <2>2, Untouched
  <2>4. Writing(p)' BY <1>2, <1>3, <2>2 DEF Writing
  <2>5. CopyData(p)' \cup {tx[p].packet} = CopyData(p) \cup {tx[p].packet}
    BY <1>2, <2>2, PktFrameFacts, NoFrameFacts DEF CopyData, SlipWritten
  <2>6. Same(p) BY <1>2, <1>3, <2>2, <2>4, <2>5, GoesOn
  <2>7. QED BY <1>1, <1>3, <2>3, <2>6, Stutters
<1>5. CASE ~RetriesLeft(p)
  <2>1. tx' = [tx EXCEPT ![p].state = "IDLE", ![p].seq = tx[p].seq] /\ slip' = slip
    BY <1>5 DEF Timeout, SeqAfterFailure
  <2>2. tx'[p].state = "IDLE" /\ tx'[p].seq = tx[p].seq /\ tx'[q] = tx[q]
    BY <1>1, <1>2, <2>1 DEF LinkType, TxType
  <2>3. Same(q) BY <1>1, <1>3, <2>1, <2>2, Untouched
  <2>4. ~Writing(p)' BY <1>2, <1>3, <2>2 DEF Writing, Unsettled
  <2>5. /\ Pending[p] # NoPacket /\ Pending'[p] = NoPacket /\ (Taken'[p] <=> Taken[p])
        /\ Underway'[p] \in SUBSET Underway[p]
    <3>1. Pending[p] # NoPacket /\ Pending'[p] = NoPacket
      BY <1>2, <2>4, MappedNow, MappedNext DEF Mapped
    <3>2. /\ Taken[p] <=> expected[Other(p)] # tx[p].seq
          /\ Taken'[p] <=> expected'[Other(p)] # tx'[p].seq
          /\ Underway[p] = InFlight(p) /\ Underway'[p] = InFlight(p)'
      BY MappedNow, MappedNext DEF Mapped
    <3>3. expected' = expected /\ tx'[p].seq = tx[p].seq /\ slip' = slip BY <1>3, <2>1, <2>2
    <3>4. CopyData(p)' = CopyData(p) BY <3>3 DEF CopyData
    <3>5. InFlight(p)' = IF expected[Other(p)] # tx[p].seq THEN {} ELSE CopyData(p)
      BY <2>4, <3>3, <3>4 DEF InFlight
    <3>6. CopyData(p) \subseteq InFlight(p) \/ expected[Other(p)] # tx[p].seq BY DEF InFlight
    <3>7. QED BY <3>1, <3>2, <3>3, <3>5, <3>6
  <2>6. /\ Pending' = [Pending EXCEPT ![p] = NoPacket] /\ Taken' = Taken
        /\ Underway' = [Underway EXCEPT ![p] = Underway'[p]]
    BY <1>1, <2>3, <2>5, MappedNow, MappedNext DEF Mapped, Same
  <2>7. QED BY <1>3, <2>5, <2>6 DEF Channel!Fail
<1>6. QED BY <1>4, <1>5

LEMMA AcceptRefines ==
  ASSUME LinkInv, PoolInv, NEW p \in Peers, NEW q \in Peers, q = Other(p), NEW f \in Arrivals(p),
         AcceptPkt(p, q, f)
  PROVE  f.data \in Packet /\ Channel!Hand(p, q, f.data)
<1>1. q # p /\ p = Other(q) /\ \A r \in Peers : r = p \/ r = q BY OtherPeer
<1>2. LinkType /\ tx[p].seq \in SeqNumber BY DEF LinkInv, LinkType, TxType
<1>3. f = slip[p] /\ f.seq = tx[p].seq /\ expected[q] = tx[p].seq /\ f.type = "pkt"
      /\ f.data \in Packet \cup {NoPacket}
  <2>1. f.type = "pkt" BY DEF AcceptPkt
  <2>2. f.data \in Packet \cup {NoPacket} BY <1>2, ArrivalFacts
  <2>3. QED BY <2>1, <2>2, AcceptPktLink
<1>4. inbox' = [inbox EXCEPT ![q] = f.data] BY <1>3, AcceptPktPool
<1> DEFINE n == SeqAfter(tx[p].seq)
<1>5. n \in SeqNumber /\ n # tx[p].seq BY <1>2, SeqAfterDiffers
<1>6. /\ tx'[p] = TxDone(p).tx /\ tx'[q] = tx[q] /\ writing' = writing
      /\ expected'[q] = n /\ expected'[p] = expected[p]
      /\ slip'[q] \in {slip[q], AckFrame(n)} /\ (slip'[q] # slip[q] => slip[q] = NoFrame)
  BY <1>1, <1>2, <1>3 DEF AcceptPkt, LinkType, SlipWritten
<1> HIDE DEF n
<1>7. Same(q) BY <1>1, <1>5, <1>6, Untouched, AckFrameFacts, NoFrameFacts
<1>8. /\ Pending'[p] = Pending[p] /\ ~Taken[p] /\ Taken'[p]
      /\ f.data \in Underway[p] /\ Underway'[p] = {}
  BY <1>1, <1>2, <1>3, <1>5, <1>6, TxDoneFacts, MappedNow, MappedNext
  DEF Mapped, InFlight, CopyData, Writing
<1>9. /\ Pending' = Pending /\ Taken' = [Taken EXCEPT ![p] = TRUE]
      /\ Underway' = [Underway EXCEPT ![p] = {}]
  BY <1>1, <1>7, <1>8, MappedNow, MappedNext DEF Mapped, Same
<1>10. Channel!Hand(p, q, f.data) BY <1>4, <1>8, <1>9 DEF Channel!Hand
<1>11. f.data \in Packet BY <1>3 DEF LinkInv, InCall
<1>12. QED BY <1>10, <1>11

LEMMA ReceiveAckRefines ==
  ASSUME LinkInv, NEW p \in Peers, NEW q \in Peers, q = Other(p), NEW f \in Arrivals(p),
         ReceiveAck(p, q, f)
  PROVE  UNCHANGED <<Pending, Underway, Taken, inbox>> \/ Channel!Succeed(q)
<1>1. q # p /\ p = Other(q) /\ \A r \in Peers : r = p \/ r = q BY OtherPeer
<1>2. LinkType /\ InCall(q) /\ InOrder(q) BY DEF LinkInv
<1>3. /\ slip[p].type = "ack"
      /\ \/ tx'[q] = tx[q]
         \/ /\ tx[q].state = "ACTIVE" /\ expected[p] = SeqAfter(tx[q].seq)
            /\ tx'[q] = [tx[q] EXCEPT !.state = "IDLE", !.seq = expected[p]]
  BY ReceiveAckLink
<1>4. /\ tx'[p] = TxDone(p).tx /\ slip'[p] = TxDone(p).frame /\ slip'[q] = slip[q]
      /\ UNCHANGED <<writing, expected, inbox>>
  BY <1>1, <1>2 DEF ReceiveAck, BufferAgain, userVars, LinkType
<1>5. Same(p)
  <2>1. CASE TxDone(p).frame.type = "pkt"
    <3>1. tx[p].state = "PENDING" /\ slip'[p].data = tx[p].packet /\ slip'[p].seq = tx[p].seq
      BY <1>2, <1>4, <2>1, TxDoneFacts
    <3>2. tx'[p].state = "ACTIVE" /\ tx'[p].seq = tx[p].seq /\ tx'[p].packet = tx[p].packet
      BY <1>2, <1>4, <3>1, TxDoneFacts
    <3>3. Writing(p) /\ Writing(p)' BY <3>1, <3>2 DEF Writing
    <3>4. CopyData(p) = {} /\ CopyData(p)' = {tx[p].packet}
      BY <1>3, <1>4, <2>1, <3>1, <3>2 DEF CopyData
    <3>5. QED BY <1>4, <3>2, <3>3, <3>4, GoesOn
  <2>2. CASE TxDone(p).frame.type # "pkt"
    <3>1. tx'[p] = tx[p] BY <1>4, <2>2, PktFrameFacts, <1>2 DEF TxDone, LinkType
    <3>2. QED BY <1>3, <1>4, <2>2, <3>1, Untouched
  <2>3. QED BY <2>1, <2>2
<1>6. CASE tx'[q] = tx[q]
  <2>1. Same(q) BY <1>1, <1>4, <1>6, Untouched
  <2>2. QED BY <1>1, <1>4, <1>5, <2>1, Stutters
<1>7. CASE /\ tx[q].state = "ACTIVE" /\ expected[p] = SeqAfter(tx[q].seq)
           /\ tx'[q] = [tx[q] EXCEPT !.state = "IDLE", !.seq = expected[p]]
  <2>1. /\ tx'[q].state = "IDLE" /\ tx'[q].seq = expected[p] /\ tx[q].seq \in SeqNumber
        /\ expected[p] # tx[q].seq
    BY <1>2, <1>7, SeqAfterDiffers DEF LinkType, TxType
  <2>2. Writing(q) /\ tx[q].packet # NoPacket /\ ~Writing(q)'
    BY <1>2, <1>4, <1>7, <2>1 DEF Writing, InCall
  <2>3. slip[q].type = "pkt" => slip[q].seq = tx[q].seq
    BY <1>1, <1>2, <2>1 DEF InOrder
  <2>4. /\ Pending[q] # NoPacket /\ Pending'[q] = NoPacket /\ Taken[q] /\ ~Taken'[q]
        /\ Underway[q] = {} /\ Underway'[q] = {}
    BY <1>1, <1>4, <2>1, <2>2, <2>3, MappedNow, MappedNext DEF Mapped, InFlight, CopyData
  <2>5. /\ Pending' = [Pending EXCEPT ![q] = NoPacket]
        /\ Taken' = [Taken EXCEPT ![q] = FALSE] /\ Underway' = Underway
    BY <1>1, <1>5, <2>4, MappedNow, MappedNext DEF Mapped, Same
  <2>6. QED BY <1>4, <2>4, <2>5 DEF Channel!Succeed
<1>8. QED BY <1>3, <1>6, <1>7

LEMMA FrameEndRefines ==
  ASSUME IInv, NEW p \in Peers, NEW q \in Peers, q = Other(p), FrameEnd(p, q)
  PROVE  \/ /\ NothingTaken
            /\ \/ UNCHANGED <<Pending, Underway, Taken, inbox>>
               \/ Channel!Lose(p)
               \/ Channel!Succeed(q)
         \/ \E f \in Arrivals(p) : /\ AcceptPkt(p, q, f)
                                  /\ f.data \in Packet /\ Channel!Hand(p, q, f.data)
<1>1. q # p BY OtherPeer
<1>2. LinkInv /\ PoolInv /\ LinkType BY DEF IInv, LinkInv
<1>3. PICK f \in Arrivals(p) :
        \/ Lose(p, q, f) \/ Overflow(p, q, f) \/ AcceptPkt(p, q, f) \/ RepeatAck(p, q, f)
        \/ InvalidPkt(p, q, f) \/ ReceiveAck(p, q, f) \/ ReceiveOther(p, q, f)
  BY <1>1 DEF FrameEnd
<1>4. CASE Lose(p, q, f) \/ Overflow(p, q, f) \/ InvalidPkt(p, q, f) \/ ReceiveOther(p, q, f)
  <2>1. SenderOnly(p) /\ UNCHANGED <<expected, inbox>>
    BY <1>4 DEF Lose, Overflow, InvalidPkt, ReceiveOther, BufferAgain, callVars, userVars
  <2>2. Channel!Lose(p) BY <1>2, <2>1, SenderOnlyLoses
  <2>3. NothingTaken
    BY <1>2, <1>4, PoolUntouched, BufferAgainTakesNothing
    DEF Lose, Overflow, InvalidPkt, ReceiveOther
  <2>4. QED BY <2>2, <2>3
<1>5. CASE AcceptPkt(p, q, f) BY <1>2, <1>5, AcceptRefines
<1>6. CASE RepeatAck(p, q, f)
  <2>1. /\ tx'[p] = TxDone(p).tx /\ tx'[q] = tx[q] /\ slip'[p] = TxDone(p).frame
        /\ slip'[q] = SlipWritten(slip[q], AckFrame(expected[q]))
        /\ UNCHANGED <<writing, expected, inbox>> /\ expected[q] \in SeqNumber
    BY <1>1, <1>2, <1>6 DEF RepeatAck, LinkType, callVars, userVars
  <2>2. p = Other(q) BY OtherPeer
  <2>3. Same(q)
    BY <2>1, <2>2, Untouched, AckFrameFacts, NoFrameFacts DEF SlipWritten
  <2>4. Channel!Lose(p) BY <1>2, <2>1, <2>3, LosesCopy
  <2>5. NothingTaken BY <1>6, PoolUntouched DEF RepeatAck
  <2>6. QED BY <2>4, <2>5
<1>7. CASE ReceiveAck(p, q, f)
  <2>1. UNCHANGED <<Pending, Underway, Taken, inbox>> \/ Channel!Succeed(q)
    BY <1>2, <1>7, ReceiveAckRefines
  <2>2. NothingTaken BY <1>2, <1>7, BufferAgainTakesNothing DEF ReceiveAck
  <2>3. QED BY <2>1, <2>2
<1>8. QED BY <1>3, <1>4, <1>5, <1>6, <1>7

LEMMA StepRefines == IInv /\ [Next]_vars => [Channel!Next]_(Channel!vars)
<1> SUFFICES ASSUME IInv, [Next]_vars
             PROVE  UNCHANGED <<Pending, Underway, Taken, inbox>> \/ Channel!Next
  BY DEF Channel!vars
<1>1. LinkInv BY DEF IInv
<1>2. ASSUME NEW p \in Peers, NEW m \in PacketsOf[p], PktWrite(p, m) PROVE Channel!Next
  BY <1>1, <1>2, WriteRefines DEF Channel!Next
<1>3. ASSUME NEW p \in Peers, PktWriteEnd(p) PROVE UNCHANGED <<Pending, Underway, Taken, inbox>>
  BY <1>1, <1>3, WriteEndRefines
<1>4. ASSUME NEW p \in Peers, Timeout(p)
      PROVE  UNCHANGED <<Pending, Underway, Taken, inbox>> \/ Channel!Next
  BY <1>1, <1>4, TimeoutRefines DEF Channel!Next
<1>5. ASSUME NEW p \in Peers, FrameEnd(p, Other(p))
      PROVE  UNCHANGED <<Pending, Underway, Taken, inbox>> \/ Channel!Next
  <2>1. PICK q \in Peers : q = Other(p) /\ q # p BY OtherPeer
  <2>2. CASE Channel!Lose(p) \/ Channel!Succeed(q) BY <2>2 DEF Channel!Next
  <2>3. ASSUME NEW m \in Packet, Channel!Hand(p, q, m) PROVE Channel!Next
    <3>1. m \in Underway[p] BY <2>3 DEF Channel!Hand
    <3>2. QED BY <2>1, <2>3, <3>1 DEF Channel!Next
  <2>4. QED BY <1>5, <2>1, <2>2, <2>3, FrameEndRefines
<1>6. ASSUME UNCHANGED <<tx, writing, slip, expected, inbox>>
      PROVE  UNCHANGED <<Pending, Underway, Taken, inbox>>
  <2>1. \A r \in Peers : Same(r) BY <1>6, Untouched
  <2>2. QED BY <1>6, <2>1, Stutters
<1>7. ASSUME NEW p \in Peers, \/ Extract(p) \/ ExtractEnd(p) \/ ConsumeStep(p)
                                \/ \E i \in DOMAIN held[p] : Consume(p, i)
      PROVE  UNCHANGED <<Pending, Underway, Taken, inbox>>
  BY <1>6, <1>7 DEF Extract, ExtractEnd, Consume, ConsumeStep, userVars, lineVars
<1>8. CASE UNCHANGED vars BY <1>6, <1>8 DEF vars, callVars, userVars
<1>9. QED BY <1>2, <1>3, <1>4, <1>5, <1>7, <1>8 DEF Next

LEMMA InitRefines == Init => Channel!Init
<1> SUFFICES ASSUME Init PROVE Channel!Init OBVIOUS
<1>1. \A r \in Peers : /\ ~Writing(r) /\ slip[r].type = "none"
                       /\ expected[Other(r)] = 1 /\ tx[r].seq = 1
  BY OtherPeer, NoFrameFacts DEF Init, Writing, Unsettled
<1>2. \A r \in Peers : Pending[r] = NoPacket /\ Underway[r] = {} /\ Taken[r] = FALSE
  BY <1>1, MappedNow DEF Mapped, InFlight, CopyData
<1>3. /\ Pending = [r \in Peers |-> NoPacket] /\ Underway = [r \in Peers |-> {}]
      /\ Taken = [r \in Peers |-> FALSE]
  BY <1>2, MappedNow DEF Mapped
<1>4. QED BY <1>3 DEF Channel!Init, Init

\* Over a line that loses and damages frames the transport is the channel of
\* HciChannel in both directions: no packet is handed over twice or out of
\* turn, and none is reported as sent that the peer has not taken.
THEOREM TransportIsChannel == Spec => ImplementsChannel
BY InitRefines, StepRefines, Inductive, PTL DEF Spec, ImplementsChannel, Channel!Spec
=============================================================================
