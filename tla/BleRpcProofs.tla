---------------------------- MODULE BleRpcProofs ----------------------------
(***************************************************************************)
(* Proofs about BleRpc for every set of operation codes, every size of the *)
(* event queue and the pool, every number of retries, calls and events,    *)
(* and whichever way the line is noisy.  What the transport does to the    *)
(* packets in the air is taken from the proof that it is the channel of    *)
(* HciChannel.                                                             *)
(***************************************************************************)
EXTENDS BleRpc, HciTransportProofs, FunctionTheorems, FiniteSetTheorems

USE RpcAssumption

\* The stages of the exchange of a call.
CmdSent  == Underway[app] # {}
CmdReady == ready[conn] \/ access[conn].pc = "extract"
RespOwed == served # NoOpCode
RespSent == \E op \in OpCode : Resp(op) \in Underway[conn]
RespHere == response # NoOpCode

\* A call that waits for its response; one that consumes it has had it.
Waiting == call # NoOpCode /\ access[app] = NoCall

\* The call in progress is in one stage at most, and with no call there is none.
OneStage == /\ CmdSent  => ~CmdReady /\ ~RespOwed /\ ~RespSent /\ ~RespHere
            /\ CmdReady => ~RespOwed /\ ~RespSent /\ ~RespHere
            /\ RespOwed => ~RespSent /\ ~RespHere
            /\ RespSent => ~RespHere
            /\ ~Waiting => ~CmdSent /\ ~CmdReady /\ ~RespOwed /\ ~RespSent /\ ~RespHere
            /\ access[conn].pc = "extract" => ~ready[conn]

\* In every stage what is on its way is of the call in progress.
OfTheCall == /\ call \in OpCode \cup {NoOpCode}
             /\ Underway[app] \subseteq {Cmd(call)}
             /\ \A m \in Underway[conn] : m = Evt \/ (call \in OpCode /\ m = Resp(call))
             /\ CmdReady => inbox[conn] = Cmd(call)
             /\ RespOwed => served = call
             /\ RespHere => response = call

\* The command is the one packet the connectivity chip has to extract.
ConnPool == IF CmdReady THEN OneToExtract(conn) ELSE pool[conn].read = NextFilled(conn)

RespInv == OneStage /\ OfTheCall /\ (~fault => ConnPool)

LEMMA TwoPeers == Other(app) = conn /\ Other(conn) = app /\ \A p \in Peers : p = app \/ p = conn
BY OtherPeer

LEMMA Packets ==
  /\ \A op \in OpCode : Cmd(op) \in PacketsOf[app] /\ Resp(op) \in PacketsOf[conn]
  /\ Evt \in PacketsOf[conn]
  /\ \A op : Resp(op) # Evt /\ Resp(op).type = "RESP" /\ Resp(op).op = op /\ Cmd(op).op = op
  /\ Evt.type # "RESP"
BY DEF RpcPackets, Cmd, Resp, Evt

\* Steps that give nobody anything new, in the air or in a buffer.
LEMMA Kept ==
  ASSUME RespInv, UNCHANGED <<served, response, inbox>>,
         call' = call \/ (call' = NoOpCode /\ ~Waiting), Waiting => Waiting',
         ready'[conn] => ready[conn],
         access'[conn].pc = "extract" => CmdReady /\ ~ready'[conn],
         Underway'[app] \subseteq Underway[app], Underway'[conn] \subseteq Underway[conn],
         ~fault' => ConnPool'
  PROVE  RespInv'
<1> USE DEF CmdSent, RespOwed, RespSent, RespHere
<1>1. CmdReady' => CmdReady BY DEF CmdReady
<1>2. OneStage' BY <1>1 DEF RespInv, OneStage
<1>3. OfTheCall'
  <2>1. CASE call' = call BY <1>1, <2>1 DEF RespInv, OfTheCall
  <2>2. CASE call' = NoOpCode /\ ~Waiting
    <3>1. ~CmdSent /\ ~CmdReady /\ ~RespOwed /\ ~RespSent /\ ~RespHere
      BY <2>2 DEF RespInv, OneStage
    <3>2. \A m \in Underway[conn] : m = Evt BY <3>1 DEF RespInv, OfTheCall
    <3>3. QED BY <1>1, <2>2, <3>1, <3>2 DEF OfTheCall
  <2>3. QED BY <2>1, <2>2
<1>4. QED BY <1>2, <1>3 DEF RespInv

\* The connectivity chip's end stays.
ConnSame == /\ ready'[conn] = ready[conn]
            /\ access'[conn].pc = "extract" <=> access[conn].pc = "extract"
            /\ pool'[conn].read = pool[conn].read /\ NextFilled(conn)' = NextFilled(conn)
            /\ fault => fault'

LEMMA ConnPoolKept ==
  ASSUME RespInv, ConnSame
  PROVE  /\ CmdReady' = CmdReady /\ (~fault' => ConnPool')
         /\ access'[conn].pc = "extract" => CmdReady /\ ~ready'[conn]
<1>1. CmdReady' = CmdReady BY DEF ConnSame, CmdReady
<1>2. OneToExtract(conn)' = OneToExtract(conn) BY DEF ConnSame, OneToExtract
<1>3. ~fault' => ConnPool' BY <1>1, <1>2 DEF ConnSame, RespInv, ConnPool
<1>4. QED BY <1>1, <1>3 DEF ConnSame, RespInv, OneStage, CmdReady

LEMMA ConnIdle ==
  ASSUME UNCHANGED <<used, callVars>>, fault => fault'
  PROVE  ConnSame
BY DEF ConnSame, NextFilled, callVars, userVars

\* A write adds at most its packet to what is in the air.
LEMMA Written ==
  ASSUME IInv, NEW p \in Peers, NEW m \in PacketsOf[p], PktWrite(p, m)
  PROVE  /\ UNCHANGED <<used, callVars>> /\ access[p] = NoCall
         /\ Underway'[p] \subseteq Underway[p] \cup {m}
         /\ Underway'[Other(p)] = Underway[Other(p)]
<1>1. Channel!Write(p, m) BY WriteRefines DEF IInv
<1>2. Underway' = [Underway EXCEPT ![p] = IF Taken[p] THEN {} ELSE @ \cup {m}]
  BY <1>1 DEF Channel!Write
<1>3. DOMAIN Underway = Peers BY DEF Underway
<1>4. Other(p) \in Peers /\ Other(p) # p BY OtherPeer
<1>5. QED BY <1>2, <1>3, <1>4 DEF PktWrite, MayCall

\* q is handed packet m of p: in a buffer extracted at once, or as the only one
\* to be extracted.
Handed(p, q, m) ==
  /\ inbox' = [inbox EXCEPT ![q] = m] /\ UNCHANGED access
  /\ Underway'[p] = {} /\ Underway'[q] = Underway[q]
  /\ \A r \in Peers \ {q} : /\ ready'[r] = ready[r] /\ pool'[r].read = pool[r].read
                            /\ NextFilled(r)' = NextFilled(r)
  /\ IF q \in Deferring
     THEN /\ ready' = [ready EXCEPT ![q] = TRUE] /\ UNCHANGED held
          /\ pool[q].read = NextFilled(q) => OneToExtract(q)'
     ELSE \E slot \in PoolSlot : held' = [held EXCEPT ![q] = Append(@, slot)]

LEMMA AcceptHands ==
  ASSUME IInv, NEW p \in Peers, NEW q \in Peers, q = Other(p), NEW f \in Arrivals(p),
         AcceptPkt(p, q, f), Channel!Hand(p, q, f.data)
  PROVE  f.data \in Underway[p] /\ Handed(p, q, f.data)
<1>1. DOMAIN Underway = Peers /\ p # q BY OtherPeer DEF Underway
<1>2. /\ f.data \in Underway[p] /\ inbox' = [inbox EXCEPT ![q] = f.data]
      /\ Underway' = [Underway EXCEPT ![p] = {}]
  BY DEF Channel!Hand
<1>3. PoolInv /\ PoolTypes BY DEF IInv, PoolInv
<1> DEFINE room == CanProduce(pool[q])
           produced == IF room THEN Produced(pool[q]) ELSE pool[q]
<1>4. UNCHANGED access /\ used' = [used EXCEPT ![q] = IF room THEN pool[q].write ELSE NoSlot]
  BY DEF AcceptPkt
<1>5. /\ pool' \in {[pool EXCEPT ![q] = produced], [pool EXCEPT ![q] = Extracted(produced)]}
      /\ ready' = ready \/ ready' = [ready EXCEPT ![q] = TRUE]
  BY DEF AcceptPkt
<1>6. ASSUME NEW r \in Peers \ {q}
      PROVE  ready'[r] = ready[r] /\ pool'[r].read = pool[r].read /\ NextFilled(r)' = NextFilled(r)
  <2>1. pool'[r] = pool[r] /\ used'[r] = used[r] /\ ready'[r] = ready[r]
    BY <1>3, <1>4, <1>5 DEF PoolTypes
  <2>2. QED BY <2>1 DEF NextFilled
<1>7. CASE q \in Deferring
  <2>1. ready' = [ready EXCEPT ![q] = TRUE] /\ UNCHANGED held BY <1>7 DEF AcceptPkt
  <2>2. pool[q].read = NextFilled(q) => OneToExtract(q)' BY <1>3, <1>7, AcceptPktReady
  <2>3. QED BY <1>1, <1>2, <1>4, <1>6, <1>7, <2>1, <2>2 DEF Handed
<1>8. CASE q \notin Deferring
  <2>1. held' = [held EXCEPT ![q] = Append(@, produced.read)] BY <1>8 DEF AcceptPkt
  <2>2. pool[q] \in PoolType BY <1>3 DEF PoolTypes
  <2>3. produced.read = pool[q].read BY <2>2, ProducedFacts
  <2>4. pool[q].read \in PoolSlot BY <2>2 DEF PoolType
  <2> HIDE DEF produced
  <2>5. \E slot \in PoolSlot : held' = [held EXCEPT ![q] = Append(@, slot)]
    BY <2>1, <2>3, <2>4
  <2>6. QED BY <1>1, <1>2, <1>4, <1>6, <1>8, <2>5 DEF Handed
<1>9. QED BY <1>2, <1>7, <1>8

\* A frame hands over a packet of the sender, after which it has none in the
\* air, or nothing new.
LEMMA FrameCases ==
  ASSUME IInv, NEW p \in Peers, NEW q \in Peers, q = Other(p), FrameEnd(p, q)
  PROVE  \/ /\ NothingTaken /\ UNCHANGED inbox
            /\ Underway'[p] \subseteq Underway[p] /\ Underway'[q] = Underway[q]
         \/ \E m \in Underway[p] : Handed(p, q, m)
<1>1. DOMAIN Underway = Peers /\ p # q BY OtherPeer DEF Underway
<1>2. CASE NothingTaken /\ UNCHANGED <<Pending, Underway, Taken, inbox>> BY <1>2
<1>3. CASE NothingTaken /\ Channel!Lose(p)
  <2>1. PICK rest \in SUBSET Underway[p] : Underway' = [Underway EXCEPT ![p] = rest]
    BY <1>3 DEF Channel!Lose
  <2>2. UNCHANGED inbox BY <1>3 DEF Channel!Lose
  <2>3. QED BY <1>1, <1>3, <2>1, <2>2
<1>4. CASE NothingTaken /\ Channel!Succeed(q) BY <1>4 DEF Channel!Succeed
<1>5. ASSUME NEW f \in Arrivals(p), AcceptPkt(p, q, f), Channel!Hand(p, q, f.data)
      PROVE  \E m \in Underway[p] : Handed(p, q, m)
  BY <1>5, AcceptHands
<1>6. QED BY <1>2, <1>3, <1>4, <1>5, FrameEndRefines

\* Calls of the memory pool change nothing in the air.
LEMMA Offline ==
  ASSUME UNCHANGED <<lineVars, inbox>>
  PROVE  UNCHANGED Underway
<1>1. UNCHANGED <<tx, writing, slip, expected, inbox>> BY DEF lineVars
<1>2. \A r \in Peers : Same(r) BY <1>1, Untouched
<1>3. QED BY <1>1, <1>2, Stutters

\* A consume of q changes its pool and nothing of the other chip; it moves no
\* position of the pool.
LEMMA ConsumeOnly ==
  ASSUME IInv, NEW q \in Peers, (\E i : Consume(q, i)) \/ ConsumeStep(q)
  PROVE  /\ UNCHANGED <<used, lineVars, inbox, ready, Underway>>
         /\ access'[q].pc # "extract" /\ access[q].pc # "extract"
         /\ \A r \in Peers : pool'[r].read = pool[r].read /\ NextFilled(r)' = NextFilled(r)
         /\ \A r \in Peers \ {q} : access'[r] = access[r] /\ held'[r] = held[r]
<1>1. UNCHANGED <<used, lineVars, inbox, ready>>
  BY DEF Consume, ConsumeStep, lineVars, userVars
<1>2. UNCHANGED Underway BY <1>1, Offline
<1>3. PoolInv /\ PoolTypes BY DEF IInv, PoolInv
<1>4. CASE \E i : Consume(q, i)
  <2>1. PICK i : Consume(q, i) BY <1>4
  <2>2. /\ pool' = pool /\ access' = [access EXCEPT ![q] = Consuming(pool[q], held[q][i])]
        /\ access[q] = NoCall /\ \A r \in Peers \ {q} : held'[r] = held[r]
    BY <2>1 DEF Consume, MayCall
  <2>3. Consuming(pool[q], held[q][i]).pc # "extract" BY DEF Consuming, NoCall
  <2>4. access'[q] = Consuming(pool[q], held[q][i]) BY <1>3, <2>2 DEF PoolTypes
  <2>5. access'[q].pc # "extract" /\ access[q].pc # "extract"
    BY <2>2, <2>3, <2>4, NoCallType
  <2>6. \A r \in Peers : pool'[r].read = pool[r].read /\ NextFilled(r)' = NextFilled(r)
    BY <1>1, <2>2 DEF NextFilled
  <2>7. \A r \in Peers \ {q} : access'[r] = access[r] BY <1>3, <2>2 DEF PoolTypes
  <2>8. QED BY <1>1, <1>2, <2>2, <2>5, <2>6, <2>7
<1>5. CASE ConsumeStep(q)
  <2>1. access[q].pc # "extract" /\ UNCHANGED held BY <1>5 DEF ConsumeStep, userVars
  <2>2. PICK to \in PoolType, next \in ProgressType :
          /\ to.write = pool[q].write /\ to.read = pool[q].read
          /\ next.pc # "extract" /\ Goes(q, to, next)
    BY <1>3, <1>5, ConsumeStepFacts
  <2>3. /\ pool'[q] = to /\ access'[q] = next
        /\ \A r \in Peers \ {q} : pool'[r] = pool[r] /\ access'[r] = access[r]
    BY <1>3, <2>2 DEF Goes, PoolTypes
  <2>4. \A r \in Peers : pool'[r].read = pool[r].read /\ NextFilled(r)' = NextFilled(r)
    BY <1>1, <2>2, <2>3 DEF NextFilled
  <2>5. QED BY <1>1, <1>2, <2>1, <2>2, <2>3, <2>4
<1>6. QED BY <1>4, <1>5

-----------------------------------------------------------------------------
(* Each step of the two chips *)

LEMMA CallStep ==
  ASSUME IInv, RespInv, NEW op \in OpCode, Call(op)
  PROVE  RespInv'
<1> USE DEF CmdSent, RespOwed, RespSent, RespHere
<1>1. /\ call = NoOpCode /\ call' = op /\ PktWrite(app, Cmd(op))
      /\ UNCHANGED <<served, response, fault>>
  BY DEF Call
<1>2. /\ UNCHANGED <<used, callVars>> /\ access[app] = NoCall
      /\ Underway'[app] \subseteq Underway[app] \cup {Cmd(op)}
      /\ Underway'[conn] = Underway[conn]
  BY <1>1, Written, Packets, TwoPeers
<1>3. UNCHANGED <<access, inbox, ready>> BY <1>2 DEF callVars, userVars
<1>4. CmdReady' = CmdReady /\ (~fault' => ConnPool') BY <1>1, <1>2, ConnIdle, ConnPoolKept
<1>5. ~CmdSent /\ ~CmdReady /\ ~RespOwed /\ ~RespSent /\ ~RespHere
  BY <1>1 DEF RespInv, OneStage, Waiting
<1>6. ~CmdReady' /\ ~RespOwed' /\ ~RespSent' /\ ~RespHere' /\ Waiting'
  BY <1>1, <1>2, <1>3, <1>4, <1>5 DEF Waiting
<1>7. OneStage' BY <1>3, <1>6 DEF OneStage, CmdReady
<1>8. Underway'[app] \subseteq {Cmd(call')} BY <1>1, <1>2, <1>5
<1>9. \A m \in Underway'[conn] : m = Evt BY <1>1, <1>2 DEF RespInv, OfTheCall
<1>10. QED BY <1>1, <1>4, <1>6, <1>7, <1>8, <1>9 DEF RespInv, OfTheCall

LEMMA ConsumeAppStep ==
  ASSUME IInv, RespInv, CallReturn \/ EvtGet \/ AppConsumes
  PROVE  RespInv'
<1>1. (\E i : Consume(app, i)) \/ ConsumeStep(app)
  BY DEF CallReturn, EvtGet, AppConsumes, ConsumeResponse, ConsumeSlot
<1>2. /\ UNCHANGED <<used, lineVars, inbox, ready, Underway>>
      /\ access'[app].pc # "extract" /\ access[app].pc # "extract"
      /\ \A r \in Peers : pool'[r].read = pool[r].read /\ NextFilled(r)' = NextFilled(r)
      /\ \A r \in Peers \ {app} : access'[r] = access[r] /\ held'[r] = held[r]
  BY <1>1, ConsumeOnly
<1>3. UNCHANGED <<served, fault>> BY DEF CallReturn, EvtGet, AppConsumes
<1>4. ConnSame BY <1>2, <1>3 DEF ConnSame
<1>5. /\ CmdReady' = CmdReady /\ (~fault' => ConnPool')
      /\ access'[conn].pc = "extract" => CmdReady /\ ~ready'[conn]
  BY <1>4, ConnPoolKept
<1>6. call' = IF access'[app] = NoCall THEN NoOpCode ELSE call
  BY DEF CallReturn, EvtGet, AppConsumes, AfterConsume, ConsumeEnds
<1>7. CASE EvtGet \/ AppConsumes
  <2>1. ~Waiting /\ UNCHANGED response
    <3>1. CASE EvtGet BY <3>1 DEF EvtGet, Waiting
    <3>2. CASE AppConsumes
      <4>1. access[app].pc \in {"find", "turn", "test", "count", "free"} /\ UNCHANGED response
        BY <3>2 DEF AppConsumes, ConsumeStep
      <4>2. access[app] # NoCall BY <4>1, NoCallType
      <4>3. QED BY <4>1, <4>2 DEF Waiting
    <3>3. QED BY <1>7, <3>1, <3>2
  <2>2. QED BY <1>2, <1>3, <1>5, <1>6, <2>1, Kept
<1>8. CASE CallReturn
  <2> USE DEF CmdSent, RespOwed, RespSent, RespHere
  <2>1. call # NoOpCode /\ response = call /\ response' = NoOpCode
    BY <1>8 DEF CallReturn, Answered, ResponseAfter
  <2>2. ~CmdSent /\ ~CmdReady /\ ~RespOwed /\ ~RespSent BY <2>1 DEF RespInv, OneStage
  <2>3. ~CmdSent' /\ ~CmdReady' /\ ~RespOwed' /\ ~RespSent' /\ ~RespHere'
    BY <1>2, <1>3, <1>5, <2>1, <2>2
  <2>4. \A m \in Underway'[conn] : m = Evt BY <1>2, <2>2 DEF RespInv, OfTheCall
  <2>5. call' \in OpCode \cup {NoOpCode} BY <1>6 DEF RespInv, OfTheCall
  <2>6. OneStage' BY <1>5, <2>2, <2>3 DEF OneStage
  <2>7. OfTheCall' BY <2>3, <2>4, <2>5 DEF OfTheCall
  <2>8. QED BY <1>5, <2>6, <2>7 DEF RespInv
<1>9. QED BY <1>7, <1>8

LEMMA WriteEndStep ==
  ASSUME IInv, RespInv, NEW p \in Peers, WriteEnd(p)
  PROVE  RespInv'
<1>1. PktWriteEnd(p) /\ UNCHANGED <<call, response, served, fault>> BY DEF WriteEnd, appVars
<1>2. UNCHANGED <<used, callVars>> BY <1>1 DEF PktWriteEnd, PktWriteState, PktWriteEntry
<1>3. UNCHANGED Underway BY <1>1, WriteEndRefines DEF IInv
<1>4. UNCHANGED <<access, inbox, ready>> BY <1>2 DEF callVars, userVars
<1>5. /\ ~fault' => ConnPool'
      /\ access'[conn].pc = "extract" => CmdReady /\ ~ready'[conn]
  BY <1>1, <1>2, ConnIdle, ConnPoolKept
<1>6. Waiting' = Waiting BY <1>1, <1>4 DEF Waiting
<1>7. QED BY <1>1, <1>3, <1>4, <1>5, <1>6, Kept

LEMMA ServeStep ==
  ASSUME IInv, RespInv, ~fault, Serve
  PROVE  RespInv'
<1>1. /\ Extract(conn) /\ ready[conn] /\ fault' = ~CanExtract(pool[conn])
      /\ UNCHANGED <<call, response, served, lineVars, inbox, pool, used>>
  BY DEF Serve, Extract, lineVars
<1>2. /\ ready'[conn] = FALSE /\ access'[app] = access[app]
      /\ access'[conn] = IF CanExtract(pool[conn]) THEN Extracting(pool[conn].readable) ELSE NoCall
  BY <1>1 DEF Extract, IInv, PoolInv, PoolTypes
<1>3. Extracting(pool[conn].readable).pc = "extract" BY DEF Extracting, NoCall
<1>4. UNCHANGED Underway BY <1>1, Offline
<1>5. CmdReady BY <1>1 DEF CmdReady
<1>6. ~fault' => ConnPool'
  <2>1. SUFFICES ASSUME ~fault' PROVE ConnPool' OBVIOUS
  <2>2. CmdReady' BY <1>1, <1>2, <1>3, <2>1 DEF CmdReady
  <2>3. OneToExtract(conn) BY <1>5 DEF RespInv, ConnPool
  <2>4. OneToExtract(conn)' BY <1>1, <2>3 DEF OneToExtract, NextFilled
  <2>5. QED BY <2>2, <2>4 DEF ConnPool
<1>7. Waiting' = Waiting BY <1>1, <1>2 DEF Waiting
<1>8. QED BY <1>1, <1>2, <1>4, <1>5, <1>6, <1>7, Kept

LEMMA ExecuteStep ==
  ASSUME IInv, RespInv, ~fault, Execute
  PROVE  RespInv'
<1> USE DEF CmdSent, RespOwed, RespSent, RespHere
<1>1. /\ access[conn].pc = "extract" /\ served' \in OpCode
      /\ OneToExtract(conn) => served' = inbox[conn].op
      /\ UNCHANGED <<call, response, fault, ready, inbox, lineVars, used>>
  BY DEF Execute, ExtractEnd, appVars, lineVars
<1>2. PoolTypes /\ CallInv(conn) BY DEF IInv, PoolInv
<1>3. /\ access'[conn] = NoCall /\ access'[app] = access[app]
      /\ pool'[conn] = ExtractedFrom(pool[conn], access[conn].count)
  BY <1>2 DEF Execute, ExtractEnd, PoolTypes
<1>4. pool'[conn].read = SlotAfter(pool[conn].read) /\ pool'[conn].write = pool[conn].write
  <2>1. pool[conn] \in PoolType /\ access[conn].count \in Nat \ {0}
    BY <1>1, <1>2 DEF PoolTypes, ProgressType, CallInv
  <2>2. QED BY <1>3, <2>1, ExtractedFacts
<1>5. UNCHANGED Underway BY <1>1, Offline
<1>6. CmdReady /\ ~ready[conn] BY <1>1 DEF CmdReady, RespInv, OneStage
<1>7. OneToExtract(conn) BY <1>6 DEF RespInv, ConnPool
<1>8. served' = call /\ call # NoOpCode /\ Waiting /\ ~CmdSent /\ ~RespSent /\ ~RespHere
  <2>1. inbox[conn] = Cmd(call) BY <1>6 DEF RespInv, OfTheCall
  <2>2. served' = call BY <1>1, <1>7, <2>1, Packets
  <2>3. QED BY <1>6, <2>2 DEF RespInv, OneStage, Waiting
<1>9. ~CmdReady' /\ access'[conn].pc # "extract" /\ Waiting'
  BY <1>1, <1>3, <1>6, <1>8, NoCallType DEF CmdReady, Waiting
<1>10. ConnPool'
  <2>1. NextFilled(conn)' = NextFilled(conn) BY <1>1, <1>4 DEF NextFilled
  <2>2. QED BY <1>4, <1>7, <1>9, <2>1 DEF ConnPool, OneToExtract
<1>11. ~CmdSent' /\ RespOwed' /\ ~RespSent' /\ ~RespHere' BY <1>1, <1>5, <1>8
<1>12. OneStage' BY <1>9, <1>11 DEF OneStage
<1>13. OfTheCall' BY <1>1, <1>5, <1>8, <1>9, <1>11 DEF RespInv, OfTheCall
<1>14. QED BY <1>10, <1>12, <1>13 DEF RespInv

LEMMA SendStep ==
  ASSUME IInv, RespInv, RespSend \/ EventSend
  PROVE  RespInv'
<1> USE DEF CmdSent, RespOwed, RespSent, RespHere
<1>1. CASE EventSend
  <2>1. PktWrite(conn, Evt) /\ UNCHANGED <<call, served, response, fault>>
    BY <1>1 DEF EventSend, appVars
  <2>2. /\ UNCHANGED <<used, callVars>> /\ Underway'[conn] \subseteq Underway[conn] \cup {Evt}
        /\ Underway'[app] = Underway[app]
    BY <2>1, Written, Packets, TwoPeers
  <2>3. UNCHANGED <<access, ready, inbox>> BY <2>2 DEF callVars, userVars
  <2>4. CmdReady' = CmdReady /\ (~fault' => ConnPool') BY <2>1, <2>2, ConnIdle, ConnPoolKept
  <2>5. Waiting' = Waiting BY <2>1, <2>3 DEF Waiting
  <2>6. RespSent' => RespSent BY <2>2, Packets
  <2>7. OneStage' BY <2>1, <2>2, <2>3, <2>4, <2>5, <2>6 DEF RespInv, OneStage
  <2>8. OfTheCall' BY <2>1, <2>2, <2>3, <2>4 DEF RespInv, OfTheCall
  <2>9. QED BY <2>4, <2>7, <2>8 DEF RespInv
<1>2. CASE RespSend
  <2>1. /\ RespOwed /\ PktWrite(conn, Resp(served)) /\ served' = NoOpCode
        /\ UNCHANGED <<call, response, fault>>
    BY <1>2 DEF RespSend, appVars
  <2>2. served = call /\ call \in OpCode BY <2>1 DEF RespInv, OneStage, OfTheCall, Waiting
  <2>3. /\ UNCHANGED <<used, callVars>>
        /\ Underway'[conn] \subseteq Underway[conn] \cup {Resp(call)}
        /\ Underway'[app] = Underway[app]
    BY <2>1, <2>2, Written, Packets, TwoPeers
  <2>4. UNCHANGED <<access, ready, inbox>> BY <2>3 DEF callVars, userVars
  <2>5. CmdReady' = CmdReady /\ (~fault' => ConnPool') BY <2>1, <2>3, ConnIdle, ConnPoolKept
  <2>6. ~CmdSent /\ ~CmdReady /\ ~RespHere /\ Waiting BY <2>1 DEF RespInv, OneStage
  <2>7. ~CmdSent' /\ ~CmdReady' /\ ~RespOwed' /\ ~RespHere' /\ Waiting'
    BY <2>1, <2>3, <2>4, <2>5, <2>6 DEF Waiting
  <2>8. OneStage' BY <2>4, <2>7 DEF OneStage, CmdReady
  <2>9. OfTheCall' BY <2>1, <2>2, <2>3, <2>7 DEF RespInv, OfTheCall
  <2>10. QED BY <2>5, <2>8, <2>9 DEF RespInv
<1>3. QED BY <1>1, <1>2

LEMMA ConnConsumesStep ==
  ASSUME IInv, RespInv, ConnConsumes
  PROVE  RespInv'
<1>1. /\ (\E i : Consume(conn, i)) \/ ConsumeStep(conn)
      /\ UNCHANGED <<call, served, response, fault>>
  BY DEF ConnConsumes, rpcVars, appVars
<1>2. /\ UNCHANGED <<used, lineVars, inbox, ready, Underway>>
      /\ access'[conn].pc # "extract" /\ access[conn].pc # "extract"
      /\ \A r \in Peers : pool'[r].read = pool[r].read /\ NextFilled(r)' = NextFilled(r)
      /\ \A r \in Peers \ {conn} : access'[r] = access[r] /\ held'[r] = held[r]
  BY <1>1, ConsumeOnly
<1>3. ConnSame BY <1>1, <1>2 DEF ConnSame
<1>4. ~fault' => ConnPool' BY <1>3, ConnPoolKept
<1>5. Waiting' = Waiting BY <1>1, <1>2 DEF Waiting
<1>6. QED BY <1>1, <1>2, <1>4, <1>5, Kept

LEMMA LineAppStep ==
  ASSUME IInv, RespInv, ~fault, LineStep(app)
  PROVE  RespInv'
<1> USE DEF CmdSent, RespOwed, RespSent, RespHere
<1>1. FrameEnd(app, conn) /\ UNCHANGED <<call, response, served, fault>>
  BY TwoPeers DEF LineStep, appVars
<1>2. CASE /\ NothingTaken /\ UNCHANGED inbox
           /\ Underway'[app] \subseteq Underway[app] /\ Underway'[conn] = Underway[conn]
  <2>1. ConnSame /\ UNCHANGED <<ready, access>> BY <1>1, <1>2 DEF ConnSame, NothingTaken
  <2>2. /\ ~fault' => ConnPool'
        /\ access'[conn].pc = "extract" => CmdReady /\ ~ready'[conn]
    BY <2>1, ConnPoolKept
  <2>3. Waiting' = Waiting BY <1>1, <2>1 DEF Waiting
  <2>4. QED BY <1>1, <1>2, <2>1, <2>2, <2>3, Kept
<1>3. ASSUME NEW m \in Underway[app], Handed(app, conn, m)
      PROVE  RespInv'
  <2>1. CmdSent /\ m = Cmd(call) BY <1>3 DEF RespInv, OfTheCall
  <2>2. ~CmdReady /\ ~RespOwed /\ ~RespSent /\ ~RespHere /\ Waiting
    BY <2>1 DEF RespInv, OneStage
  <2>3. /\ inbox' = [inbox EXCEPT ![conn] = m] /\ UNCHANGED access
        /\ Underway'[app] = {} /\ Underway'[conn] = Underway[conn]
        /\ ready' = [ready EXCEPT ![conn] = TRUE]
        /\ pool[conn].read = NextFilled(conn) => OneToExtract(conn)'
    BY <1>3 DEF Handed
  <2>4. inbox'[conn] = m /\ ready'[conn] = TRUE BY <2>3 DEF IInv, PoolInv, PoolTypes
  <2>5. ConnPool' BY <2>2, <2>3, <2>4 DEF RespInv, ConnPool, CmdReady
  <2>6. ~CmdSent' /\ ~RespOwed' /\ ~RespSent' /\ ~RespHere' /\ Waiting'
    BY <1>1, <2>2, <2>3 DEF Waiting
  <2>7. access'[conn].pc # "extract" BY <2>2, <2>3 DEF CmdReady
  <2>8. OneStage' BY <2>6, <2>7 DEF OneStage
  <2>9. OfTheCall' BY <1>1, <2>1, <2>3, <2>4, <2>6 DEF RespInv, OfTheCall
  <2>10. QED BY <2>5, <2>8, <2>9 DEF RespInv
<1>4. QED BY <1>1, <1>2, <1>3, FrameCases, TwoPeers

LEMMA LineConnStep ==
  ASSUME IInv, RespInv, ~fault, LineStep(conn)
  PROVE  RespInv'
<1> USE DEF CmdSent, RespOwed, RespSent, RespHere
<1>1. /\ FrameEnd(conn, app) /\ UNCHANGED served
      /\ IF held'[app] # held[app] THEN AppTakes(Last(held'[app]), inbox'[app])
         ELSE UNCHANGED appVars
  BY TwoPeers DEF LineStep
<1>2. CASE /\ NothingTaken /\ UNCHANGED inbox
           /\ Underway'[conn] \subseteq Underway[conn] /\ Underway'[app] = Underway[app]
  <2>1. ConnSame /\ UNCHANGED <<ready, access, held>> BY <1>2 DEF ConnSame, NothingTaken
  <2>2. UNCHANGED <<call, response>> BY <1>1, <2>1 DEF appVars
  <2>3. /\ ~fault' => ConnPool'
        /\ access'[conn].pc = "extract" => CmdReady /\ ~ready'[conn]
    BY <2>1, ConnPoolKept
  <2>4. Waiting' = Waiting BY <2>1, <2>2 DEF Waiting
  <2>5. QED BY <1>1, <1>2, <2>1, <2>2, <2>3, <2>4, Kept
<1>3. ASSUME NEW m \in Underway[conn], Handed(conn, app, m)
      PROVE  RespInv'
  <2>1. /\ inbox' = [inbox EXCEPT ![app] = m] /\ UNCHANGED access
        /\ Underway'[conn] = {} /\ Underway'[app] = Underway[app]
        /\ ready'[conn] = ready[conn] /\ pool'[conn].read = pool[conn].read
        /\ NextFilled(conn)' = NextFilled(conn)
    BY <1>3 DEF Handed
  <2>2. PICK slot \in PoolSlot : held' = [held EXCEPT ![app] = Append(@, slot)]
    BY <1>3 DEF Handed
  <2>3. /\ held[app] \in Seq(PoolSlot) /\ held'[app] = Append(held[app], slot)
        /\ inbox'[app] = m /\ inbox'[conn] = inbox[conn]
    BY <2>1, <2>2 DEF IInv, PoolInv, PoolTypes
  <2>4. held'[app] # held[app]
    <3>1. Len(held'[app]) = Len(held[app]) + 1 /\ Len(held[app]) \in Nat BY <2>3
    <3>2. QED BY <3>1
  <2>5. AppTakes(Last(held'[app]), m) BY <1>1, <2>3, <2>4
  <2>6. ConnSame BY <2>1 DEF ConnSame
  <2>7. CmdReady' = CmdReady /\ (~fault' => ConnPool') BY <2>6, ConnPoolKept
  <2>8. CASE m = Evt
    <3>1. UNCHANGED <<call, response>> BY <2>5, <2>8, Packets DEF AppTakes, EventReceived
    <3>2. ~RespSent' /\ Waiting' = Waiting BY <2>1, <3>1 DEF Waiting
    <3>3. OneStage' BY <1>1, <2>1, <2>7, <3>1, <3>2 DEF RespInv, OneStage
    <3>4. OfTheCall' BY <1>1, <2>1, <2>3, <2>7, <3>1 DEF RespInv, OfTheCall
    <3>5. QED BY <2>7, <3>3, <3>4 DEF RespInv
  <2>9. CASE call \in OpCode /\ m = Resp(call)
    <3>1. response' = call /\ call' = call
      BY <2>5, <2>9, Packets DEF AppTakes, ResponseReceived
    <3>2. RespSent BY <1>3, <2>9
    <3>3. ~CmdSent /\ ~CmdReady /\ ~RespOwed /\ Waiting BY <3>2 DEF RespInv, OneStage
    <3>4. ~CmdSent' /\ ~CmdReady' /\ ~RespOwed' /\ ~RespSent' /\ Waiting'
      BY <1>1, <2>1, <2>7, <3>1, <3>3 DEF Waiting
    <3>5. OneStage' BY <3>4 DEF OneStage, CmdReady
    <3>6. OfTheCall' BY <2>1, <2>9, <3>1, <3>4 DEF RespInv, OfTheCall
    <3>7. QED BY <2>7, <3>5, <3>6 DEF RespInv
  <2>10. QED BY <1>3, <2>8, <2>9 DEF RespInv, OfTheCall
<1>4. QED BY <1>1, <1>2, <1>3, FrameCases, TwoPeers

LEMMA TimeoutStepKeeps ==
  ASSUME IInv, RespInv, NEW p \in Peers, TimeoutStep(p)
  PROVE  RespInv'
<1>1. Timeout(p) /\ UNCHANGED <<call, response, served, fault>> BY DEF TimeoutStep, appVars
<1>2. UNCHANGED <<used, callVars>> BY <1>1 DEF Timeout
<1>3. \A r \in Peers : Underway'[r] \subseteq Underway[r]
  <2>1. CASE Channel!Fail(p)
    <3>1. PICK rest \in SUBSET Underway[p] : Underway' = [Underway EXCEPT ![p] = rest]
      BY <2>1 DEF Channel!Fail
    <3>2. DOMAIN Underway = Peers BY DEF Underway
    <3>3. QED BY <3>1, <3>2
  <2>2. QED BY <1>1, <2>1, TimeoutRefines DEF IInv
<1>4. UNCHANGED <<access, inbox, ready>> BY <1>2 DEF callVars, userVars
<1>5. /\ ~fault' => ConnPool'
      /\ access'[conn].pc = "extract" => CmdReady /\ ~ready'[conn]
  BY <1>1, <1>2, ConnIdle, ConnPoolKept
<1>6. Waiting' = Waiting BY <1>1, <1>4 DEF Waiting
<1>7. QED BY <1>1, <1>3, <1>4, <1>5, <1>6, Kept

-----------------------------------------------------------------------------
(* Theorems *)

\* Every step of the two chips is a step of the transport.
LEMMA StepOfTransport ==
  ASSUME IInv, RespInv, [RpcNext]_allVars
  PROVE  [Next]_vars
<1>1. ASSUME NEW p \in Peers, NEW m \in PacketsOf[p], PktWrite(p, m) PROVE Next
  BY <1>1 DEF Next
<1>2. ASSUME NEW p \in Peers, NEW i, Consume(p, i) PROVE Next
  BY <1>2 DEF Next, Consume
<1>3. CASE \E op \in OpCode : Call(op) BY <1>1, <1>3, Packets DEF Call
<1>4. CASE CallReturn \/ EvtGet
  BY <1>2, <1>4 DEF CallReturn, EvtGet, ConsumeResponse, ConsumeSlot
<1>5. CASE AppConsumes \/ ConnConsumes
  BY <1>2, <1>5 DEF AppConsumes, ConnConsumes, Next
<1>6. CASE Serve \/ Execute BY <1>6 DEF Serve, Execute, Next
<1>7. CASE RespSend
  <2>1. served \in OpCode
    BY <1>7 DEF RespSend, RespInv, OneStage, OfTheCall, RespOwed, Waiting
  <2>2. PktWrite(conn, Resp(served)) BY <1>7 DEF RespSend
  <2>3. QED BY <1>1, <2>1, <2>2, Packets
<1>8. CASE EventSend BY <1>1, <1>8, Packets DEF EventSend
<1>9. ASSUME NEW p \in Peers, WriteEnd(p) \/ LineStep(p) \/ TimeoutStep(p) PROVE Next
  BY <1>9 DEF WriteEnd, LineStep, TimeoutStep, Next
<1>10. CASE UNCHANGED allVars BY <1>10 DEF allVars
<1>11. QED
  BY <1>3, <1>4, <1>5, <1>6, <1>7, <1>8, <1>9, <1>10 DEF RpcNext, AppThread, ConnThread

LEMMA RpcStep ==
  ASSUME IInv, RespInv, [RpcNext]_allVars
  PROVE  IInv' /\ RespInv'
<1>1. IInv' BY StepOfTransport, NextIInv
<1>2. CASE UNCHANGED allVars
  <2>1. UNCHANGED <<call, served, response, fault, lineVars, inbox, access, ready, used, callVars>>
    BY <1>2 DEF allVars, rpcVars, appVars, vars, callVars, userVars, lineVars
  <2>2. UNCHANGED Underway BY <2>1, Offline
  <2>3. /\ ~fault' => ConnPool'
        /\ access'[conn].pc = "extract" => CmdReady /\ ~ready'[conn]
    BY <2>1, ConnIdle, ConnPoolKept
  <2>4. Waiting' = Waiting BY <2>1 DEF Waiting
  <2>5. QED BY <1>1, <2>1, <2>2, <2>3, <2>4, Kept
<1>3. ASSUME NEW p \in Peers, ~fault, LineStep(p) PROVE RespInv'
  BY <1>3, LineAppStep, LineConnStep, TwoPeers
<1>4. QED
  BY <1>1, <1>2, <1>3, CallStep, ConsumeAppStep, WriteEndStep, ServeStep, ExecuteStep, SendStep,
     ConnConsumesStep, TimeoutStepKeeps
  DEF RpcNext, AppThread, ConnThread

LEMMA RpcInitially == RpcInit => IInv /\ RespInv
<1> SUFFICES ASSUME RpcInit PROVE IInv /\ RespInv OBVIOUS
<1> USE DEF CmdSent, RespOwed, RespSent, RespHere
<1>1. Init /\ call = NoOpCode /\ served = NoOpCode /\ response = NoOpCode BY DEF RpcInit
<1>2. ready[conn] = FALSE /\ access[conn] = NoCall /\ ~CmdReady
  BY <1>1, NoCallType DEF Init, CmdReady
<1>3. Underway[app] = {} /\ Underway[conn] = {} BY <1>1, InitRefines DEF Channel!Init
<1>4. ConnPool
  <2>1. PoolOpened \in PoolType /\ CanProduce(PoolOpened) /\ PoolOpened.read = 0
    BY RxQueueSizeAssumption DEF PoolOpened, PoolType, CanProduce, PoolSlot
  <2>2. Produced(PoolOpened).read = 0 BY <2>1, ProducedFacts
  <2>3. pool[conn].read = 0 /\ used[conn] = 0 BY <1>1, <2>2 DEF Init
  <2>4. QED BY <1>2, <2>3 DEF ConnPool, NextFilled, NoSlot
<1>5. OneStage BY <1>1, <1>2, <1>3 DEF OneStage
<1>6. OfTheCall BY <1>1, <1>2, <1>3 DEF OfTheCall
<1>7. QED BY <1>1, <1>4, <1>5, <1>6, InitIInv DEF RespInv

\* Every state of the two chips has the invariant of the transport and one stage
\* of the exchange.
THEOREM RpcInductive == RpcSpec => [](IInv /\ RespInv)
BY RpcInitially, RpcStep, PTL DEF RpcSpec

\* The two chips with their calls and events behave as two users of the
\* transport, so what is proved of every user holds of them: their packets are
\* handed over in order, once, and by the channel of HciChannel.
THEOREM RpcUsesTransport == RpcSpec => Spec
<1>1. RpcInit => Init BY DEF RpcInit
<1>2. IInv /\ RespInv /\ [RpcNext]_allVars => [Next]_vars BY StepOfTransport
<1>3. QED BY <1>1, <1>2, RpcInductive, PTL DEF RpcSpec, Spec

\* ble_rpc_cmd_resp_wait never takes the response of another call for its own,
\* whatever is lost, damaged, sent again or given up on the way.
THEOREM ResponseOfTheCall == RpcSpec => []ResponseClaimed
<1>1. RespInv => ResponseClaimed BY DEF RespInv, OfTheCall, RespHere, ResponseClaimed
<1>2. QED BY <1>1, RpcInductive, PTL
-----------------------------------------------------------------------------
(* Every buffer extracted is an event or the response                      *)

\* How often slot b occurs in the sequence s.
Places(s, b) == {i \in DOMAIN s : s[i] = b}
Occurs(s, b) == Cardinality(Places(s, b))

LEMMA OccursFacts ==
  ASSUME NEW S, NEW s \in Seq(S), NEW b
  PROVE  /\ IsFiniteSet(Places(s, b)) /\ Occurs(s, b) \in Nat
         /\ Occurs(s, b) = 0 <=> \A i \in DOMAIN s : s[i] # b
<1>1. DOMAIN s = 1..Len(s) /\ Len(s) \in Nat OBVIOUS
<1>2. IsFiniteSet(1..Len(s)) BY <1>1, FS_Interval
<1>3. Places(s, b) \in SUBSET (1..Len(s)) BY <1>1 DEF Places
<1>4. IsFiniteSet(Places(s, b)) BY <1>2, <1>3, FS_Subset
<1>5. Occurs(s, b) = 0 <=> Places(s, b) = {} BY <1>4, FS_EmptySet DEF Occurs
<1>6. QED BY <1>4, <1>5, FS_CardinalityType DEF Occurs, Places

LEMMA OccursAppend ==
  ASSUME NEW S, NEW s \in Seq(S), NEW x \in S, NEW b
  PROVE  Occurs(Append(s, x), b) = Occurs(s, b) + (IF x = b THEN 1 ELSE 0)
<1> DEFINE r == Append(s, x)
<1>1. /\ DOMAIN s = 1..Len(s) /\ Len(s) \in Nat /\ DOMAIN r = 1..(Len(s) + 1)
      /\ r[Len(s) + 1] = x /\ \A i \in 1..Len(s) : r[i] = s[i]
  OBVIOUS
<1>2. Len(s) + 1 \notin Places(s, b) BY <1>1 DEF Places
<1>3. CASE x = b
  <2>1. Places(r, b) = Places(s, b) \cup {Len(s) + 1} BY <1>1, <1>3 DEF Places
  <2>2. QED BY <1>2, <1>3, <2>1, OccursFacts, FS_AddElement DEF Occurs
<1>4. CASE x # b
  <2>1. Places(r, b) = Places(s, b) BY <1>1, <1>4 DEF Places
  <2>2. QED BY <1>4, <2>1, OccursFacts DEF Occurs
<1>5. QED BY <1>3, <1>4

LEMMA OccursRemove ==
  ASSUME NEW S, NEW s \in Seq(S), NEW i \in 1..Len(s), NEW b
  PROVE  Occurs(SubSeq(s, 1, i - 1) \o SubSeq(s, i + 1, Len(s)), b)
           = Occurs(s, b) - (IF s[i] = b THEN 1 ELSE 0)
<1> DEFINE r == SubSeq(s, 1, i - 1) \o SubSeq(s, i + 1, Len(s))
           from == Places(r, b)
           to == Places(s, b) \ {i}
           move == [j \in from |-> IF j < i THEN j ELSE j + 1]
<1>1. DOMAIN s = 1..Len(s) /\ Len(s) \in Nat /\ i \in Nat \ {0} OBVIOUS
<1>2. /\ r \in Seq(S) /\ DOMAIN r = 1..(Len(s) - 1)
      /\ \A j \in 1..(Len(s) - 1) : r[j] = IF j < i THEN s[j] ELSE s[j + 1]
  <2>1. /\ r \in Seq(S) /\ Len(r) = Len(s) - 1
        /\ \A j \in 1..(Len(s) - 1) : r[j] = IF j < i THEN s[j] ELSE s[j + 1]
    BY WithoutFacts
  <2> HIDE DEF r
  <2>2. DOMAIN r = 1..Len(r) BY <2>1
  <2>3. QED BY <2>1, <2>2
<1> HIDE DEF r
<1>3. move \in Bijection(from, to)
  <2>1. move \in [from -> to] BY <1>1, <1>2 DEF Places
  <2>2. \A j, k \in from : move[j] = move[k] => j = k BY <1>1, <1>2 DEF Places
  <2>3. \A k \in to : \E j \in from : move[j] = k
    <3> SUFFICES ASSUME NEW k \in to PROVE \E j \in from : move[j] = k OBVIOUS
    <3> DEFINE j == IF k < i THEN k ELSE k - 1
    <3>1. k \in 1..Len(s) /\ k # i /\ s[k] = b BY <1>1 DEF Places
    <3>2. j \in 1..(Len(s) - 1) /\ (IF j < i THEN j ELSE j + 1) = k BY <1>1, <3>1
    <3>3. j \in from BY <1>2, <3>1, <3>2 DEF Places
    <3>4. QED BY <3>2, <3>3
  <2>4. QED BY <2>1, <2>2, <2>3, Fun_IsBij
<1>4. IsFiniteSet(from) BY <1>2, OccursFacts
<1>5. Cardinality(to) = Cardinality(from)
  <2> HIDE DEF move, from, to
  <2>1. QED BY <1>3, <1>4, FS_Bijection DEF ExistsBijection
<1>6. Cardinality(to) = Cardinality(Places(s, b)) - (IF s[i] = b THEN 1 ELSE 0)
  <2>1. i \in Places(s, b) <=> s[i] = b BY <1>1 DEF Places
  <2>2. IsFiniteSet(Places(s, b)) BY OccursFacts
  <2>3. \A P : IsFiniteSet(P) =>
          Cardinality(P \ {i}) = IF i \in P THEN Cardinality(P) - 1 ELSE Cardinality(P)
    BY FS_RemoveElement
  <2>4. Cardinality(Places(s, b)) \in Nat BY OccursFacts DEF Occurs
  <2>5. QED BY <2>1, <2>2, <2>3, <2>4
<1>7. QED BY <1>5, <1>6 DEF Occurs, r

LEMMA OccursTail ==
  ASSUME NEW S, NEW s \in Seq(S), s # <<>>, NEW b
  PROVE  /\ Tail(s) \in Seq(S)
         /\ Occurs(Tail(s), b) = Occurs(s, b) - (IF Head(s) = b THEN 1 ELSE 0)
<1>1. 1 \in 1..Len(s) /\ s[1] = Head(s) OBVIOUS
<1>2. SubSeq(s, 1, 1 - 1) \o SubSeq(s, 1 + 1, Len(s)) = Tail(s)
  <2>1. SubSeq(s, 1, 1 - 1) = <<>> BY SubSeqEmpty
  <2>2. Tail(s) \in Seq(S) /\ Tail(s) = SubSeq(s, 1 + 1, Len(s))
    BY HeadTailProperties, TailIsSubSeq
  <2>3. QED BY <2>1, <2>2, ConcatEmptySeq
<1>3. Tail(s) \in Seq(S) BY HeadTailProperties
<1>4. Occurs(SubSeq(s, 1, 1 - 1) \o SubSeq(s, 1 + 1, Len(s)), b)
        = Occurs(s, b) - (IF s[1] = b THEN 1 ELSE 0)
  BY <1>1, OccursRemove
<1>5. QED BY <1>1, <1>2, <1>3, <1>4

LEMMA TailOfAppend ==
  ASSUME NEW S, NEW s \in Seq(S), s # <<>>, NEW x \in S
  PROVE  Tail(Append(s, x)) = Append(Tail(s), x)
<1> DEFINE a == Tail(Append(s, x))
           b == Append(Tail(s), x)
<1>1. Len(s) \in Nat \ {0} /\ Append(s, x) \in Seq(S) /\ Append(s, x) # <<>> /\ Tail(s) \in Seq(S)
  BY AppendProperties, HeadTailProperties, EmptySeq
<1>2. /\ a \in Seq(S) /\ Len(a) = Len(s)
      /\ \A i \in 1..Len(s) : a[i] = Append(s, x)[i + 1]
  BY <1>1, AppendProperties, HeadTailProperties
<1>3. /\ b \in Seq(S) /\ Len(b) = Len(s)
      /\ \A i \in 1..(Len(s) - 1) : b[i] = s[i + 1]
      /\ b[Len(s)] = x
  BY <1>1, AppendProperties, HeadTailProperties
<1>4. /\ \A i \in 1..Len(s) : Append(s, x)[i] = s[i]
      /\ Append(s, x)[Len(s) + 1] = x
  BY AppendProperties
<1> HIDE DEF a, b
<1>5. ASSUME NEW i \in 1..Len(s) PROVE a[i] = b[i]
  <2>1. CASE i = Len(s) BY <1>2, <1>3, <1>4, <2>1
  <2>2. CASE i # Len(s)
    <3>1. i \in 1..(Len(s) - 1) /\ i + 1 \in 1..Len(s) BY <1>1, <2>2
    <3>2. QED BY <1>2, <1>3, <1>4, <3>1
  <2>3. QED BY <2>1, <2>2
<1>6. a = b BY <1>2, <1>3, <1>5, SeqEqual
<1>7. QED BY <1>6 DEF a, b

\* As often as a buffer has been extracted it waits as an event or as the
\* response.
Claims(b) == Occurs(EventsKept, b) + (IF RespHere /\ responseBuf = b THEN 1 ELSE 0)

\* The thread of the application chip consumes an event.
Fetching == call = NoOpCode /\ access[app] # NoCall

OwnInv == /\ events \in Seq(PoolSlot)
          /\ Fetching => events # <<>>
          /\ ~fault => \A b : Occurs(held[app], b) = Claims(b)

LEMMA EventsKeptType ==
  ASSUME OwnInv
  PROVE  EventsKept \in Seq(PoolSlot)
BY HeadTailProperties DEF OwnInv, EventsKept, Fetching

LEMMA SlotConsumed ==
  ASSUME IInv, NEW c, ConsumeSlot(c)
  PROVE  /\ access[app] = NoCall
         /\ \A b : Occurs(held'[app], b) = Occurs(held[app], b) - (IF c = b THEN 1 ELSE 0)
<1>1. PICK i \in DOMAIN held[app] : held[app][i] = c /\ Consume(app, i) BY DEF ConsumeSlot
<1>2. held[app] \in Seq(PoolSlot) /\ i \in 1..Len(held[app])
  BY <1>1 DEF IInv, PoolInv, PoolTypes
<1> DEFINE s == held[app]
           r == SubSeq(s, 1, i - 1) \o SubSeq(s, i + 1, Len(s))
<1>3. held'[app] = r /\ access[app] = NoCall
  BY <1>1 DEF Consume, MayCall, IInv, PoolInv, PoolTypes
<1>4. \A b : Occurs(r, b) = Occurs(s, b) - (IF s[i] = b THEN 1 ELSE 0)
  BY <1>2, OccursRemove
<1>5. QED BY <1>1, <1>3, <1>4

LEMMA OwnReturn ==
  ASSUME IInv, RespInv, OwnInv, ~fault, CallReturn
  PROVE  OwnInv'
<1>1. /\ RespHere /\ call # NoOpCode /\ ConsumeSlot(responseBuf) /\ response' = NoOpCode
      /\ UNCHANGED <<responseBuf, fault>>
      /\ call' = IF access'[app] = NoCall THEN NoOpCode ELSE call
      /\ events' = events
  BY DEF CallReturn, ConsumeResponse, Answered, ResponseAfter, AfterConsume, ConsumeEnds, RespHere
<1>2. EventsKept = events /\ EventsKept' = events /\ ~Fetching'
  BY <1>1 DEF EventsKept, Fetching
<1>3. ASSUME NEW b PROVE Occurs(held'[app], b) = Claims(b)'
  <2>1. Occurs(held'[app], b) = Occurs(held[app], b) - (IF responseBuf = b THEN 1 ELSE 0)
    BY <1>1, SlotConsumed
  <2>2. Occurs(held[app], b) = Occurs(events, b) + (IF responseBuf = b THEN 1 ELSE 0)
    BY <1>1, <1>2 DEF OwnInv, Claims
  <2>3. Occurs(events, b) \in Nat BY OccursFacts DEF OwnInv
  <2>4. Claims(b)' = Occurs(events, b) BY <1>1, <1>2, <2>3 DEF Claims, RespHere
  <2>5. QED BY <2>1, <2>2, <2>3, <2>4
<1>4. QED BY <1>1, <1>2, <1>3 DEF OwnInv

LEMMA OwnEvtGet ==
  ASSUME IInv, OwnInv, ~fault, EvtGet
  PROVE  OwnInv'
<1> DEFINE c == Head(events)
<1>1. /\ call = NoOpCode /\ call' = NoOpCode /\ events # <<>> /\ ConsumeSlot(c)
      /\ events' = IF access'[app] = NoCall THEN Tail(events) ELSE events
      /\ UNCHANGED <<response, responseBuf, fault>>
  BY DEF EvtGet, AfterConsume, ConsumeEnds
<1>2. access[app] = NoCall BY <1>1, SlotConsumed
<1>3. EventsKept = events /\ EventsKept' = Tail(events) BY <1>1, <1>2 DEF EventsKept
<1>4. ASSUME NEW b PROVE Occurs(held'[app], b) = Claims(b)'
  <2>1. Occurs(held'[app], b) = Occurs(held[app], b) - (IF c = b THEN 1 ELSE 0)
    BY <1>1, SlotConsumed
  <2>2. Occurs(held[app], b) = Claims(b) BY DEF OwnInv
  <2>3. Occurs(Tail(events), b) = Occurs(events, b) - (IF c = b THEN 1 ELSE 0)
    BY <1>1, OccursTail DEF OwnInv
  <2>4. Occurs(events, b) \in Nat BY OccursFacts DEF OwnInv
  <2>5. Claims(b) = Occurs(events, b) + (IF RespHere /\ responseBuf = b THEN 1 ELSE 0)
    BY <1>3 DEF Claims
  <2>6. Claims(b)' = Occurs(Tail(events), b) + (IF RespHere /\ responseBuf = b THEN 1 ELSE 0)
    BY <1>1, <1>3 DEF Claims, RespHere
  <2>7. QED BY <2>1, <2>2, <2>3, <2>4, <2>5, <2>6
<1>5. events' \in Seq(PoolSlot) /\ (Fetching' => events' # <<>>)
  BY <1>1, HeadTailProperties DEF OwnInv, Fetching
<1>6. QED BY <1>4, <1>5 DEF OwnInv

\* The steps of a consume, and its end, at which the event leaves the queue.
LEMMA OwnConsumes ==
  ASSUME IInv, OwnInv, AppConsumes
  PROVE  OwnInv'
<1>1. /\ access[app].pc \in {"find", "turn", "test", "count", "free"}
      /\ UNCHANGED <<held, response, responseBuf, fault>>
      /\ call' = IF access'[app] = NoCall THEN NoOpCode ELSE call
      /\ events' = IF access'[app] = NoCall /\ call = NoOpCode THEN Tail(events) ELSE events
  BY DEF AppConsumes, ConsumeStep, AfterConsume, ConsumeEnds, userVars
<1>2. access[app] # NoCall BY <1>1, NoCallType
<1>3. EventsKept' = EventsKept BY <1>1, <1>2 DEF EventsKept
<1>4. \A b : Claims(b)' = Claims(b) BY <1>1, <1>3 DEF Claims, RespHere
<1>5. events' \in Seq(PoolSlot) /\ (Fetching' => events' # <<>>)
  BY <1>1, <1>2, HeadTailProperties DEF OwnInv, Fetching
<1>6. QED BY <1>1, <1>4, <1>5 DEF OwnInv

LEMMA OwnArrival ==
  ASSUME IInv, RespInv, OwnInv, ~fault, LineStep(conn)
  PROVE  OwnInv'
<1>1. /\ FrameEnd(conn, app)
      /\ IF held'[app] # held[app] THEN AppTakes(Last(held'[app]), inbox'[app])
         ELSE UNCHANGED appVars
  BY TwoPeers DEF LineStep
<1>2. CASE NothingTaken
  <2>1. UNCHANGED <<access, held>> BY <1>2 DEF NothingTaken
  <2>2. QED
    BY <1>1, <2>1 DEF OwnInv, Claims, RespHere, EventsKept, Fetching, appVars
<1>3. ASSUME NEW m \in Underway[conn], Handed(conn, app, m)
      PROVE  OwnInv'
  <2>1. inbox' = [inbox EXCEPT ![app] = m] /\ UNCHANGED access BY <1>3 DEF Handed
  <2>2. PICK slot \in PoolSlot : held' = [held EXCEPT ![app] = Append(@, slot)]
    BY <1>3 DEF Handed
  <2>3. held[app] \in Seq(PoolSlot) /\ held'[app] = Append(held[app], slot) /\ inbox'[app] = m
    BY <2>1, <2>2 DEF IInv, PoolInv, PoolTypes
  <2>4. held'[app] # held[app] /\ Last(held'[app]) = slot
    <3>1. /\ Len(held'[app]) = Len(held[app]) + 1 /\ Len(held[app]) \in Nat
          /\ held'[app][Len(held[app]) + 1] = slot
      BY <2>3, AppendProperties
    <3>2. QED BY <3>1 DEF Last
  <2>5. AppTakes(slot, m) BY <1>1, <2>3, <2>4
  <2>6. \A b : Occurs(held'[app], b) = Occurs(held[app], b) + (IF slot = b THEN 1 ELSE 0)
    BY <2>3, OccursAppend
  <2>7. \A b : Occurs(EventsKept, b) \in Nat /\ Occurs(held[app], b) = Claims(b)
    BY EventsKeptType, OccursFacts DEF OwnInv
  <2>8. CASE m = Evt
    <3>1. EventReceived(slot) BY <2>5, <2>8, Packets DEF AppTakes
    <3>2. UNCHANGED <<call, response, responseBuf>> BY <3>1 DEF EventReceived
    <3>3. CASE fault' = TRUE /\ UNCHANGED events
      BY <2>1, <3>2, <3>3 DEF OwnInv, Fetching
    <3>4. CASE events' = Append(events, slot)
      <4>1. events' \in Seq(PoolSlot) /\ events' # <<>> BY <3>4, AppendProperties DEF OwnInv
      <4>2. EventsKept' = Append(EventsKept, slot)
        <5>1. CASE Fetching
          <6>1. events # <<>> /\ events \in Seq(PoolSlot) BY <5>1 DEF OwnInv
          <6>2. Tail(Append(events, slot)) = Append(Tail(events), slot)
            BY <6>1, TailOfAppend
          <6>3. QED BY <2>1, <3>2, <3>4, <5>1, <6>2 DEF EventsKept, Fetching
        <5>2. CASE ~Fetching BY <2>1, <3>2, <3>4, <5>2 DEF EventsKept, Fetching
        <5>3. QED BY <5>1, <5>2
      <4>3. \A b : Occurs(EventsKept', b) = Occurs(EventsKept, b) + (IF slot = b THEN 1 ELSE 0)
        BY <4>2, EventsKeptType, OccursAppend
      <4>4. \A b : Occurs(held'[app], b) = Claims(b)'
        BY <2>6, <2>7, <3>2, <4>3 DEF Claims, RespHere
      <4>5. QED BY <4>1, <4>4 DEF OwnInv
    <3>5. QED BY <3>1, <3>3, <3>4 DEF EventReceived
  <2>9. CASE call \in OpCode /\ m = Resp(call)
    <3>1. ResponseReceived(slot, call) BY <2>5, <2>9, Packets DEF AppTakes
    <3>2. response' = call /\ responseBuf' = slot /\ UNCHANGED <<call, events, fault>>
      BY <3>1 DEF ResponseReceived
    <3>3. RespSent BY <1>3, <2>9 DEF RespSent
    <3>4. ~RespHere BY <3>3 DEF RespInv, OneStage
    <3>5. RespHere' BY <2>9, <3>2 DEF RespHere
    <3>6. EventsKept' = EventsKept /\ ~Fetching' BY <2>1, <2>9, <3>2 DEF EventsKept, Fetching
    <3>7. \A b : Occurs(held'[app], b) = Claims(b)'
      BY <2>6, <2>7, <3>2, <3>4, <3>5, <3>6 DEF Claims
    <3>8. QED BY <3>2, <3>6, <3>7 DEF OwnInv
  <2>10. QED BY <1>3, <2>8, <2>9 DEF RespInv, OfTheCall
<1>4. QED BY <1>1, <1>2, <1>3, FrameCases, TwoPeers

LEMMA OwnStep == IInv /\ RespInv /\ OwnInv /\ [RpcNext]_allVars => OwnInv'
<1> SUFFICES ASSUME IInv, RespInv, OwnInv, [RpcNext]_allVars PROVE OwnInv' OBVIOUS
<1>1. ASSUME held'[app] = held[app], access'[app] = access[app],
             UNCHANGED <<response, responseBuf, events>>, fault => fault',
             call' = call \/ access[app] = NoCall
      PROVE  OwnInv'
  <2>1. EventsKept' = EventsKept /\ (Fetching' => Fetching)
    BY <1>1 DEF EventsKept, Fetching
  <2>2. \A b : Claims(b)' = Claims(b) BY <1>1, <2>1 DEF Claims, RespHere
  <2>3. QED BY <1>1, <2>1, <2>2 DEF OwnInv
<1>2. ASSUME NEW op \in OpCode, Call(op) PROVE OwnInv'
  BY <1>1, <1>2 DEF Call, PktWrite, MayCall, callVars, userVars
<1>3. CASE ~fault /\ CallReturn BY <1>3, OwnReturn
<1>4. CASE ~fault /\ (EvtGet \/ AppConsumes) BY <1>4, OwnEvtGet, OwnConsumes
<1>5. CASE ~fault /\ (Serve \/ Execute)
  <2>1. /\ UNCHANGED <<call, response, responseBuf, events>>
        /\ held'[app] = held[app] /\ access'[app] = access[app]
    BY <1>5 DEF Serve, Execute, Extract, ExtractEnd, appVars, IInv, PoolInv, PoolTypes
  <2>2. QED BY <1>1, <1>5, <2>1
<1>6. CASE ConnConsumes
  <2>1. (\E i : Consume(conn, i)) \/ ConsumeStep(conn)
    BY <1>6 DEF ConnConsumes
  <2>2. UNCHANGED appVars BY <1>6 DEF ConnConsumes, rpcVars
  <2>3. held'[app] = held[app] /\ access'[app] = access[app] BY <2>1, ConsumeOnly
  <2>4. QED BY <1>1, <2>2, <2>3 DEF appVars
<1>7. CASE RespSend \/ EventSend
  BY <1>1, <1>7 DEF RespSend, EventSend, PktWrite, callVars, userVars, appVars
<1>8. CASE ~fault /\ LineStep(conn) BY <1>8, OwnArrival
<1>9. CASE LineStep(app)
  <2>1. FrameEnd(app, conn) /\ UNCHANGED appVars BY <1>9, TwoPeers DEF LineStep
  <2>2. UNCHANGED <<held, access>>
    BY <2>1, FrameCases, TwoPeers DEF Handed, NothingTaken
  <2>3. QED BY <1>1, <2>1, <2>2 DEF appVars
<1>10. ASSUME NEW p \in Peers, TimeoutStep(p) \/ WriteEnd(p) PROVE OwnInv'
  <2>1. UNCHANGED <<held, access, appVars>>
    BY <1>10 DEF TimeoutStep, Timeout, WriteEnd, PktWriteEnd, PktWriteState, PktWriteEntry,
       callVars, userVars
  <2>2. QED BY <1>1, <2>1 DEF appVars
<1>11. CASE UNCHANGED allVars
  BY <1>1, <1>11 DEF allVars, vars, callVars, userVars, rpcVars, appVars
<1>12. QED
  BY <1>2, <1>3, <1>4, <1>5, <1>6, <1>7, <1>8, <1>9, <1>10, <1>11, TwoPeers
  DEF RpcNext, AppThread, ConnThread

LEMMA OwnInitially == RpcInit => OwnInv
<1> SUFFICES ASSUME RpcInit PROVE OwnInv OBVIOUS
<1>1. /\ held[app] = <<>> /\ events = <<>> /\ response = NoOpCode /\ access[app] = NoCall
  BY DEF RpcInit, Init
<1>2. <<>> \in Seq(PoolSlot) BY EmptySeq
<1>3. EventsKept = <<>> /\ ~Fetching BY <1>1 DEF EventsKept, Fetching
<1>4. \A b : Occurs(<<>>, b) \in Nat BY <1>2, OccursFacts
<1>5. QED BY <1>1, <1>2, <1>3, <1>4 DEF OwnInv, Claims, RespHere

\* Whatever the size of the pool and the order in which its buffers come back,
\* the application chip forgets none of those it extracts: each is consumed by
\* sd_ble_evt_get or with the response of a call (ble_rpc_pkt_receiver.c).
THEOREM EveryBufferIsOwned == RpcSpec => []BuffersOwned
<1>1. IInv /\ OwnInv => BuffersOwned
  <2> SUFFICES ASSUME IInv, OwnInv, ~fault, NEW b
               PROVE  b \in HeldSlots(app) <=>
                        b \in ToSet(EventsKept) \/ (response # NoOpCode /\ responseBuf = b)
    BY DEF BuffersOwned
  <2>1. held[app] \in Seq(PoolSlot) /\ EventsKept \in Seq(PoolSlot)
    BY EventsKeptType DEF IInv, PoolInv, PoolTypes
  <2>2. /\ Occurs(held[app], b) \in Nat /\ Occurs(EventsKept, b) \in Nat
        /\ Occurs(held[app], b) = Claims(b)
    BY <2>1, OccursFacts DEF OwnInv
  <2>3. b \in HeldSlots(app) <=> Occurs(held[app], b) # 0 BY <2>1, OccursFacts DEF HeldSlots
  <2>4. b \in ToSet(EventsKept) <=> Occurs(EventsKept, b) # 0 BY <2>1, OccursFacts DEF ToSet
  <2>5. QED BY <2>2, <2>3, <2>4 DEF Claims, RespHere
<1>2. QED BY <1>1, OwnInitially, OwnStep, RpcInductive, PTL DEF RpcSpec
=============================================================================
