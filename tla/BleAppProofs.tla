---------------------------- MODULE BleAppProofs ----------------------------
(***************************************************************************)
(* Proofs about BleApp for every number of attempts and of connections,    *)
(* every size of the scheduler queue, in both usages.                      *)
(***************************************************************************)
EXTENDS BleApp, TLAPS, SequenceTheorems

USE RequestAssumption, NotifyAssumption, PreferredAssumption, CountAssumption, QueueAssumption,
    BoundAssumption

Up == {"conn", "closing"}

Opening(e)    == e.id \in {"CONNECTED", "ADV_TIMEOUT"}
Closing(e)    == e.id \in {"DISCONNECTED", "ADV_TIMEOUT"}
Parameters(e) == e.id \in {"CONNECTED", "PARAM_UPDATE"}
EvtIdx        == 1..Len(sdEvents)

-----------------------------------------------------------------------------
(* The inductive invariant *)

EvtType == {e \in [id : EventId, val : Interval \cup {"on", "off", "none"}, conn : 0..MaxConn] :
              /\ Parameters(e) => e.val \in Interval
              /\ e.id = "WRITE" => e.val \in {"on", "off"}}

SdTypes == /\ link \in {"idle", "adv", "conn", "closing"}
           /\ interval \in Interval /\ updating \in BOOLEAN /\ swi2 \in BOOLEAN
           /\ conn \in 0..MaxConn
           /\ sdEvents \in Seq(EvtType) /\ Len(sdEvents) <= MaxSdEvents

CpTypes == /\ cpHandle \in BOOLEAN /\ changeParam \in BOOLEAN /\ cpConn \in 0..MaxConn
           /\ updateCount \in 0..MaxUpdateCount /\ sent \in 0..MaxUpdateCount + 2
           /\ currentParams \in Interval \cup {"none"} /\ preferred \in Interval
           /\ timer \in [running : BOOLEAN, conn : 0..MaxConn]

AppTypes == /\ appHandle \in BOOLEAN /\ advLed \in BOOLEAN /\ connLed \in BOOLEAN
            /\ powered \in BOOLEAN /\ usage \in Usages

QueueTypes == /\ queue \in Seq(SchedEvt) /\ Len(queue) <= SchedQueueSize
              /\ current \in SchedEvt \cup {NoEvt} /\ outcome \in {"SUCCESS", "NO_MEM"}

Types == SdTypes /\ CpTypes /\ AppTypes /\ QueueTypes

\* The events not yet pulled belong to one connection: its opening comes first,
\* its end last, and the link says which of them there are.
QueueShape ==
  /\ link = "adv" => sdEvents = <<>>
  /\ link = "idle" => sdEvents # <<>> /\ Closing(sdEvents[Len(sdEvents)])
  /\ \A i \in EvtIdx : /\ Opening(sdEvents[i]) => i = 1
                       /\ Closing(sdEvents[i]) => i = Len(sdEvents) /\ link = "idle"
                       /\ sdEvents[i].conn = conn
                       /\ sdEvents[i].id = "WRITE" => ~Firmware

\* What the application knows of the link is what was so before the first event
\* it has not pulled.
HandlesAgree ==
  /\ appHandle <=> IF sdEvents = <<>> THEN link \in Up ELSE ~Opening(sdEvents[1])
  /\ cpHandle = appHandle /\ connLed = appHandle /\ advLed = ~appHandle
  /\ appHandle => cpConn = conn

\* The interval of the link is the one the last event about it names, or the
\* one recorded if there is no such event.
ParamsAgree == link \in Up =>
  \/ currentParams = interval /\ \A i \in EvtIdx : ~Parameters(sdEvents[i])
  \/ \E i \in EvtIdx : /\ Parameters(sdEvents[i]) /\ sdEvents[i].val = interval
                       /\ \A j \in EvtIdx : j > i => ~Parameters(sdEvents[j])

Negotiating == Firmware /\ link = "conn" =>
  \/ interval = preferred \/ timer.running \/ updating
  \/ \E c \in 0..MaxConn : InHand(Expiry(c))
  \/ \E i \in EvtIdx : Parameters(sdEvents[i])

Counting == Firmware =>
  /\ ~changeParam
  /\ cpHandle /\ MaxUpdateCount + 1 < CountMod => sent = updateCount

\* m_update_count bounds the requests of a connection.
SentBounded == Firmware /\ MaxUpdateCount + 1 < CountMod => sent <= MaxUpdateCount

AliveInv == Alive => /\ QueueShape /\ HandlesAgree /\ ParamsAgree /\ Negotiating
                     /\ Counting /\ EventsAnnounced

IInv == Types /\ AliveInv /\ FailedAfterAllAttempts /\ AdvertisingNeverRefused /\ SentBounded

-----------------------------------------------------------------------------
(* Events in the SoftDevice's queue *)

\* An event more at the end.
LEMMA Pushed ==
  ASSUME sdEvents \in Seq(EvtType), NEW e \in EvtType, sdEvents' = Append(sdEvents, e)
  PROVE  /\ sdEvents' \in Seq(EvtType) /\ Len(sdEvents) \in Nat
         /\ Len(sdEvents') = Len(sdEvents) + 1 /\ sdEvents' # <<>>
         /\ \A i \in EvtIdx : sdEvents'[i] = sdEvents[i]
         /\ sdEvents'[Len(sdEvents) + 1] = e
         /\ (sdEvents = <<>> <=> Len(sdEvents) = 0)
BY DEF EvtIdx

\* An event less at the front.
LEMMA Popped ==
  ASSUME sdEvents \in Seq(EvtType), sdEvents # <<>>, sdEvents' = Tail(sdEvents)
  PROVE  /\ Head(sdEvents) = sdEvents[1] /\ sdEvents[1] \in EvtType
         /\ sdEvents' \in Seq(EvtType) /\ Len(sdEvents) \in Nat \ {0}
         /\ Len(sdEvents') = Len(sdEvents) - 1
         /\ \A i \in 1..(Len(sdEvents) - 1) : sdEvents'[i] = sdEvents[i + 1]
         /\ (sdEvents' = <<>> <=> Len(sdEvents) = 1)
<1>1. /\ Head(sdEvents) = sdEvents[1] /\ sdEvents[1] \in EvtType
      /\ Tail(sdEvents) \in Seq(EvtType) /\ Len(Tail(sdEvents)) = Len(sdEvents) - 1
      /\ \A i \in 1..(Len(sdEvents) - 1) : Tail(sdEvents)[i] = sdEvents[i + 1]
  OBVIOUS
<1>2. Len(sdEvents) \in Nat \ {0} OBVIOUS
<1>3. \A s \in Seq(EvtType) : s = <<>> <=> Len(s) = 0 OBVIOUS
<1>4. sdEvents' \in Seq(EvtType) BY <1>1
<1>5. sdEvents' = <<>> <=> Len(sdEvents') = 0 BY <1>3, <1>4
<1>6. QED BY <1>1, <1>2, <1>4, <1>5

\* The SoftDevice reports something that leaves the connection open.
LEMMA PushInside ==
  ASSUME Types, AliveInv, Alive, NEW e \in EvtType, sdEvents' = Append(sdEvents, e),
         Len(sdEvents) < MaxSdEvents, ~Opening(e), ~Closing(e), e.conn = conn,
         link \in Up, UNCHANGED <<link, conn, cpVars, fault, appVars, schedVars, usage>>,
         swi2' = TRUE, interval' \in Interval, updating' \in BOOLEAN,
         Parameters(e) => e.val = interval', e.id = "WRITE" => ~Firmware,
         ~Parameters(e) => UNCHANGED <<interval, updating>>
  PROVE  Types' /\ AliveInv'
<1>1. QueueShape /\ HandlesAgree /\ ParamsAgree /\ Negotiating /\ Counting
  BY DEF AliveInv
<1>2. /\ sdEvents' \in Seq(EvtType) /\ Len(sdEvents) \in Nat
      /\ Len(sdEvents') = Len(sdEvents) + 1 /\ sdEvents' # <<>>
      /\ \A i \in EvtIdx : sdEvents'[i] = sdEvents[i]
      /\ sdEvents'[Len(sdEvents) + 1] = e
      /\ (sdEvents = <<>> <=> Len(sdEvents) = 0)
  BY Pushed DEF Types, SdTypes
<1>3. EvtIdx = 1..Len(sdEvents) /\ EvtIdx' = 1..(Len(sdEvents) + 1) BY <1>2 DEF EvtIdx
<1>4. Types' BY <1>2 DEF Types, SdTypes, CpTypes, AppTypes, QueueTypes, cpVars, appVars, schedVars
<1>5. QueueShape' BY <1>1, <1>2, <1>3 DEF QueueShape, Up, Opening, Closing, Firmware
<1>6. HandlesAgree'
  <2>1. CASE sdEvents = <<>>
    <3>1. sdEvents'[1] = e BY <1>2, <2>1
    <3>2. QED BY <1>1, <1>2, <2>1, <3>1 DEF HandlesAgree, cpVars, appVars
  <2>2. CASE sdEvents # <<>>
    <3>1. sdEvents'[1] = sdEvents[1] BY <1>2, <1>3, <2>2
    <3>2. QED BY <1>1, <1>2, <2>2, <3>1 DEF HandlesAgree, cpVars, appVars, Opening
  <2>3. QED BY <2>1, <2>2
<1>7. ParamsAgree'
  <2>1. CASE Parameters(e)
    <3>1. Len(sdEvents) + 1 \in EvtIdx' BY <1>2, <1>3
    <3>2. \A j \in EvtIdx' : ~(j > Len(sdEvents) + 1) BY <1>2, <1>3
    <3>3. QED BY <1>2, <2>1, <3>1, <3>2 DEF ParamsAgree
  <2>2. CASE ~Parameters(e)
    BY <1>1, <1>2, <1>3, <2>2 DEF ParamsAgree, cpVars, Parameters
  <2>3. QED BY <2>1, <2>2
<1>8. Negotiating'
  <2>1. CASE Parameters(e)
    <3>1. Len(sdEvents) + 1 \in EvtIdx' BY <1>2, <1>3
    <3>2. QED BY <1>2, <2>1, <3>1 DEF Negotiating
  <2>2. CASE ~Parameters(e)
    BY <1>1, <1>2, <1>3, <2>2
    DEF Negotiating, cpVars, schedVars, Firmware, InHand, Parameters
  <2>3. QED BY <2>1, <2>2
<1>9. Counting' BY <1>1 DEF Counting, cpVars, Firmware
<1>10. QED BY <1>4, <1>5, <1>6, <1>7, <1>8, <1>9 DEF AliveInv, EventsAnnounced

\* The link goes down.
LEMMA PushClosing ==
  ASSUME Types, AliveInv, Alive, NEW e \in EvtType, sdEvents' = Append(sdEvents, e),
         Len(sdEvents) < MaxSdEvents, Closing(e), Opening(e) <=> link = "adv", e.conn = conn,
         link # "idle", link' = "idle",
         UNCHANGED <<conn, interval, cpVars, fault, appVars, schedVars, usage>>,
         swi2' = TRUE, updating' \in BOOLEAN
  PROVE  Types' /\ AliveInv'
<1>1. QueueShape /\ HandlesAgree /\ Counting
  BY DEF AliveInv
<1>2. /\ sdEvents' \in Seq(EvtType) /\ Len(sdEvents) \in Nat
      /\ Len(sdEvents') = Len(sdEvents) + 1 /\ sdEvents' # <<>>
      /\ \A i \in EvtIdx : sdEvents'[i] = sdEvents[i]
      /\ sdEvents'[Len(sdEvents) + 1] = e
      /\ (sdEvents = <<>> <=> Len(sdEvents) = 0)
  BY Pushed DEF Types, SdTypes
<1>3. EvtIdx = 1..Len(sdEvents) /\ EvtIdx' = 1..(Len(sdEvents) + 1) BY <1>2 DEF EvtIdx
<1>4. Types' BY <1>2 DEF Types, SdTypes, CpTypes, AppTypes, QueueTypes, cpVars, appVars, schedVars
<1>5. QueueShape' BY <1>1, <1>2, <1>3 DEF QueueShape, Opening, Closing, Firmware
<1>6. HandlesAgree'
  <2>1. CASE sdEvents = <<>>
    <3>1. sdEvents'[1] = e BY <1>2, <2>1
    <3>2. link \in Up <=> link # "adv" BY DEF Types, SdTypes, Up
    <3>3. QED BY <1>1, <1>2, <2>1, <3>1, <3>2 DEF HandlesAgree, cpVars, appVars
  <2>2. CASE sdEvents # <<>>
    <3>1. sdEvents'[1] = sdEvents[1] BY <1>2, <1>3, <2>2
    <3>2. QED BY <1>1, <1>2, <2>2, <3>1 DEF HandlesAgree, cpVars, appVars, Opening
  <2>3. QED BY <2>1, <2>2
<1>7. ParamsAgree' /\ Negotiating' BY DEF ParamsAgree, Negotiating, Up
<1>8. Counting' BY <1>1 DEF Counting, cpVars, Firmware
<1>9. QED BY <1>4, <1>5, <1>6, <1>7, <1>8 DEF AliveInv, EventsAnnounced

LEMMA SdNextInv ==
  ASSUME IInv, SdNext, UNCHANGED usage
  PROVE  IInv'
<1>1. Types /\ AliveInv /\ Alive BY DEF IInv, SdNext
<1>2. UNCHANGED <<cpVars, fault, appVars, schedVars, usage>> BY DEF SdNext
<1>3. FailedAfterAllAttempts' /\ AdvertisingNeverRefused' /\ SentBounded'
  BY <1>2 DEF IInv, FailedAfterAllAttempts, SentBounded, AdvertisingNeverRefused, Firmware, cpVars
<1> DEFINE Event(id, v) == [id |-> id, val |-> v, conn |-> conn']
<1>4. ASSUME NEW id \in EventId, NEW v \in Interval \cup {"on", "off", "none"},
             conn' \in 0..MaxConn, Parameters(Event(id, v)) => v \in Interval,
             id = "WRITE" => v \in {"on", "off"}
      PROVE  Event(id, v) \in EvtType
  BY <1>4 DEF EvtType
<1>5. link \in {"idle", "adv", "conn", "closing"} /\ conn \in 0..MaxConn /\ interval \in Interval
      /\ updating \in BOOLEAN
  BY <1>1 DEF Types, SdTypes
<1>6. CASE SdConnect
  <2>1. /\ link = "adv" /\ conn < MaxConn /\ link' = "conn" /\ conn' = conn + 1
        /\ interval' \in Interval /\ updating' = updating /\ swi2' = TRUE
        /\ Len(sdEvents) < MaxSdEvents /\ sdEvents' = Append(sdEvents, Event("CONNECTED", interval'))
    BY <1>6 DEF SdConnect, Emit
  <2>2. conn' \in 0..MaxConn BY <1>5, <2>1
  <2>3. Event("CONNECTED", interval') \in EvtType BY <1>4, <2>1, <2>2 DEF EventId, Parameters
  <2>4. sdEvents = <<>> /\ QueueShape /\ HandlesAgree /\ Counting
    BY <1>1, <2>1 DEF AliveInv, QueueShape
  <2> DEFINE e == Event("CONNECTED", interval')
  <2>5. e.id = "CONNECTED" /\ e.val = interval' /\ e.conn = conn' OBVIOUS
  <2> HIDE DEF e
  <2>6. sdEvents' \in Seq(EvtType) /\ Len(sdEvents') = 1 /\ sdEvents'[1] = e
    BY <1>1, <2>1, <2>3, <2>4, Pushed DEF e, Types, SdTypes
  <2>7. EvtIdx' = {1} /\ sdEvents' # <<>> BY <2>6 DEF EvtIdx
  <2>8. Types'
    BY <1>1, <1>2, <2>1, <2>2, <2>4, <2>6
    DEF Types, SdTypes, CpTypes, AppTypes, QueueTypes, cpVars, appVars, schedVars
  <2>9. QueueShape' BY <2>1, <2>5, <2>6, <2>7 DEF QueueShape, Opening, Closing
  <2>10. HandlesAgree'
    <3>1. ~appHandle BY <2>1, <2>4 DEF HandlesAgree, Up
    <3>2. QED BY <1>2, <2>4, <2>5, <2>6, <2>7, <3>1 DEF HandlesAgree, Opening, cpVars, appVars
  <2>11. ParamsAgree' BY <2>5, <2>6, <2>7 DEF ParamsAgree, Parameters
  <2>12. Negotiating' BY <2>5, <2>6, <2>7 DEF Negotiating, Parameters
  <2>13. Counting' BY <1>2, <2>4 DEF Counting, Firmware, cpVars
  <2>14. QED
    BY <1>3, <2>1, <2>8, <2>9, <2>10, <2>11, <2>12, <2>13 DEF IInv, AliveInv, EventsAnnounced
<1>7. CASE SdDisconnected
  <2>1. /\ link \in Up /\ link' = "idle" /\ updating' = FALSE /\ UNCHANGED <<interval, conn>>
        /\ swi2' = TRUE /\ Len(sdEvents) < MaxSdEvents
        /\ sdEvents' = Append(sdEvents, Event("DISCONNECTED", "none"))
    BY <1>7 DEF SdDisconnected, Emit, Up
  <2>2. Event("DISCONNECTED", "none") \in EvtType BY <1>4, <1>5, <2>1 DEF EventId, Parameters
  <2>3. /\ Closing(Event("DISCONNECTED", "none")) /\ ~Opening(Event("DISCONNECTED", "none"))
        /\ Event("DISCONNECTED", "none").conn = conn
    BY <2>1 DEF Closing, Opening
  <2>4. link # "adv" /\ link # "idle" BY <2>1 DEF Up
  <2> HIDE DEF Event
  <2>5. Types' /\ AliveInv' BY <1>1, <1>2, <2>1, <2>2, <2>3, <2>4, PushClosing
  <2>6. QED BY <1>3, <2>5 DEF IInv
<1>8. CASE SdAdvTimeout
  <2>1. /\ link = "adv" /\ link' = "idle" /\ UNCHANGED <<updating, interval, conn>>
        /\ swi2' = TRUE /\ Len(sdEvents) < MaxSdEvents
        /\ sdEvents' = Append(sdEvents, Event("ADV_TIMEOUT", "none"))
    BY <1>8 DEF SdAdvTimeout, Emit
  <2>2. Event("ADV_TIMEOUT", "none") \in EvtType BY <1>4, <1>5, <2>1 DEF EventId, Parameters
  <2>3. /\ Closing(Event("ADV_TIMEOUT", "none")) /\ Opening(Event("ADV_TIMEOUT", "none"))
        /\ Event("ADV_TIMEOUT", "none").conn = conn
    BY <2>1 DEF Closing, Opening
  <2> HIDE DEF Event
  <2>4. Types' /\ AliveInv' BY <1>1, <1>2, <1>5, <2>1, <2>2, <2>3, PushClosing
  <2>5. QED BY <1>3, <2>4 DEF IInv
<1>9. CASE SdPeerUpdate \/ SdUpdateDone
  <2>1. /\ link \in Up /\ link' = link /\ interval' \in Interval /\ conn' = conn
        /\ updating' \in BOOLEAN
        /\ swi2' = TRUE /\ Len(sdEvents) < MaxSdEvents
        /\ sdEvents' = Append(sdEvents, Event("PARAM_UPDATE", interval'))
    BY <1>5, <1>9 DEF SdPeerUpdate, SdUpdateDone, Emit, Up
  <2>2. Event("PARAM_UPDATE", interval') \in EvtType BY <1>4, <1>5, <2>1 DEF EventId, Parameters
  <2>3. /\ ~Closing(Event("PARAM_UPDATE", interval')) /\ ~Opening(Event("PARAM_UPDATE", interval'))
        /\ Parameters(Event("PARAM_UPDATE", interval'))
        /\ Event("PARAM_UPDATE", interval').conn = conn
        /\ Event("PARAM_UPDATE", interval').val = interval'
        /\ Event("PARAM_UPDATE", interval').id # "WRITE"
    BY <2>1 DEF Closing, Opening, Parameters
  <2> HIDE DEF Event
  <2>4. Types' /\ AliveInv' BY <1>1, <1>2, <2>1, <2>2, <2>3, PushInside
  <2>5. QED BY <1>3, <2>4 DEF IInv
<1>10. CASE SdPeerRequest \/ (~Firmware /\ SdPeerWrite)
  <2>1. PICK id \in Request \cup {"WRITE"}, v \in {"on", "off", "none"} :
          /\ id = "WRITE" => v \in {"on", "off"} /\ ~Firmware
          /\ sdEvents' = Append(sdEvents, Event(id, v))
    BY <1>10 DEF SdNext, SdStep, SdPeerRequest, SdPeerWrite, Emit
  <2>2. /\ link \in Up /\ UNCHANGED <<link, interval, updating, conn>>
        /\ swi2' = TRUE /\ Len(sdEvents) < MaxSdEvents
    BY <1>10 DEF SdPeerRequest, SdPeerWrite, Emit, Up
  <2>3. id \in EventId /\ id \notin {"CONNECTED", "DISCONNECTED", "ADV_TIMEOUT", "PARAM_UPDATE"}
    BY <2>1 DEF EventId
  <2>4. /\ ~Closing(Event(id, v)) /\ ~Opening(Event(id, v)) /\ ~Parameters(Event(id, v))
        /\ Event(id, v).conn = conn
    BY <2>2, <2>3 DEF Closing, Opening, Parameters
  <2>5. Event(id, v) \in EvtType BY <1>4, <1>5, <2>1, <2>2, <2>3, <2>4
  <2>6. Event(id, v).id = "WRITE" => ~Firmware BY <2>1
  <2> HIDE DEF Event
  <2>7. Types' /\ AliveInv' BY <1>1, <1>2, <1>5, <2>1, <2>2, <2>4, <2>5, <2>6, PushInside
  <2>8. QED BY <1>3, <2>7 DEF IInv
<1>11. QED BY <1>6, <1>7, <1>8, <1>9, <1>10 DEF SdNext, SdStep

-----------------------------------------------------------------------------
(* The scheduler queue *)

LEMMA Kinds ==
  /\ BleEvt \in SchedEvt /\ NoEvt \notin SchedEvt
  /\ \A c \in 0..MaxConn : Expiry(c) \in SchedEvt /\ Expiry(c) # BleEvt
BY DEF BleEvt, Expiry, NoEvt, SchedEvt

\* A put that succeeds loses no entry; one that fails ends in a reset.
LEMMA PutKeeps ==
  ASSUME QueueTypes, NEW CONSTANT e \in SchedEvt, Put(e)
  PROVE  /\ QueueTypes' /\ AdvertisingNeverRefused'
         /\ Alive' => InHand(e)' /\ \A x \in SchedEvt : InHand(x) => InHand(x)'
<1>1. CASE Sched!Accept(e) /\ fault' = NoFault
  <2>1. /\ Len(queue) < SchedQueueSize /\ queue' = Append(queue, e)
        /\ outcome' = "SUCCESS" /\ current' = current
    BY <1>1 DEF Sched!Accept
  <2>2. /\ queue' \in Seq(SchedEvt) /\ Len(queue) \in Nat /\ Len(queue') = Len(queue) + 1
        /\ queue'[Len(queue) + 1] = e
        /\ \A i \in 1..Len(queue) : queue'[i] = queue[i]
    BY <2>1 DEF QueueTypes
  <2>3. QueueTypes' BY <2>1, <2>2 DEF QueueTypes
  <2>4. InHand(e)' BY <2>2 DEF InHand
  <2>5. \A x \in SchedEvt : InHand(x) => InHand(x)' BY <2>1, <2>2 DEF InHand
  <2>6. AdvertisingNeverRefused' BY <1>1 DEF AdvertisingNeverRefused, NoFault, Fault
  <2>7. QED BY <2>3, <2>4, <2>5, <2>6
<1>2. CASE Sched!Refuse /\ ErrorCheck("app_sched_event_put", "NO_MEM")
  <2>1. QueueTypes' BY <1>2 DEF Sched!Refuse, QueueTypes
  <2>2. fault' = Fault("app_sched_event_put", "NO_MEM") BY <1>2 DEF ErrorCheck
  <2>3. ~Alive' /\ AdvertisingNeverRefused'
    BY <2>2 DEF Alive, AdvertisingNeverRefused, NoFault, Fault
  <2>4. QED BY <2>1, <2>3
<1>3. QED BY <1>1, <1>2 DEF Put

\* Taking an entry keeps it in hand.
LEMMA ServeKeeps ==
  ASSUME QueueTypes, Sched!Serve
  PROVE  QueueTypes' /\ \A x \in SchedEvt : InHand(x) => InHand(x)'
<1>1. /\ current = NoEvt /\ queue # <<>> /\ current' = Head(queue) /\ queue' = Tail(queue)
      /\ outcome' = outcome
  BY DEF Sched!Serve
<1>2. /\ Head(queue) = queue[1] /\ queue[1] \in SchedEvt /\ Len(queue) \in Nat \ {0}
      /\ queue' \in Seq(SchedEvt) /\ Len(queue') = Len(queue) - 1
      /\ \A i \in 1..(Len(queue) - 1) : queue'[i] = queue[i + 1]
  BY <1>1 DEF QueueTypes
<1>3. QueueTypes' BY <1>1, <1>2 DEF QueueTypes
<1>4. ASSUME NEW x \in SchedEvt, InHand(x) PROVE InHand(x)'
  <2>1. PICK i \in 1..Len(queue) : queue[i] = x BY <1>1, <1>4, Kinds DEF InHand
  <2>2. CASE i = 1 BY <1>1, <1>2, <2>1, <2>2 DEF InHand
  <2>3. CASE i # 1
    <3>1. i - 1 \in 1..Len(queue') /\ queue'[i - 1] = x BY <1>2, <2>1, <2>3
    <3>2. QED BY <3>1 DEF InHand
  <2>4. QED BY <2>2, <2>3
<1>5. QED BY <1>3, <1>4

\* The end of a handler keeps every other entry.
LEMMA FinishKeeps ==
  ASSUME QueueTypes, Sched!Finish
  PROVE  /\ QueueTypes'
         /\ \A x \in SchedEvt : InHand(x) /\ x # current => InHand(x)'
BY DEF QueueTypes, Sched!Finish, InHand

\* Steps that leave link, events and application alone keep what is known of
\* them, whatever they do to the scheduler queue and the timer.
LEMMA LinkAlone ==
  ASSUME AliveInv, Alive,
         UNCHANGED <<link, interval, updating, sdEvents, conn, cpHandle, updateCount,
                     currentParams, preferred, changeParam, cpConn, sent, appVars, usage>>
  PROVE  QueueShape' /\ HandlesAgree' /\ ParamsAgree' /\ Counting'
<1>1. QueueShape /\ HandlesAgree /\ ParamsAgree /\ Counting BY DEF AliveInv
<1>2. EvtIdx' = EvtIdx BY DEF EvtIdx
<1>3. QueueShape' BY <1>1, <1>2 DEF QueueShape, Firmware
<1>4. HandlesAgree' BY <1>1 DEF HandlesAgree, appVars
<1>5. ParamsAgree' BY <1>1, <1>2 DEF ParamsAgree
<1>6. Counting' BY <1>1 DEF Counting, Firmware
<1>7. QED BY <1>3, <1>4, <1>5, <1>6

LEMMA Swi2IrqInv ==
  ASSUME IInv, Swi2Irq, UNCHANGED usage
  PROVE  IInv'
<1>1. Types /\ AliveInv /\ Alive BY DEF IInv, Swi2Irq
<1>2. /\ UNCHANGED <<link, interval, updating, sdEvents, conn, cpVars, appVars>>
      /\ swi2' = FALSE /\ Put(BleEvt)
  BY DEF Swi2Irq
<1>3. /\ QueueTypes' /\ AdvertisingNeverRefused'
      /\ Alive' => InHand(BleEvt)' /\ \A x \in SchedEvt : InHand(x) => InHand(x)'
  BY <1>1, <1>2, Kinds, PutKeeps DEF Types
<1>4. Types'
  <2>1. SdTypes' BY <1>1, <1>2 DEF Types, SdTypes
  <2>2. CpTypes' BY <1>1, <1>2 DEF Types, CpTypes, cpVars
  <2>3. AppTypes' BY <1>1, <1>2 DEF Types, AppTypes, appVars
  <2>4. QED BY <1>3, <2>1, <2>2, <2>3 DEF Types
<1>5. FailedAfterAllAttempts' /\ SentBounded'
  BY <1>2 DEF IInv, FailedAfterAllAttempts, SentBounded, Firmware, cpVars
<1>6. QueueShape' /\ HandlesAgree' /\ ParamsAgree' /\ Counting'
  BY <1>1, <1>2, LinkAlone DEF cpVars
<1>7. ASSUME Alive' PROVE Negotiating' /\ EventsAnnounced'
  <2>1. Negotiating BY <1>1 DEF AliveInv
  <2>2. \A c \in 0..MaxConn : InHand(Expiry(c)) => InHand(Expiry(c))' BY <1>3, <1>7, Kinds
  <2>3. Negotiating' BY <1>2, <2>1, <2>2 DEF Negotiating, Firmware, EvtIdx, cpVars
  <2>4. QED BY <1>3, <1>7, <2>3 DEF EventsAnnounced
<1>8. QED BY <1>3, <1>4, <1>5, <1>6, <1>7 DEF IInv, AliveInv

LEMMA TimerExpiryInv ==
  ASSUME IInv, TimerExpiry, UNCHANGED usage
  PROVE  IInv'
<1>1. Types /\ AliveInv /\ Alive BY DEF IInv, TimerExpiry
<1>2. /\ UNCHANGED <<sdVars, appVars, cpHandle, updateCount, currentParams, preferred,
                     changeParam, cpConn, sent, last>>
      /\ timer' = NoTimer /\ Put(Expiry(timer.conn))
  BY DEF TimerExpiry
<1>3. PICK c \in 0..MaxConn : c = timer.conn BY <1>1 DEF Types, CpTypes
<1>4. Expiry(c) \in SchedEvt BY Kinds
<1>5. Put(Expiry(c)) BY <1>2, <1>3
<1>6. /\ QueueTypes' /\ AdvertisingNeverRefused'
      /\ Alive' => InHand(Expiry(c))' /\ \A x \in SchedEvt : InHand(x) => InHand(x)'
  BY <1>1, <1>4, <1>5, PutKeeps DEF Types
<1>7. Types'
  BY <1>1, <1>2, <1>6 DEF Types, SdTypes, CpTypes, AppTypes, sdVars, appVars, NoTimer
<1>8. FailedAfterAllAttempts' /\ SentBounded'
  BY <1>2 DEF IInv, FailedAfterAllAttempts, SentBounded, Firmware
<1>9. QueueShape' /\ HandlesAgree' /\ ParamsAgree' /\ Counting'
  BY <1>1, <1>2, LinkAlone DEF sdVars
<1>10. ASSUME Alive' PROVE Negotiating' /\ EventsAnnounced'
  <2>1. Negotiating' BY <1>6, <1>10 DEF Negotiating
  <2>2. InHand(BleEvt) => InHand(BleEvt)' BY <1>6, <1>10, Kinds
  <2>3. EventsAnnounced' BY <1>1, <1>2, <2>2 DEF EventsAnnounced, AliveInv, sdVars
  <2>4. QED BY <2>1, <2>3
<1>11. QED BY <1>6, <1>7, <1>8, <1>9, <1>10 DEF IInv, AliveInv

LEMMA ServeNextInv ==
  ASSUME IInv, ServeNext, UNCHANGED usage
  PROVE  IInv'
<1>1. Types /\ AliveInv /\ Alive BY DEF IInv, ServeNext
<1>2. UNCHANGED <<sdVars, cpVars, fault, appVars>> /\ Sched!Serve BY DEF ServeNext
<1>3. QueueTypes' /\ \A x \in SchedEvt : InHand(x) => InHand(x)'
  BY <1>1, <1>2, ServeKeeps DEF Types
<1>4. Types'
  BY <1>1, <1>2, <1>3 DEF Types, SdTypes, CpTypes, AppTypes, sdVars, cpVars, appVars
<1>5. FailedAfterAllAttempts' /\ AdvertisingNeverRefused' /\ SentBounded'
  BY <1>2 DEF IInv, FailedAfterAllAttempts, SentBounded, AdvertisingNeverRefused, Firmware, cpVars
<1>6. QueueShape' /\ HandlesAgree' /\ ParamsAgree' /\ Counting'
  BY <1>1, <1>2, LinkAlone DEF sdVars, cpVars
<1>7. \A c \in 0..MaxConn : InHand(Expiry(c)) => InHand(Expiry(c))' BY <1>3, Kinds
<1>8. Negotiating'
  BY <1>1, <1>2, <1>7 DEF AliveInv, Negotiating, Firmware, EvtIdx, sdVars, cpVars
<1>9. InHand(BleEvt) => InHand(BleEvt)' BY <1>3, Kinds
<1>10. EventsAnnounced' BY <1>1, <1>2, <1>9 DEF EventsAnnounced, AliveInv, sdVars
<1>11. QED BY <1>4, <1>5, <1>6, <1>8, <1>10 DEF IInv, AliveInv

LEMMA DrainDoneInv ==
  ASSUME IInv, DrainDone, UNCHANGED usage
  PROVE  IInv'
<1>1. Types /\ AliveInv /\ Alive BY DEF IInv, DrainDone
<1>2. /\ UNCHANGED <<sdVars, cpVars, fault, appVars>> /\ Sched!Finish
      /\ current = BleEvt /\ sdEvents = <<>>
  BY DEF DrainDone
<1>3. QueueTypes' /\ \A x \in SchedEvt : InHand(x) /\ x # current => InHand(x)'
  BY <1>1, <1>2, FinishKeeps DEF Types
<1>4. Types'
  BY <1>1, <1>2, <1>3 DEF Types, SdTypes, CpTypes, AppTypes, sdVars, cpVars, appVars
<1>5. FailedAfterAllAttempts' /\ AdvertisingNeverRefused' /\ SentBounded'
  BY <1>2 DEF IInv, FailedAfterAllAttempts, SentBounded, AdvertisingNeverRefused, Firmware, cpVars
<1>6. QueueShape' /\ HandlesAgree' /\ ParamsAgree' /\ Counting'
  BY <1>1, <1>2, LinkAlone DEF sdVars, cpVars
<1>7. \A c \in 0..MaxConn : InHand(Expiry(c)) => InHand(Expiry(c))' BY <1>2, <1>3, Kinds
<1>8. Negotiating'
  BY <1>1, <1>2, <1>7 DEF AliveInv, Negotiating, Firmware, EvtIdx, sdVars, cpVars
<1>9. EventsAnnounced' BY <1>2 DEF EventsAnnounced, sdVars
<1>10. QED BY <1>4, <1>5, <1>6, <1>8, <1>9 DEF IInv, AliveInv

-----------------------------------------------------------------------------
(* Pulled events *)

\* Pulling an event that does not end the connection, with a handler that
\* records what the event says and keeps a negotiation going.
LEMMA PopInside ==
  ASSUME Types, AliveInv, Alive, sdEvents # <<>>, sdEvents' = Tail(sdEvents),
         ~Closing(sdEvents[1]), current = BleEvt,
         UNCHANGED <<interval, conn, schedVars, usage>>,
         link' = link \/ (link' = "closing" /\ link = "conn"),
         appHandle' = TRUE, cpHandle' = TRUE, connLed' = TRUE, advLed' = FALSE, cpConn' = conn,
         currentParams' = IF Parameters(sdEvents[1]) THEN sdEvents[1].val ELSE currentParams,
         Firmware /\ Alive' => \/ UNCHANGED <<timer, preferred, updating>>
                               \/ currentParams' = preferred' \/ timer'.running,
         Firmware /\ Alive' /\ Parameters(sdEvents[1]) =>
           currentParams' = preferred' \/ timer'.running
  PROVE  /\ QueueShape' /\ HandlesAgree' /\ ParamsAgree' /\ EventsAnnounced'
         /\ Alive' => Negotiating'
<1>1. QueueShape /\ HandlesAgree /\ ParamsAgree /\ Negotiating BY DEF AliveInv
<1>2. /\ sdEvents[1] \in EvtType /\ sdEvents' \in Seq(EvtType) /\ Len(sdEvents) \in Nat \ {0}
      /\ Len(sdEvents') = Len(sdEvents) - 1
      /\ \A i \in 1..(Len(sdEvents) - 1) : sdEvents'[i] = sdEvents[i + 1]
      /\ (sdEvents' = <<>> <=> Len(sdEvents) = 1)
  BY Popped DEF Types, SdTypes
<1>3. EvtIdx = 1..Len(sdEvents) /\ EvtIdx' = 1..(Len(sdEvents) - 1) BY <1>2 DEF EvtIdx
<1>4. link' = "idle" <=> link = "idle" OBVIOUS
<1>5. link # "adv" /\ link' # "adv" BY <1>1 DEF QueueShape
<1>6. \A i \in EvtIdx' : sdEvents'[i] = sdEvents[i + 1] /\ i + 1 \in EvtIdx BY <1>2, <1>3
<1>7. QueueShape'
  <2>1. link' = "idle" => sdEvents' # <<>> /\ Closing(sdEvents'[Len(sdEvents')])
    <3>1. SUFFICES ASSUME link = "idle"
                   PROVE  sdEvents' # <<>> /\ Closing(sdEvents'[Len(sdEvents')])
      BY <1>4
    <3>2. Closing(sdEvents[Len(sdEvents)]) BY <1>1, <3>1 DEF QueueShape
    <3>3. Len(sdEvents) # 1 BY <3>2
    <3>4. sdEvents'[Len(sdEvents')] = sdEvents[Len(sdEvents)] BY <1>2, <3>3
    <3>5. QED BY <1>2, <3>2, <3>3, <3>4
  <2>2. \A i \in EvtIdx' : /\ ~Opening(sdEvents'[i])
                           /\ Closing(sdEvents'[i]) => i = Len(sdEvents') /\ link' = "idle"
                           /\ sdEvents'[i].conn = conn'
                           /\ sdEvents'[i].id = "WRITE" => ~Firmware'
    <3>1. TAKE i \in EvtIdx'
    <3>2. sdEvents'[i] = sdEvents[i + 1] /\ i + 1 \in EvtIdx BY <1>6
    <3>3. /\ Opening(sdEvents[i + 1]) => i + 1 = 1
          /\ Closing(sdEvents[i + 1]) => i + 1 = Len(sdEvents) /\ link = "idle"
          /\ sdEvents[i + 1].conn = conn
          /\ sdEvents[i + 1].id = "WRITE" => ~Firmware
      BY <1>1, <3>2 DEF QueueShape
    <3>4. i \in Nat \ {0} /\ (i + 1 = Len(sdEvents) <=> i = Len(sdEvents'))
      BY <1>2, <1>3
    <3>5. i + 1 # 1 BY <3>4
    <3>6. conn' = conn /\ (Firmware' <=> Firmware) BY DEF Firmware
    <3>7. ~Opening(sdEvents'[i]) BY <3>2, <3>3, <3>5 DEF Opening
    <3>8. Closing(sdEvents'[i]) => i = Len(sdEvents') /\ link' = "idle"
      BY <1>4, <3>2, <3>3, <3>4 DEF Closing
    <3>9. sdEvents'[i].conn = conn' /\ (sdEvents'[i].id = "WRITE" => ~Firmware')
      BY <3>2, <3>3, <3>6
    <3>10. QED BY <3>7, <3>8, <3>9
  <2>3. QED BY <1>5, <2>1, <2>2 DEF QueueShape
<1>8. HandlesAgree'
  <2>1. CASE sdEvents' = <<>>
    <3>1. link # "idle"
      <4>1. Len(sdEvents) = 1 BY <1>2, <2>1
      <4>2. QED BY <1>1, <4>1 DEF QueueShape
    <3>2. link' \in Up BY <1>4, <1>5, <3>1 DEF Up, Types, SdTypes
    <3>3. QED BY <2>1, <3>2 DEF HandlesAgree
  <2>2. CASE sdEvents' # <<>>
    <3>1. 1 \in EvtIdx' BY <1>2, <1>3, <2>2
    <3>2. PICK i \in EvtIdx' : i = 1 BY <3>1
    <3>3. sdEvents'[i] = sdEvents[i + 1] /\ i + 1 \in EvtIdx BY <1>6
    <3>4. i + 1 # 1 BY <3>2
    <3>5. ~Opening(sdEvents'[i]) BY <1>1, <3>3, <3>4 DEF QueueShape, Opening
    <3>6. QED BY <2>2, <3>2, <3>5 DEF HandlesAgree
  <2>3. QED BY <2>1, <2>2
<1>9. ParamsAgree'
  <2>1. SUFFICES ASSUME link \in Up
                 PROVE  \/ currentParams' = interval /\ \A i \in EvtIdx' : ~Parameters(sdEvents'[i])
                        \/ \E i \in EvtIdx' :
                             /\ Parameters(sdEvents'[i]) /\ sdEvents'[i].val = interval
                             /\ \A j \in EvtIdx' : j > i => ~Parameters(sdEvents'[j])
    BY DEF ParamsAgree, Up
  <2>2. CASE currentParams = interval /\ \A i \in EvtIdx : ~Parameters(sdEvents[i])
    BY <1>2, <1>3, <1>6, <2>2
  <2>3. ASSUME NEW i \in EvtIdx, Parameters(sdEvents[i]), sdEvents[i].val = interval,
               \A j \in EvtIdx : j > i => ~Parameters(sdEvents[j])
        PROVE  \/ currentParams' = interval /\ \A k \in EvtIdx' : ~Parameters(sdEvents'[k])
               \/ \E k \in EvtIdx' :
                             /\ Parameters(sdEvents'[k]) /\ sdEvents'[k].val = interval
                             /\ \A j \in EvtIdx' : j > k => ~Parameters(sdEvents'[j])
    <3>1. CASE i = 1
      <4>1. currentParams' = interval BY <2>3, <3>1
      <4>2. \A k \in EvtIdx' : ~Parameters(sdEvents'[k]) BY <1>2, <1>3, <1>6, <2>3, <3>1
      <4>3. QED BY <4>1, <4>2
    <3>2. CASE i # 1
      <4>1. i - 1 \in EvtIdx' /\ sdEvents'[i - 1] = sdEvents[i] BY <1>2, <1>3, <3>2
      <4>2. \A j \in EvtIdx' : j > i - 1 => ~Parameters(sdEvents'[j])
        BY <1>2, <1>3, <1>6, <2>3
      <4>3. QED BY <2>3, <4>1, <4>2
    <3>3. QED BY <3>1, <3>2
  <2>4. QED BY <1>1, <2>1, <2>2, <2>3 DEF ParamsAgree
<1>10. ASSUME Alive' PROVE Negotiating'
  <2>1. SUFFICES ASSUME Firmware, link' = "conn"
                 PROVE  \/ interval = preferred' \/ timer'.running \/ updating'
                        \/ \E c \in 0..MaxConn : InHand(Expiry(c))'
                        \/ \E i \in EvtIdx' : Parameters(sdEvents'[i])
    BY DEF Negotiating, Firmware
  <2>2. link = "conn" /\ link' \in Up BY <2>1 DEF Up
  <2>3. CASE currentParams' = preferred' \/ timer'.running
    <3>1. CASE timer'.running BY <3>1
    <3>2. CASE currentParams' = preferred' /\ currentParams' = interval BY <3>2
    <3>3. CASE currentParams' # interval BY <1>9, <2>2, <3>3 DEF ParamsAgree
    <3>4. QED BY <2>3, <3>1, <3>2, <3>3
  <2>4. CASE UNCHANGED <<timer, preferred, updating>> /\ ~Parameters(sdEvents[1])
    <3>1. \A x \in SchedEvt : InHand(x) => InHand(x)' BY DEF InHand, schedVars
    <3>2. \A c \in 0..MaxConn : InHand(Expiry(c)) => InHand(Expiry(c))' BY <3>1, Kinds
    <3>3. ASSUME NEW i \in EvtIdx, Parameters(sdEvents[i])
          PROVE  \E k \in EvtIdx' : Parameters(sdEvents'[k])
      <4>1. i # 1 BY <2>4, <3>3
      <4>2. i - 1 \in EvtIdx' /\ sdEvents'[i - 1] = sdEvents[i] BY <1>2, <1>3, <4>1
      <4>3. QED BY <3>3, <4>2
    <3>4. QED BY <1>1, <2>1, <2>2, <2>4, <3>2, <3>3 DEF Negotiating
  <2>5. QED BY <1>10, <2>1, <2>3, <2>4
<1>11. EventsAnnounced' BY DEF EventsAnnounced, InHand, schedVars
<1>12. QED BY <1>7, <1>8, <1>9, <1>10, <1>11

\* A stopped timer is a timer.
LEMMA TimerTypes == NoTimer \in [running : BOOLEAN, conn : 0..MaxConn]
BY DEF NoTimer

\* What ConnParamsNegotiation leaves behind.
LEMMA NegotiationStep ==
  ASSUME Types, ConnParamsNegotiation, cpConn' \in 0..MaxConn
  PROVE  /\ link' = link \/ (link = "conn" /\ link' = "closing")
         /\ updating' = updating /\ ~changeParam' /\ changeParam' \in BOOLEAN
         /\ timer' \in [running : BOOLEAN, conn : 0..MaxConn]
         /\ AdvertisingNeverRefused'
         /\ Firmware /\ ~changeParam => last' = last \/ last'.what = "SUCCEEDED"
         /\ Firmware /\ ~changeParam /\ Alive' => currentParams' = preferred' \/ timer'.running
<1>1. changeParam' = FALSE BY DEF ConnParamsNegotiation
<1>2. timer \in [running : BOOLEAN, conn : 0..MaxConn] BY DEF Types, CpTypes
<1>3. CASE IsConnParamsOk(currentParams') /\ NotifySucceeded /\ UNCHANGED timer
  <2>1. currentParams' = preferred' /\ UNCHANGED <<link, updating>> /\ fault' = NoFault
        /\ last'.what = "SUCCEEDED"
    BY <1>3 DEF IsConnParamsOk, NotifySucceeded, Log
  <2>2. QED BY <1>1, <1>2, <1>3, <2>1 DEF AdvertisingNeverRefused, NoFault, Fault
<1>4. CASE changeParam /\ NotifyFailed(0) /\ UNCHANGED timer
  <2>1. PICK res \in Result : SdDisconnect(res) /\ ErrorCheck("disconnect", res)
    BY <1>4 DEF NotifyFailed
  <2>2. /\ link' = link \/ (link = "conn" /\ link' = "closing")
        /\ updating' = updating
    BY <2>1 DEF SdDisconnect
  <2>3. AdvertisingNeverRefused'
    BY <2>1 DEF ErrorCheck, AdvertisingNeverRefused, NoFault, Fault
  <2>4. QED BY <1>1, <1>2, <1>4, <2>2, <2>3
<1>5. CASE ~changeParam /\ TimerStart /\ UNCHANGED <<link, updating, last>>
  <2>1. PICK res \in TimerResult :
          /\ timer' = IF timer.running \/ res # "SUCCESS" THEN timer
                      ELSE [running |-> TRUE, conn |-> cpConn']
          /\ ErrorCheck("app_timer_start", res)
    BY <1>5 DEF TimerStart
  <2>2. timer' \in [running : BOOLEAN, conn : 0..MaxConn] BY <1>2, <2>1
  <2>3. AdvertisingNeverRefused'
    BY <2>1 DEF ErrorCheck, AdvertisingNeverRefused, NoFault, Fault
  <2>4. ASSUME Alive' PROVE timer'.running
    <3>1. res = "SUCCESS" BY <2>1, <2>4 DEF Alive, ErrorCheck, NoFault, Fault
    <3>2. QED BY <2>1, <3>1
  <2>5. QED BY <1>1, <1>5, <2>2, <2>3, <2>4
<1>6. QED BY <1>3, <1>4, <1>5 DEF ConnParamsNegotiation

\* An event is pulled and its handler runs.
LEMMA DispatchEventInv ==
  ASSUME IInv, DispatchEvent, UNCHANGED usage
  PROVE  IInv'
<1>1. Types /\ AliveInv /\ Alive /\ QueueShape /\ HandlesAgree /\ Counting
  BY DEF IInv, DispatchEvent, AliveInv
<1>2. /\ current = BleEvt /\ sdEvents # <<>> /\ sdEvents' = Tail(sdEvents)
      /\ UNCHANGED <<interval, swi2, conn, schedVars>>
  BY DEF DispatchEvent
<1>3. /\ Head(sdEvents) = sdEvents[1] /\ sdEvents[1] \in EvtType /\ sdEvents' \in Seq(EvtType)
      /\ Len(sdEvents) \in Nat \ {0} /\ Len(sdEvents') = Len(sdEvents) - 1
      /\ (sdEvents' = <<>> <=> Len(sdEvents) = 1)
  BY <1>1, <1>2, Popped DEF Types, SdTypes
<1> DEFINE e == sdEvents[1]
<1>4. HandleEvent(e) BY <1>3 DEF DispatchEvent
<1>5. e.id \in EventId /\ e.conn = conn /\ conn \in 0..MaxConn
      /\ (Opening(e) \/ appHandle)
  <2>1. 1 \in EvtIdx BY <1>3 DEF EvtIdx
  <2>2. e.id \in EventId /\ conn \in 0..MaxConn BY <1>1, <1>3 DEF EvtType, Types, SdTypes
  <2>3. e.conn = conn BY <1>1, <2>1 DEF QueueShape
  <2>4. Opening(e) \/ appHandle BY <1>1, <1>2 DEF HandlesAgree
  <2>5. QED BY <2>2, <2>3, <2>4
<1>6. \/ e.id = "CONNECTED" \/ e.id = "DISCONNECTED" \/ e.id = "ADV_TIMEOUT"
      \/ e.id = "PARAM_UPDATE" \/ e.id = "WRITE" \/ e.id \in Request
  BY <1>5 DEF EventId
<1>7. /\ Parameters(e) => e.val \in Interval
      /\ e.id = "WRITE" => e.val \in {"on", "off"}
  BY <1>3 DEF EvtType
<1>8. Closing(e) => link = "idle" /\ sdEvents' = <<>>
  <2>1. 1 \in EvtIdx BY <1>3 DEF EvtIdx
  <2>2. Closing(e) => 1 = Len(sdEvents) /\ link = "idle" BY <1>1, <2>1 DEF QueueShape
  <2>3. QED BY <1>3, <2>2
<1>9. e.id = "WRITE" => ~Firmware
  <2>1. 1 \in EvtIdx BY <1>3 DEF EvtIdx
  <2>2. QED BY <1>1, <2>1 DEF QueueShape
<1>10. QueueTypes' BY <1>1, <1>2 DEF Types, QueueTypes, schedVars
<1>11. ASSUME link' \in {"idle", "adv", "conn", "closing"}, updating' \in BOOLEAN
       PROVE  SdTypes'
  BY <1>1, <1>2, <1>3, <1>11 DEF Types, SdTypes
<1> HIDE DEF e
<1>12. CASE e.id = "CONNECTED"
  <2>1. /\ appHandle' = TRUE /\ connLed' = TRUE /\ advLed' = FALSE /\ powered' = powered
        /\ cpHandle' = TRUE /\ currentParams' = e.val /\ updateCount' = 0 /\ cpConn' = conn
        /\ sent' = 0 /\ preferred' = preferred
        /\ \/ ~Firmware /\ NoNegotiation /\ UNCHANGED timer
           \/ Firmware /\ ConnParamsNegotiation
    <3>1. HandleConnected(e) BY <1>4, <1>12 DEF HandleEvent, EventId
    <3>2. QED BY <1>5, <3>1 DEF HandleConnected, OnConnect
  <2>2. Parameters(e) /\ ~Closing(e) BY <1>12 DEF Parameters, Closing
  <2>3. /\ link' = link \/ (link = "conn" /\ link' = "closing")
        /\ updating' = updating /\ changeParam' \in BOOLEAN
        /\ timer' \in [running : BOOLEAN, conn : 0..MaxConn]
        /\ AdvertisingNeverRefused'
        /\ Firmware => ~changeParam' /\ (last' = last \/ last'.what = "SUCCEEDED")
        /\ Firmware /\ Alive' => currentParams' = preferred' \/ timer'.running
    <3>1. CASE ~Firmware /\ NoNegotiation /\ UNCHANGED timer
      BY <1>1, <3>1
      DEF NoNegotiation, Types, CpTypes, AdvertisingNeverRefused, NoFault, Fault
    <3>2. CASE Firmware /\ ConnParamsNegotiation
      BY <1>1, <1>5, <2>1, <3>2, NegotiationStep DEF Counting
    <3>3. QED BY <2>1, <3>1, <3>2
  <2>4. Types'
    <3>1. SdTypes' BY <1>1, <1>11, <2>3 DEF Types, SdTypes
    <3>2. CpTypes' BY <1>1, <1>5, <1>7, <2>1, <2>2, <2>3 DEF Types, CpTypes
    <3>3. AppTypes' BY <1>1, <2>1 DEF Types, AppTypes
    <3>4. QED BY <1>10, <3>1, <3>2, <3>3 DEF Types
  <2>5. FailedAfterAllAttempts' /\ SentBounded'
    BY <2>1, <2>3 DEF IInv, FailedAfterAllAttempts, SentBounded, Firmware
  <2>6. Counting' BY <2>1, <2>3 DEF Counting, Firmware
  <2>7. QueueShape' /\ HandlesAgree' /\ ParamsAgree' /\ EventsAnnounced' /\ (Alive' => Negotiating')
    BY <1>1, <1>2, <2>1, <2>2, <2>3, PopInside DEF e
  <2>8. QED BY <2>3, <2>4, <2>5, <2>6, <2>7 DEF IInv, AliveInv
<1>13. CASE e.id = "DISCONNECTED"
  <2>1. HandleDisconnected BY <1>4, <1>13, RequestAssumption DEF HandleEvent
  <2>2. link = "idle" /\ sdEvents' = <<>> BY <1>8, <1>13 DEF Closing
  <2>3. /\ appHandle' = FALSE /\ connLed' = FALSE /\ advLed' = TRUE /\ powered' = powered
        /\ SdAdvStart("SUCCESS") /\ OnDisconnect
    BY <2>1, <2>2 DEF HandleDisconnected, SdAdvStart
  <2>4. /\ link' = "adv" /\ updating' = updating
        /\ cpHandle' = FALSE /\ updateCount' = 0 /\ timer' \in {timer, NoTimer}
        /\ UNCHANGED <<currentParams, preferred, changeParam, cpConn, sent, last>>
        /\ \E res \in TimerResult : ErrorCheck("app_timer_stop", res)
    BY <2>3 DEF SdAdvStart, OnDisconnect, TimerStop
  <2>5. Types'
    <3>1. SdTypes' BY <1>1, <1>11, <2>4 DEF Types, SdTypes
    <3>2. CpTypes'
      <4>1. NoTimer \in [running : BOOLEAN, conn : 0..MaxConn] BY TimerTypes
      <4>2. CpTypes BY <1>1 DEF Types
      <4>3. /\ cpHandle' \in BOOLEAN /\ changeParam' \in BOOLEAN /\ cpConn' \in 0..MaxConn
            /\ sent' \in 0..MaxUpdateCount + 2
        BY <2>4, <4>2 DEF CpTypes
      <4>4. /\ currentParams' \in Interval \cup {"none"} /\ preferred' \in Interval
            /\ timer' \in [running : BOOLEAN, conn : 0..MaxConn]
        BY <2>4, <4>1, <4>2 DEF CpTypes
      <4>5. updateCount' \in 0..MaxUpdateCount BY <2>4
      <4>6. QED BY <4>3, <4>4, <4>5 DEF CpTypes
    <3>3. AppTypes' BY <1>1, <2>3 DEF Types, AppTypes
    <3>4. QED BY <1>10, <3>1, <3>2, <3>3 DEF Types
  <2>6. FailedAfterAllAttempts' /\ AdvertisingNeverRefused' /\ SentBounded'
    BY <2>4
    DEF IInv, FailedAfterAllAttempts, SentBounded, AdvertisingNeverRefused, Firmware,
        ErrorCheck, NoFault, Fault
  <2>7. EvtIdx' = {} BY <2>2 DEF EvtIdx
  <2>8. QueueShape' BY <2>2, <2>4, <2>7 DEF QueueShape
  <2>9. HandlesAgree' BY <2>2, <2>3, <2>4 DEF HandlesAgree, Up
  <2>10. ParamsAgree' /\ Negotiating' BY <2>4 DEF ParamsAgree, Negotiating, Up
  <2>11. Counting' BY <1>1, <2>4 DEF Counting, Firmware
  <2>12. EventsAnnounced' BY <2>2 DEF EventsAnnounced
  <2>13. QED BY <2>5, <2>6, <2>8, <2>9, <2>10, <2>11, <2>12 DEF IInv, AliveInv
<1>14. CASE e.id = "ADV_TIMEOUT"
  <2>1. HandleAdvTimeout BY <1>4, <1>14, RequestAssumption DEF HandleEvent
  <2>2. /\ advLed' = FALSE /\ powered' = FALSE /\ fault' = NoFault
        /\ UNCHANGED <<appHandle, connLed, cpVars, link, updating>>
    BY <2>1 DEF HandleAdvTimeout
  <2>3. Types'
    BY <1>1, <1>10, <1>11, <2>2 DEF Types, SdTypes, CpTypes, AppTypes, cpVars
  <2>4. FailedAfterAllAttempts' /\ AdvertisingNeverRefused' /\ SentBounded'
    BY <2>2
    DEF IInv, FailedAfterAllAttempts, SentBounded,
        AdvertisingNeverRefused, Firmware, NoFault, Fault, cpVars
  <2>5. ~Alive' BY <2>2 DEF Alive
  <2>6. QED BY <2>3, <2>4, <2>5 DEF IInv, AliveInv
<1>15. CASE e.id = "PARAM_UPDATE" \/ e.id = "WRITE"
  <2>1. /\ UNCHANGED appVars
        /\ UNCHANGED <<cpHandle, updateCount, preferred, cpConn, sent>>
        /\ currentParams' = IF Parameters(e) THEN e.val ELSE currentParams
        /\ \/ ConnParamsNegotiation
           \/ /\ ~Firmware /\ TimerStop
              /\ UNCHANGED <<link, updating, changeParam, last>>
    <3>1. CASE e.id = "PARAM_UPDATE"
      <4>1. OnConnParamsUpdate(e) /\ UNCHANGED appVars
        BY <1>4, <3>1, RequestAssumption DEF HandleEvent
      <4>2. QED BY <3>1, <4>1 DEF OnConnParamsUpdate, Parameters
    <3>2. CASE e.id = "WRITE"
      <4>1. OnWrite(e) /\ UNCHANGED appVars
        BY <1>4, <3>2, RequestAssumption DEF HandleEvent
      <4>2. QED BY <1>9, <3>2, <4>1 DEF OnWrite, Parameters
    <3>3. QED BY <1>15, <3>1, <3>2
  <2>2. ~Closing(e) /\ ~Opening(e) BY <1>15 DEF Closing, Opening
  <2>3. /\ appHandle' = TRUE /\ cpHandle' = TRUE /\ connLed' = TRUE /\ advLed' = FALSE
        /\ cpConn' = conn
    BY <1>1, <1>5, <2>1, <2>2 DEF HandlesAgree, appVars, Types, AppTypes, CpTypes
  <2>4. /\ link' = link \/ (link = "conn" /\ link' = "closing")
        /\ updating' = updating /\ changeParam' \in BOOLEAN
        /\ timer' \in [running : BOOLEAN, conn : 0..MaxConn]
        /\ AdvertisingNeverRefused'
        /\ Firmware => ~changeParam' /\ (last' = last \/ last'.what = "SUCCEEDED")
        /\ Firmware /\ Alive' => currentParams' = preferred' \/ timer'.running
    <3>1. CASE /\ ~Firmware /\ TimerStop
               /\ UNCHANGED <<link, updating, changeParam, last>>
      <4>1. /\ timer' \in {timer, NoTimer}
            /\ \E res \in TimerResult : ErrorCheck("app_timer_stop", res)
        BY <3>1 DEF TimerStop
      <4>2. AdvertisingNeverRefused'
        BY <4>1 DEF ErrorCheck, AdvertisingNeverRefused, NoFault, Fault
      <4>3. timer' \in [running : BOOLEAN, conn : 0..MaxConn]
        BY <1>1, <4>1, TimerTypes DEF Types, CpTypes
      <4>4. changeParam' \in BOOLEAN BY <1>1, <3>1 DEF Types, CpTypes
      <4>5. QED BY <3>1, <4>2, <4>3, <4>4
    <3>2. CASE ConnParamsNegotiation
      BY <1>1, <1>5, <2>3, <3>2, NegotiationStep DEF Counting
    <3>3. QED BY <2>1, <3>1, <3>2
  <2>5. currentParams' \in Interval \cup {"none"} BY <1>1, <1>7, <2>1 DEF Types, CpTypes
  <2>6. Types'
    BY <1>1, <1>5, <1>10, <1>11, <2>1, <2>3, <2>4, <2>5
    DEF Types, SdTypes, CpTypes, AppTypes, appVars
  <2>7. FailedAfterAllAttempts' /\ SentBounded'
    BY <2>1, <2>4 DEF IInv, FailedAfterAllAttempts, SentBounded, Firmware
  <2>8. Counting' BY <1>1, <2>1, <2>3, <2>4 DEF Counting, Firmware, HandlesAgree
  <2>9. QueueShape' /\ HandlesAgree' /\ ParamsAgree' /\ EventsAnnounced' /\ (Alive' => Negotiating')
    BY <1>1, <1>2, <2>1, <2>2, <2>3, <2>4, PopInside DEF e
  <2>10. QED BY <2>4, <2>6, <2>7, <2>8, <2>9 DEF IInv, AliveInv
<1>16. CASE e.id \in Request
  <2>1. HandleRequest(e) BY <1>4, <1>16, RequestAssumption DEF HandleEvent
  <2>2. PICK res \in Result : SdReply(e.conn, res) /\ ErrorCheck("reply", res)
    BY <2>1 DEF HandleRequest
  <2>3. UNCHANGED <<appVars, cpVars, link, updating>>
    BY <2>1, <2>2 DEF HandleRequest, SdReply
  <2>4. ~Closing(e) /\ ~Opening(e) /\ ~Parameters(e)
    BY <1>16, RequestAssumption DEF Closing, Opening, Parameters
  <2>5. Types'
    BY <1>1, <1>10, <1>11, <2>3 DEF Types, SdTypes, CpTypes, AppTypes, cpVars, appVars
  <2>6. FailedAfterAllAttempts' /\ SentBounded'
    BY <2>3 DEF IInv, FailedAfterAllAttempts, SentBounded, Firmware, cpVars
  <2>7. AdvertisingNeverRefused'
    BY <2>2 DEF ErrorCheck, AdvertisingNeverRefused, NoFault, Fault
  <2>8. Counting' BY <1>1, <2>3 DEF Counting, Firmware, cpVars
  <2>9. /\ appHandle' = TRUE /\ cpHandle' = TRUE /\ connLed' = TRUE /\ advLed' = FALSE
        /\ cpConn' = conn /\ currentParams' = currentParams
        /\ UNCHANGED <<timer, preferred, updating, link>>
    BY <1>1, <1>5, <2>3, <2>4 DEF HandlesAgree, appVars, cpVars, Types, AppTypes, CpTypes
  <2>10. /\ QueueShape' /\ HandlesAgree' /\ ParamsAgree' /\ EventsAnnounced'
         /\ Alive' => Negotiating'
    BY <1>1, <1>2, <2>4, <2>9, PopInside DEF e
  <2>11. QED BY <2>5, <2>6, <2>7, <2>8, <2>10 DEF IInv, AliveInv
<1>17. QED BY <1>6, <1>12, <1>13, <1>14, <1>15, <1>16

-----------------------------------------------------------------------------
(* Timeouts, the application's calls, restarts *)

\* A step of the main loop that pulls no event and leaves the application's
\* view of the link alone; a disconnection may be requested.
LEMMA NothingPulled ==
  ASSUME AliveInv, Alive,
         UNCHANGED <<interval, sdEvents, conn, cpHandle, currentParams, cpConn, appVars, usage>>,
         link' = link \/ (link = "conn" /\ link' = "closing")
  PROVE  QueueShape' /\ HandlesAgree' /\ ParamsAgree'
<1>1. QueueShape /\ HandlesAgree /\ ParamsAgree BY DEF AliveInv
<1>2. EvtIdx' = EvtIdx BY DEF EvtIdx
<1>3. QueueShape' BY <1>1, <1>2 DEF QueueShape, Firmware
<1>4. link' \in Up <=> link \in Up BY DEF Up
<1>5. HandlesAgree' BY <1>1, <1>4 DEF HandlesAgree, appVars
<1>6. ParamsAgree' BY <1>1, <1>2, <1>4 DEF ParamsAgree
<1>7. QED BY <1>3, <1>5, <1>6

\* An update request: what it answers, what it counts.
LEMMA UpdateStep ==
  ASSUME Types, NEW res \in Result, SdConnParamUpdate(res), sent' = CountSent(res)
  PROVE  /\ link' = link /\ updating' \in BOOLEAN
         /\ sent' \in 0..MaxUpdateCount + 2
         /\ res = "SUCCESS" => updating'
         /\ res = "SUCCESS" /\ sent <= MaxUpdateCount => sent' = sent + 1
         /\ res # "SUCCESS" => sent' = sent
<1>1. sent \in 0..MaxUpdateCount + 2 /\ updating \in BOOLEAN BY DEF Types, SdTypes, CpTypes
<1>2. /\ sent' \in 0..MaxUpdateCount + 2
      /\ res = "SUCCESS" /\ sent <= MaxUpdateCount => sent' = sent + 1
      /\ res # "SUCCESS" => sent' = sent
  BY <1>1 DEF CountSent
<1>3. link' = link /\ updating' = (updating \/ res = "SUCCESS") BY DEF SdConnParamUpdate
<1>4. QED BY <1>1, <1>2, <1>3

LEMMA RunTimeoutInv ==
  ASSUME IInv, RunTimeout, UNCHANGED usage
  PROVE  IInv'
<1>1. Types /\ AliveInv /\ Alive /\ HandlesAgree /\ Counting /\ Negotiating /\ QueueShape
  BY DEF IInv, RunTimeout, AliveInv
<1>2. /\ current.kind = "timeout" /\ Sched!Finish
      /\ UpdateTimeoutHandler(current.conn)
      /\ UNCHANGED <<interval, sdEvents, swi2, conn, appVars>>
      /\ UNCHANGED <<cpHandle, currentParams, preferred, changeParam, timer, cpConn>>
  BY DEF RunTimeout, UpdateTimeoutHandler
<1> DEFINE count == (updateCount + 1) % CountMod
<1>3. count \in Nat /\ updateCount \in 0..MaxUpdateCount /\ sent \in 0..MaxUpdateCount + 2
      /\ (MaxUpdateCount + 1 < CountMod => count = updateCount + 1)
      /\ (AttemptsLeft(count) <=> count <= MaxUpdateCount)
      /\ (MaxUpdateCount + 1 >= CountMod => AttemptsLeft(count))
  BY <1>1 DEF Types, CpTypes, AttemptsLeft
<1> HIDE DEF count
<1>4. QueueTypes' /\ \A x \in SchedEvt : InHand(x) /\ x # current => InHand(x)'
  BY <1>1, <1>2, FinishKeeps DEF Types
<1>5. current # BleEvt BY <1>2 DEF BleEvt
<1>6. EventsAnnounced'
  BY <1>1, <1>2, <1>4, <1>5, Kinds DEF EventsAnnounced, AliveInv
<1>7. ASSUME link' = link \/ (link = "conn" /\ link' = "closing"), updating' \in BOOLEAN,
             updateCount' \in 0..MaxUpdateCount, sent' \in 0..MaxUpdateCount + 2
      PROVE  Types' /\ QueueShape' /\ HandlesAgree' /\ ParamsAgree'
  <2>1. SdTypes' BY <1>1, <1>2, <1>7 DEF Types, SdTypes
  <2>2. CpTypes' BY <1>1, <1>2, <1>7 DEF Types, CpTypes
  <2>3. AppTypes' BY <1>1, <1>2 DEF Types, AppTypes, appVars
  <2>4. Types' BY <1>4, <2>1, <2>2, <2>3 DEF Types
  <2>5. QED BY <1>1, <1>2, <1>7, <2>4, NothingPulled
<1>8. CASE ~cpHandle /\ fault' = NoFault
           /\ UNCHANGED <<updateCount, sent, last, link, updating>>
  <2>1. Types' /\ QueueShape' /\ HandlesAgree' /\ ParamsAgree'
    BY <1>1, <1>3, <1>7, <1>8 DEF Types, SdTypes
  <2>2. FailedAfterAllAttempts' /\ AdvertisingNeverRefused' /\ SentBounded'
    BY <1>8
    DEF IInv, FailedAfterAllAttempts, SentBounded, AdvertisingNeverRefused,
        Firmware, NoFault, Fault
  <2>3. Counting' BY <1>1, <1>2, <1>8 DEF Counting, Firmware
  <2>4. Negotiating'
    <3>1. SUFFICES ASSUME link = "conn" PROVE \E i \in EvtIdx' : Parameters(sdEvents'[i])
      BY <1>8 DEF Negotiating
    <3>2. ~appHandle BY <1>1, <1>8 DEF HandlesAgree
    <3>3. sdEvents # <<>> /\ Opening(sdEvents[1]) BY <1>1, <3>1, <3>2 DEF HandlesAgree, Up
    <3>4. 1 \in EvtIdx
      <4>1. sdEvents \in Seq(EvtType) BY <1>1 DEF Types, SdTypes
      <4>2. Len(sdEvents) \in Nat \ {0} BY <3>3, <4>1
      <4>3. QED BY <4>2 DEF EvtIdx
    <3>5. ~Closing(sdEvents[1]) BY <1>1, <3>1, <3>4 DEF QueueShape
    <3>6. Parameters(sdEvents[1]) BY <3>3, <3>5 DEF Opening, Closing, Parameters
    <3>7. QED BY <1>2, <3>4, <3>6 DEF EvtIdx
  <2>5. QED BY <1>6, <2>1, <2>2, <2>3, <2>4 DEF IInv, AliveInv
<1>9. CASE /\ cpHandle /\ AttemptsLeft(count) /\ updateCount' = count
           /\ \E res \in Result : /\ SdConnParamUpdate(res)
                                  /\ ErrorCheck("conn_param_update", res)
                                  /\ sent' = CountSent(res)
           /\ Log("UPDATE", current.conn)
  <2>1. PICK res \in Result : /\ SdConnParamUpdate(res)
                              /\ ErrorCheck("conn_param_update", res)
                              /\ sent' = CountSent(res)
    BY <1>9
  <2>2. /\ link' = link /\ updating' \in BOOLEAN /\ sent' \in 0..MaxUpdateCount + 2
        /\ res = "SUCCESS" => updating'
        /\ res = "SUCCESS" /\ sent <= MaxUpdateCount => sent' = sent + 1
        /\ res # "SUCCESS" => sent' = sent
    BY <1>1, <2>1, UpdateStep
  <2>3. updateCount' \in 0..MaxUpdateCount BY <1>3, <1>9
  <2>4. Types' /\ QueueShape' /\ HandlesAgree' /\ ParamsAgree' BY <1>7, <2>2, <2>3
  <2>5. last'.what = "UPDATE" BY <1>9 DEF Log
  <2>6. FailedAfterAllAttempts' /\ AdvertisingNeverRefused'
    BY <2>1, <2>5
    DEF FailedAfterAllAttempts, AdvertisingNeverRefused, ErrorCheck, NoFault, Fault
  <2>7. SentBounded'
    <3>1. SUFFICES ASSUME Firmware, MaxUpdateCount + 1 < CountMod
                   PROVE  sent' <= MaxUpdateCount
      BY DEF SentBounded, Firmware
    <3>2. sent = updateCount /\ count = updateCount + 1 /\ count <= MaxUpdateCount
      BY <1>1, <1>3, <1>9, <3>1 DEF Counting
    <3>3. QED BY <1>3, <2>2, <3>2
  <2>8. ASSUME Alive' PROVE Counting' /\ Negotiating'
    <3>1. res = "SUCCESS" BY <2>1, <2>8 DEF Alive, ErrorCheck, NoFault, Fault
    <3>2. Negotiating' BY <2>2, <3>1 DEF Negotiating
    <3>3. Counting' BY <1>1, <1>2, <1>3, <1>9, <2>2, <3>1 DEF Counting, Firmware
    <3>4. QED BY <3>2, <3>3
  <2>9. QED BY <1>6, <2>4, <2>6, <2>7, <2>8 DEF IInv, AliveInv
<1>10. CASE /\ cpHandle /\ ~AttemptsLeft(count) /\ updateCount' = 0
            /\ NotifyFailed(current.conn) /\ sent' = 0
  <2>1. PICK res \in Result : SdDisconnect(res) /\ ErrorCheck("disconnect", res)
    BY <1>10 DEF NotifyFailed
  <2>2. /\ link' = link \/ (link = "conn" /\ link' = "closing")
        /\ updating' = updating /\ (res = "SUCCESS" => link' # "conn")
    BY <2>1 DEF SdDisconnect
  <2>3. Types' /\ QueueShape' /\ HandlesAgree' /\ ParamsAgree'
    BY <1>1, <1>3, <1>7, <1>10, <2>2 DEF Types, SdTypes
  <2>4. AdvertisingNeverRefused'
    BY <2>1 DEF AdvertisingNeverRefused, ErrorCheck, NoFault, Fault
  <2>5. last'.sent = sent BY <1>10 DEF NotifyFailed, Log
  <2>6. Firmware => sent = MaxUpdateCount
    BY <1>1, <1>3, <1>10 DEF Counting
  <2>7. FailedAfterAllAttempts' /\ SentBounded'
    BY <1>10, <2>5, <2>6 DEF FailedAfterAllAttempts, SentBounded, Firmware
  <2>8. ASSUME Alive' PROVE Counting' /\ Negotiating'
    <3>1. res = "SUCCESS" BY <2>1, <2>8 DEF Alive, ErrorCheck, NoFault, Fault
    <3>2. Negotiating' BY <2>2, <3>1 DEF Negotiating
    <3>3. Counting' BY <1>1, <1>2, <1>10 DEF Counting, Firmware
    <3>4. QED BY <3>2, <3>3
  <2>9. QED BY <1>6, <2>3, <2>4, <2>7, <2>8 DEF IInv, AliveInv
<1>11. QED BY <1>2, <1>8, <1>9, <1>10 DEF UpdateTimeoutHandler, count

LEMMA AppRequestInv ==
  ASSUME IInv, AppRequest, UNCHANGED usage
  PROVE  IInv'
<1>1. Types /\ AliveInv /\ Alive /\ ~Firmware /\ ~Firmware'
  BY DEF IInv, AppRequest, Firmware
<1>2. UNCHANGED <<interval, sdEvents, swi2, conn, appVars, schedVars>> BY DEF AppRequest
<1>3. /\ UNCHANGED <<cpHandle, currentParams, cpConn>>
      /\ link' = link /\ updating' \in BOOLEAN /\ changeParam' \in BOOLEAN
      /\ updateCount' \in 0..MaxUpdateCount /\ sent' \in 0..MaxUpdateCount + 2
      /\ preferred' \in Interval /\ timer' \in [running : BOOLEAN, conn : 0..MaxConn]
      /\ fault' = NoFault
  <2>1. /\ updating \in BOOLEAN /\ changeParam \in BOOLEAN /\ preferred \in Interval
        /\ updateCount \in 0..MaxUpdateCount /\ sent \in 0..MaxUpdateCount + 2
        /\ timer \in [running : BOOLEAN, conn : 0..MaxConn]
    BY <1>1 DEF Types, SdTypes, CpTypes
  <2>2. CASE Stop
    <3>1. /\ timer' \in {timer, NoTimer} /\ fault' = NoFault
          /\ UNCHANGED <<cpHandle, updateCount, currentParams, preferred, changeParam,
                         cpConn, sent, last, link, updating>>
      BY <2>2 DEF Stop
    <3>2. timer' \in [running : BOOLEAN, conn : 0..MaxConn] BY <2>1, <3>1, TimerTypes
    <3>3. QED BY <2>1, <3>1, <3>2
  <2>3. ASSUME NEW p \in Interval, ChangeConnParams(p)
        PROVE  /\ UNCHANGED <<cpHandle, currentParams, cpConn>>
               /\ link' = link /\ updating' \in BOOLEAN /\ changeParam' \in BOOLEAN
               /\ updateCount' \in 0..MaxUpdateCount /\ sent' \in 0..MaxUpdateCount + 2
               /\ preferred' \in Interval
               /\ timer' \in [running : BOOLEAN, conn : 0..MaxConn]
               /\ fault' = NoFault
    <3>1. /\ preferred' = p /\ fault' = NoFault
          /\ UNCHANGED <<cpHandle, currentParams, timer, cpConn>>
      BY <2>3 DEF ChangeConnParams
    <3>2. CASE /\ changeParam' = TRUE /\ updateCount' = 1
               /\ \/ /\ cpHandle
                     /\ \E res \in Result : /\ SdConnParamUpdate(res)
                                            /\ sent' = CountSent(res)
                  \/ ~cpHandle /\ UNCHANGED <<link, updating, sent>>
      <4>1. link' = link /\ updating' \in BOOLEAN /\ sent' \in 0..MaxUpdateCount + 2
        BY <1>1, <2>1, <3>2, UpdateStep
      <4>2. 1 \in 0..MaxUpdateCount BY CountAssumption
      <4>3. QED BY <2>1, <3>1, <3>2, <4>1, <4>2
    <3>3. CASE NotifySucceeded /\ UNCHANGED <<changeParam, updateCount, sent>>
      BY <2>1, <3>1, <3>3 DEF NotifySucceeded
    <3>4. CASE UNCHANGED <<changeParam, updateCount, sent, last, link, updating>>
      BY <2>1, <3>1, <3>4
    <3>5. QED BY <2>3, <3>2, <3>3, <3>4 DEF ChangeConnParams
  <2>4. QED BY <2>2, <2>3 DEF AppRequest
<1>4. Types'
  <2>1. SdTypes' BY <1>1, <1>2, <1>3 DEF Types, SdTypes
  <2>2. CpTypes' BY <1>1, <1>3 DEF Types, CpTypes
  <2>3. AppTypes' BY <1>1, <1>2 DEF Types, AppTypes, appVars
  <2>4. QueueTypes' BY <1>1, <1>2 DEF Types, QueueTypes, schedVars
  <2>5. QED BY <2>1, <2>2, <2>3, <2>4 DEF Types
<1>5. FailedAfterAllAttempts' /\ AdvertisingNeverRefused' /\ SentBounded'
  BY <1>1, <1>3 DEF FailedAfterAllAttempts, SentBounded, AdvertisingNeverRefused, NoFault, Fault
<1>6. QueueShape' /\ HandlesAgree' /\ ParamsAgree' BY <1>1, <1>2, <1>3, NothingPulled
<1>7. Negotiating' /\ Counting' BY <1>1 DEF Negotiating, Counting
<1>8. EventsAnnounced'
  BY <1>1, <1>2 DEF AliveInv, EventsAnnounced, InHand, schedVars
<1>9. QED BY <1>4, <1>5, <1>6, <1>7, <1>8 DEF IInv, AliveInv

\* The state in which the firmware starts, after a reset too.
Fresh == /\ link = "adv" /\ updating = FALSE /\ sdEvents = <<>> /\ swi2 = FALSE
         /\ interval \in Interval /\ conn \in 0..MaxConn /\ CpInit /\ fault = NoFault
         /\ appHandle = FALSE /\ advLed = TRUE /\ connLed = FALSE /\ powered = TRUE
         /\ queue = <<>> /\ current = NoEvt /\ outcome = "SUCCESS" /\ usage \in Usages

LEMMA FreshStart == Fresh => IInv
<1> SUFFICES ASSUME Fresh PROVE IInv OBVIOUS
<1> USE DEF Fresh
<1>1. sdEvents \in Seq(EvtType) /\ Len(sdEvents) = 0 /\ queue \in Seq(SchedEvt) /\ Len(queue) = 0
      /\ EvtIdx = {}
  BY DEF EvtIdx
<1>2. Types
  <2>1. Len(sdEvents) <= MaxSdEvents BY <1>1
  <2>2. SdTypes BY <1>1, <2>1 DEF SdTypes
  <2>3. NoTimer \in [running : BOOLEAN, conn : 0..MaxConn] BY DEF NoTimer
  <2>4. cpHandle \in BOOLEAN /\ changeParam \in BOOLEAN BY DEF CpInit
  <2>5. cpConn \in 0..MaxConn BY DEF CpInit
  <2>6. updateCount \in 0..MaxUpdateCount BY DEF CpInit
  <2>7. sent \in 0..MaxUpdateCount + 2 BY DEF CpInit
  <2>8. currentParams = "none" /\ preferred \in Interval /\ timer = NoTimer BY DEF CpInit
  <2>9. CpTypes BY <2>3, <2>4, <2>5, <2>6, <2>7, <2>8 DEF CpTypes
  <2>10. AppTypes BY DEF AppTypes
  <2>11. Len(queue) <= SchedQueueSize BY <1>1
  <2>12. QueueTypes BY <1>1, <2>11 DEF QueueTypes
  <2>13. QED BY <2>2, <2>9, <2>10, <2>12 DEF Types
<1>3. FailedAfterAllAttempts /\ AdvertisingNeverRefused /\ SentBounded
  BY DEF FailedAfterAllAttempts, SentBounded, AdvertisingNeverRefused, CpInit, NoLog, NoFault, Fault
<1>4. QueueShape BY <1>1 DEF QueueShape
<1>5. HandlesAgree /\ Counting BY DEF HandlesAgree, Counting, CpInit, Up
<1>6. ParamsAgree /\ Negotiating /\ EventsAnnounced
  BY DEF ParamsAgree, Negotiating, EventsAnnounced, Up
<1>7. QED BY <1>2, <1>3, <1>4, <1>5, <1>6 DEF IInv, AliveInv

LEMMA InitInv == ASSUME Init PROVE IInv
<1>1. 0 \in 0..MaxConn /\ Preferred \in Interval OBVIOUS
<1>2. QED BY <1>1, FreshStart DEF Fresh, Init, Sched!Init

\* The same state, one step later.
LEMMA RestartInv ==
  ASSUME IInv, Restart, UNCHANGED usage
  PROVE  IInv'
<1>1. Types BY DEF IInv
<1>2. interval' \in Interval /\ conn' \in 0..MaxConn /\ usage' \in Usages
  BY <1>1 DEF Types, SdTypes, AppTypes, Restart
<1>3. Fresh' BY <1>2 DEF Fresh, Restart, CpInit, CpReset
<1>4. QED BY <1>3, FreshStart, PTL

-----------------------------------------------------------------------------
(* Theorems *)

\* IInv holds in every reachable state: after every step of the SoftDevice and
\* its peer, of the two interrupts and of the main loop, and after a reset.
THEOREM Inductive == Spec => []IInv
<1>1. Init => IInv BY InitInv
<1>2. IInv /\ [Next]_vars => IInv'
  <2>1. SUFFICES ASSUME IInv, [Next]_vars PROVE IInv' OBVIOUS
  <2>2. CASE Next
    <3>1. UNCHANGED usage BY <2>2 DEF Next
    <3>2. CASE SdNext BY <2>1, <3>1, <3>2, SdNextInv
    <3>3. CASE Swi2Irq BY <2>1, <3>1, <3>3, Swi2IrqInv
    <3>4. CASE TimerExpiry BY <2>1, <3>1, <3>4, TimerExpiryInv
    <3>5. CASE ServeNext BY <2>1, <3>1, <3>5, ServeNextInv
    <3>6. CASE DispatchEvent BY <2>1, <3>1, <3>6, DispatchEventInv
    <3>7. CASE DrainDone BY <2>1, <3>1, <3>7, DrainDoneInv
    <3>8. CASE RunTimeout BY <2>1, <3>1, <3>8, RunTimeoutInv
    <3>9. CASE AppRequest BY <2>1, <3>1, <3>9, AppRequestInv
    <3>10. CASE Reset \/ WakeUp BY <2>1, <3>1, <3>10, RestartInv DEF Reset, WakeUp
    <3>11. QED
      BY <2>2, <3>2, <3>3, <3>4, <3>5, <3>6, <3>7, <3>8, <3>9, <3>10 DEF Next, Main
  <2>3. CASE UNCHANGED vars
    <3>1. UNCHANGED <<link, interval, updating, sdEvents, swi2, conn, cpHandle, updateCount,
                      currentParams, preferred, changeParam, timer, cpConn, sent, last, fault,
                      appHandle, advLed, connLed, powered, queue, current, outcome, usage>>
      BY <2>3 DEF vars, sdVars, cpVars, appVars, schedVars
    <3>2. Types'
      BY <2>1, <3>1 DEF IInv, Types, SdTypes, CpTypes, AppTypes, QueueTypes
    <3>3. FailedAfterAllAttempts' /\ AdvertisingNeverRefused' /\ SentBounded'
      BY <2>1, <3>1 DEF IInv, FailedAfterAllAttempts, SentBounded, AdvertisingNeverRefused, Firmware
    <3>4. AliveInv'
      BY <2>1, <3>1
      DEF IInv, AliveInv, Alive, QueueShape, HandlesAgree, ParamsAgree, Negotiating, Counting,
          EventsAnnounced, EvtIdx, InHand, Firmware
    <3>5. QED BY <3>2, <3>3, <3>4 DEF IInv
  <2>4. QED BY <2>1, <2>2, <2>3
<1>3. QED BY <1>1, <1>2, PTL DEF Spec

\* Every variable of the firmware and of the SoftDevice keeps its type: the two
\* queues within their bounds, and, in the firmware, no more update requests accepted
\* in a connection, up to a FAILED event, than max_conn_params_update_count.
THEOREM TypeCorrect == Spec => []TypeOK
<1>1. IInv => TypeOK
  <2>1. SUFFICES ASSUME Types, SentBounded PROVE TypeOK BY DEF IInv
  <2>2. \A i \in 1..Len(sdEvents) : sdEvents[i].id \in EventId
    <3>1. \A i \in 1..Len(sdEvents) : sdEvents[i] \in EvtType BY <2>1 DEF Types, SdTypes
    <3>2. QED BY <3>1 DEF EvtType
  <2>3. QED
    BY <2>1, <2>2 DEF TypeOK, Types, SdTypes, CpTypes, AppTypes, QueueTypes, SentBounded
<1>2. QED BY <1>1, Inductive, PTL

\* An event left in the SoftDevice by SWI2_IRQHandler's one drain per interrupt
\* never waits for a later interrupt.
THEOREM NoEventStranded == Spec => []EventsAnnounced
<1>1. IInv => EventsAnnounced BY DEF IInv, AliveInv, EventsAnnounced
<1>2. QED BY <1>1, Inductive, PTL

\* main.c's connection handle and LEDs and ble_conn_params.c's handle and
\* recorded interval agree with the link whenever no event waits.
THEOREM ModulesAgree == Spec => []QuietAgreement
<1>1. IInv => QuietAgreement
  <2>1. SUFFICES ASSUME IInv, Alive, sdEvents = <<>>
                 PROVE  /\ appHandle = (link \in {"conn", "closing"})
                        /\ cpHandle = appHandle /\ connLed = appHandle
                        /\ advLed = (link = "adv")
                        /\ appHandle => currentParams = interval /\ cpConn = conn
    BY DEF QuietAgreement
  <2>2. QueueShape /\ HandlesAgree /\ ParamsAgree /\ Types BY <2>1 DEF IInv, AliveInv
  <2>3. EvtIdx = {}  BY <2>1 DEF EvtIdx
  <2>4. appHandle <=> link \in Up BY <2>1, <2>2 DEF HandlesAgree
  <2>5. link # "idle" BY <2>1, <2>2 DEF QueueShape
  <2>6. link = "adv" <=> link \notin Up BY <2>2, <2>5 DEF Types, SdTypes, Up
  <2>7. appHandle \in BOOLEAN /\ advLed \in BOOLEAN BY <2>2 DEF Types, AppTypes
  <2>8. appHandle = (link \in {"conn", "closing"}) /\ advLed = (link = "adv")
    BY <2>2, <2>4, <2>6, <2>7 DEF HandlesAgree, Up
  <2>9. appHandle => currentParams = interval /\ cpConn = conn
    BY <2>2, <2>3, <2>4 DEF HandlesAgree, ParamsAgree
  <2>10. QED BY <2>2, <2>8, <2>9 DEF HandlesAgree
<1>2. QED BY <1>1, Inductive, PTL

\* advertising_start is called by on_ble_evt only once the link is down.
THEOREM AdvertisingAccepted == Spec => []AdvertisingNeverRefused
<1>1. IInv => AdvertisingNeverRefused BY DEF IInv
<1>2. QED BY <1>1, Inductive, PTL

\* The negotiation of ble_conn_params.c is never dropped in the firmware.
THEOREM NegotiationKept == Spec => []NegotiationAlive
<1>1. IInv => NegotiationAlive
  <2>1. SUFFICES ASSUME IInv, Firmware, Alive, sdEvents = <<>>, link = "conn",
                        interval # preferred
                 PROVE  timer.running \/ updating \/ \E c \in 0..MaxConn : InHand(Expiry(c))
    BY DEF NegotiationAlive
  <2>2. Negotiating BY <2>1 DEF IInv, AliveInv
  <2>3. EvtIdx = {} BY <2>1 DEF EvtIdx
  <2>4. QED BY <2>1, <2>2, <2>3 DEF Negotiating
<1>2. QED BY <1>1, Inductive, PTL

\* FAILED is raised only after max_conn_params_update_count requests, however
\* the 8-bit count compares with the configured number.
THEOREM GivenUpAfterAllAttempts == Spec => []FailedAfterAllAttempts
<1>1. IInv => FailedAfterAllAttempts BY DEF IInv
<1>2. QED BY <1>1, Inductive, PTL
=============================================================================
