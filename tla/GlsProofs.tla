------------------------------ MODULE GlsProofs ------------------------------
(***************************************************************************)
(* Proofs about Gls for every size of the database and of the SoftDevice's *)
(* buffers and any number of measurements, connections and requests.       *)
(***************************************************************************)
EXTENDS Gls, TLAPS, SequenceTheorems, FiniteSetTheorems, WellFoundedInduction

\* A set of naturals has a least element: what the proofs use for induction.
LEMMA Minimum ==
  ASSUME NEW T, T \subseteq Nat, T # {}
  PROVE  \E x \in T : \A y \in T : x <= y
<1> DEFINE R == OpToRel(<, Nat)
<1>1. IsWellFoundedOn(R, Nat) BY NatLessThanWellFounded
<1>2. \A x, y \in Nat : y < x => <<y, x>> \in R BY DEF OpToRel
<1> HIDE DEF R
<1>3. PICK x \in T : \A y \in T : ~(<<y, x>> \in R) BY <1>1, WFMin
<1>4. \A y \in T : ~(y < x) BY <1>2, <1>3
<1>5. QED BY <1>4

USE SizeAssumption

EvtType == [id : {"CONNECTED", "DISCONNECTED", "TX_COMPLETE", "HVC", "WRITE"},
            req : Requests \cup {NoReq}]

DbTypes == /\ slots \in [Slot -> Nat \cup {Free}]
           /\ order \in Seq(Slot) /\ nextSeq \in Nat
           /\ Len(order) <= MaxRecords

RacpTypes == /\ state \in {"NO_COMM", "ACTIVE", "PENDING", "IND_VERIF"}
             /\ proc \in [operator : Operator, from : Nat, ndx : Nat, reported : Nat]
             /\ since \in Nat /\ running \in BOOLEAN
             /\ link \in BOOLEAN /\ indicating \in BOOLEAN
             /\ buffered \in 0..TxBuffers
             /\ evts \in Seq(EvtType)

\* The cross references name the slots in use, in the order of their records.
DbInv == /\ \A i, j \in 1..Len(order) : i < j => slots[order[i]] < slots[order[j]]
         /\ \A i \in 1..Len(order) : slots[order[i]] # Free /\ slots[order[i]] < nextSeq
         /\ \A s \in Slot : slots[s] # Free => \E i \in 1..Len(order) : order[i] = s

-----------------------------------------------------------------------------
(* Waiting for the SoftDevice *)

RunInv == running => state = "ACTIVE"

\* What is counted as sent since the last TX_COMPLETE is still to bring one.
WaitInv == /\ since # 0 => buffered > 0 \/ Waiting("TX_COMPLETE")
           /\ NeverStranded

LEMMA ByteType == \A n \in Nat : Byte(n) \in Nat
BY DEF Byte

LEMMA ByteSame == \A n \in 0..(ByteMod - 1) : Byte(n) = n
BY DEF Byte

LEMMA Posted ==
  ASSUME evts \in Seq(EvtType), NEW e \in EvtType, evts' = Append(evts, e)
  PROVE  /\ evts' \in Seq(EvtType)
         /\ \A id : Waiting(id)' <=> Waiting(id) \/ e.id = id
<1>1. /\ evts' \in Seq(EvtType) /\ Len(evts) \in Nat /\ DOMAIN evts = 1..Len(evts)
      /\ DOMAIN evts' = 1..(Len(evts) + 1)
      /\ \A i \in 1..Len(evts) : evts'[i] = evts[i]
      /\ evts'[Len(evts) + 1] = e
  OBVIOUS
<1>2. ASSUME NEW id PROVE Waiting(id)' <=> Waiting(id) \/ e.id = id
  <2>1. Waiting(id) => Waiting(id)' BY <1>1 DEF Waiting
  <2>2. e.id = id => Waiting(id)' BY <1>1 DEF Waiting
  <2>3. Waiting(id)' => Waiting(id) \/ e.id = id BY <1>1 DEF Waiting
  <2>4. QED BY <2>1, <2>2, <2>3
<1>3. QED BY <1>1, <1>2

LEMMA Taken ==
  ASSUME evts \in Seq(EvtType), evts # <<>>, evts' = Tail(evts)
  PROVE  /\ evts' \in Seq(EvtType) /\ evts[1] \in EvtType
         /\ \A id : Waiting(id) <=> Waiting(id)' \/ evts[1].id = id
<1>1. /\ evts' \in Seq(EvtType) /\ Len(evts) \in Nat \ {0} /\ DOMAIN evts = 1..Len(evts)
      /\ DOMAIN evts' = 1..(Len(evts) - 1) /\ evts[1] \in EvtType
      /\ \A i \in 1..(Len(evts) - 1) : evts'[i] = evts[i + 1]
  OBVIOUS
<1>2. ASSUME NEW id PROVE Waiting(id) <=> Waiting(id)' \/ evts[1].id = id
  <2>1. evts[1].id = id => Waiting(id) BY <1>1 DEF Waiting
  <2>2. Waiting(id)' => Waiting(id)
    <3>1. SUFFICES ASSUME NEW i \in 1..(Len(evts) - 1), evts'[i].id = id PROVE Waiting(id)
      BY <1>1 DEF Waiting
    <3>2. i + 1 \in 1..Len(evts) /\ evts[i + 1].id = id BY <1>1, <3>1
    <3>3. QED BY <1>1, <3>2 DEF Waiting
  <2>3. Waiting(id) => Waiting(id)' \/ evts[1].id = id
    <3>1. SUFFICES ASSUME NEW i \in 1..Len(evts), evts[i].id = id, i # 1
                   PROVE  Waiting(id)'
      BY <1>1 DEF Waiting
    <3>2. i - 1 \in 1..(Len(evts) - 1) /\ evts'[i - 1].id = id BY <1>1, <3>1
    <3>3. QED BY <1>1, <3>2 DEF Waiting
  <2>4. QED BY <2>1, <2>2, <2>3
<1>3. QED BY <1>1, <1>2

LEMMA Sent ==
  ASSUME RacpTypes, NEW now, NEW r, RacpSend(now, r)
  PROVE  /\ state' \in {"NO_COMM", "PENDING", "IND_VERIF"} /\ indicating' \in BOOLEAN
         /\ state' = "IND_VERIF" => indicating'
         /\ state' = "PENDING" => (now # "PENDING" /\ since # 0) \/ buffered > 0
         /\ received' \in {received, <<>>}
<1>1. PICK res \in IF InTurn(now) THEN Indication ELSE {"NO_TX_BUFFERS"} :
        /\ state' = CASE res = "SUCCESS"       -> "IND_VERIF"
                      [] res = "NO_TX_BUFFERS" -> "PENDING"
                      [] OTHER                 -> "NO_COMM"
        /\ indicating' = (indicating \/ res = "SUCCESS")
  BY DEF RacpSend
<1>2. /\ state' \in {"NO_COMM", "PENDING", "IND_VERIF"} /\ indicating' \in BOOLEAN
      /\ state' = "IND_VERIF" => indicating'
      /\ state' = "PENDING" => res = "NO_TX_BUFFERS"
  BY <1>1 DEF RacpTypes
<1>3. res = "NO_TX_BUFFERS" => (now # "PENDING" /\ since # 0) \/ buffered = TxBuffers
  BY <1>1 DEF InTurn, Indication
<1>4. received' \in {received, <<>>} BY DEF RacpSend, Settled
<1>5. TxBuffers > 0 BY SizeAssumption
<1>6. QED BY <1>2, <1>3, <1>4, <1>5

\* The order of the index, the numbers and the notification of one round.
LEMMA Reported ==
  ASSUME RacpTypes, NEW i \in Nat, ReportSend(i)
  PROVE  /\ UNCHANGED <<response, indicating>>
         /\ \/ /\ proc' = [proc EXCEPT !.ndx = Byte(Position(i) + 1), !.reported = Byte(@ + 1)]
               /\ since' = Byte(since + 1) /\ buffered' = buffered + 1
               /\ buffered # TxBuffers
               /\ received' = Append(received, Record(i))
               /\ UNCHANGED <<state, running>>
            \/ /\ proc' = [proc EXCEPT !.ndx = Position(i)]
               /\ ~running' /\ buffered = TxBuffers
               /\ UNCHANGED <<state, since, buffered, received>>
            \/ /\ ~running' /\ state' = "NO_COMM" /\ received' = <<>>
               /\ UNCHANGED <<proc, since, buffered>>
<1>1. CASE Notification = "SUCCESS" BY <1>1 DEF ReportSend, Notification
<1>2. CASE Notification = "NO_TX_BUFFERS"
  <2>1. buffered = TxBuffers BY <1>2 DEF Notification
  <2>2. QED BY <1>2, <2>1 DEF ReportSend, ResumeAt, history
<1>3. CASE Notification \notin {"SUCCESS", "NO_TX_BUFFERS"}
  BY <1>3 DEF ReportSend, Settled
<1>4. QED BY <1>1, <1>2, <1>3

\* The report of greater or equal passes over smaller records only.
LEMMA IndexSkips ==
  ASSUME RacpTypes, DbTypes, proc.operator = "ge"
  PROVE  /\ NextIndex \in proc.ndx..(proc.ndx + Total)
         /\ NextIndex >= Total \/ Record(NextIndex) >= proc.from
         /\ \A j \in proc.ndx..(NextIndex - 1) : j < Total /\ Record(j) < proc.from
<1> DEFINE Ends(i) == i >= Total \/ Record(i) >= proc.from
           T == {i \in proc.ndx..(proc.ndx + Total) : Ends(i)}
<1>1. Total \in Nat /\ proc.ndx \in Nat /\ proc.operator \in Operator
  BY DEF DbTypes, RacpTypes, Total
<1>2. proc.ndx + Total \in T BY <1>1
<1>3. T \subseteq Nat BY <1>1
<1>4. PICK m \in T : \A i \in T : m <= i BY <1>2, <1>3, Minimum
<1>5. /\ m \in proc.ndx..(proc.ndx + Total) /\ Ends(m)
      /\ \A j \in proc.ndx..(m - 1) : ~Ends(j)
  BY <1>1, <1>4
<1> DEFINE P(i) == /\ i >= Total \/ Record(i) >= proc.from
                   /\ \A j \in proc.ndx..(i - 1) : j < Total /\ Record(j) < proc.from
<1>6. \E i \in proc.ndx..(proc.ndx + Total) : P(i)
  <2>1. \A j \in 0..(Total - 1) : Record(j) \in Int BY DEF Record, DbTypes, Free, Total
  <2>2. proc.from \in Int BY DEF RacpTypes
  <2>3. \A j \in Nat : ~Ends(j) => j < Total /\ Record(j) < proc.from BY <1>1, <2>1, <2>2
  <2>4. P(m) BY <1>1, <1>5, <2>3
  <2>5. QED BY <1>5, <2>4
<1>7. QED BY <1>6 DEF NextIndex

\* The next index is a record to report, the end, or a number past it where the
\* report of greater or equal has been left by a deletion.
LEMMA IndexAhead ==
  ASSUME RacpTypes, DbTypes
  PROVE  /\ NextIndex \in Nat
         /\ proc.operator \in {"all", "ge"} => NextIndex >= proc.ndx
         /\ proc.operator = "ge" /\ NextIndex > Total => proc.ndx > Total
         /\ proc.operator = "all" => NextIndex = proc.ndx
         /\ proc.operator \in {"first", "last"} /\ NextIndex < Total => proc.reported = 0
         /\ proc.operator \in {"first", "last"} => NextIndex <= Total
<1>1. Total \in Nat /\ proc.ndx \in Nat /\ proc.operator \in Operator
  BY DEF DbTypes, RacpTypes, Total
<1>2. CASE proc.operator = "ge" BY <1>1, <1>2, IndexSkips
<1>3. CASE proc.operator # "ge" BY <1>1, <1>3 DEF NextIndex, Operator
<1>4. QED BY <1>2, <1>3

\* One round of the report: done, skipped or sent.
LEMMA RoundCases ==
  ASSUME RacpTypes, DbTypes, Report
  PROVE  /\ running /\ UNCHANGED <<dbVars, link, configured, evts>>
         /\ \/ Exhausted(NextIndex) /\ ReportDone
            \/ /\ proc.operator = "ge" /\ proc.ndx > Total
               /\ ReportSkip
            \/ NextIndex \in 0..(Total - 1) /\ ReportSend(NextIndex)
<1>1. Total \in Nat BY DEF DbTypes, Total
<1>2. CASE Exhausted(NextIndex) /\ ReportDone BY <1>2 DEF Report
<1>3. CASE ~Exhausted(NextIndex) /\ NextIndex >= Total /\ ReportSkip
  <2>1. proc.operator = "ge" /\ NextIndex # Total BY <1>3 DEF Exhausted
  <2>2. NextIndex > Total BY <1>1, <1>3, <2>1, IndexAhead
  <2>3. QED BY <1>3, <2>1, <2>2, IndexAhead DEF Report
<1>4. CASE NextIndex < Total /\ ReportSend(NextIndex)
  BY <1>1, <1>4, IndexAhead DEF Report
<1>5. QED BY <1>2, <1>3, <1>4 DEF Report

LEMMA RacpTypesStep ==
  ASSUME RacpTypes, DbTypes, [Next]_vars
  PROVE  RacpTypes'
<1> USE DEF RacpTypes
<1> USE DEF racpVars, sdVars, dbVars, history
<1>1. CASE UNCHANGED vars BY <1>1 DEF vars
<1> DEFINE Id == {"CONNECTED", "DISCONNECTED", "TX_COMPLETE", "HVC", "WRITE"}
<1>2. ASSUME NEW id \in Id, NEW r \in Requests \cup {NoReq} PROVE Evt(id, r) \in EvtType
  BY <1>2 DEF Evt, EvtType
<1>3. CASE Connect
  <2>1. evts' \in Seq(EvtType) BY <1>2, <1>3 DEF Connect, Simple
  <2>2. QED BY <1>3, <2>1 DEF Connect
<1>4. CASE LoseLink
  <2>1. evts' \in Seq(EvtType) BY <1>2, <1>4 DEF LoseLink, Simple
  <2>2. buffered' \in 0..TxBuffers BY <1>4 DEF LoseLink
  <2>3. /\ link' = FALSE /\ indicating' = FALSE
        /\ UNCHANGED <<state, proc, since, running>>
    BY <1>4 DEF LoseLink
  <2>4. QED BY <2>1, <2>2, <2>3
<1>5. CASE Configure BY <1>5 DEF Configure
<1>6. CASE Transmitted
  <2>1. evts' \in Seq(EvtType) BY <1>2, <1>6 DEF Transmitted, Simple
  <2>2. buffered' \in 0..TxBuffers BY <1>6 DEF Transmitted
  <2>3. QED BY <1>6, <2>1, <2>2 DEF Transmitted
<1>7. CASE Confirm
  <2>1. evts' \in Seq(EvtType) BY <1>2, <1>7 DEF Confirm, Simple
  <2>2. QED BY <1>7, <2>1 DEF Confirm
<1>8. ASSUME NEW r \in Requests, Request(r) PROVE RacpTypes'
  <2>1. evts' \in Seq(EvtType) BY <1>2, <1>8 DEF Request
  <2>2. QED BY <1>8, <2>1 DEF Request
<1>9. CASE Report
  <2>1. CASE ReportDone BY <1>9, <2>1, Sent, RoundCases DEF ReportDone
  <2>2. CASE ReportSkip
    <3>1. proc.ndx + 1 \in Nat OBVIOUS
    <3>2. Byte(proc.ndx + 1) \in Nat BY <3>1, ByteType
    <3>3. proc' \in [operator : Operator, from : Nat, ndx : Nat, reported : Nat]
      BY <2>2, <3>2 DEF ReportSkip
    <3>4. QED BY <1>9, <2>2, <3>3, RoundCases DEF ReportSkip
  <2>3. CASE NextIndex \in 0..(Total - 1) /\ ReportSend(NextIndex)
    <3> DEFINE i == NextIndex
    <3>1. i \in Nat BY IndexAhead
    <3> HIDE DEF i
    <3>2. Position(i) \in Nat BY <3>1 DEF Position
    <3>3. Position(i) + 1 \in Nat /\ proc.reported + 1 \in Nat /\ since + 1 \in Nat BY <3>2
    <3>4. Byte(Position(i) + 1) \in Nat /\ Byte(proc.reported + 1) \in Nat /\ Byte(since + 1) \in Nat
      BY <3>3, ByteType
    <3>5. ReportSend(i) BY <2>3 DEF i
    <3>6. proc' \in [operator : Operator, from : Nat, ndx : Nat, reported : Nat]
      <4> DEFINE a == Byte(Position(i) + 1)
                 b == Byte(proc.reported + 1)
      <4>1. \/ proc' = [proc EXCEPT !.ndx = a, !.reported = b]
            \/ proc' = [proc EXCEPT !.ndx = Position(i)]
            \/ proc' = proc
        BY <3>1, <3>5, Reported
      <4>2. a \in Nat /\ b \in Nat BY <3>4
      <4> HIDE DEF a, b
      <4>3. QED BY <3>2, <4>1, <4>2
    <3>7. since' \in Nat BY <3>1, <3>4, <3>5, Reported
    <3>8. buffered' \in 0..TxBuffers
      <4>1. \/ buffered' = buffered + 1 /\ buffered # TxBuffers
            \/ buffered' = buffered
        BY <3>1, <3>5, Reported
      <4>2. QED BY <4>1
    <3>9. running' \in BOOLEAN /\ indicating' = indicating
      <4>1. UNCHANGED running \/ ~running' BY <3>1, <3>5, Reported
      <4>2. running' \in BOOLEAN
        <5>1. CASE Notification = "SUCCESS" BY <3>5, <5>1 DEF ReportSend
        <5>2. CASE Notification # "SUCCESS" BY <3>5, <5>2 DEF ReportSend
        <5>3. QED BY <5>1, <5>2
      <4>3. QED BY <3>1, <3>5, <4>2, Reported
    <3>10. state' \in {"NO_COMM", "ACTIVE", "PENDING", "IND_VERIF"}
      <4>1. state' = state \/ state' = "NO_COMM" BY <3>1, <3>5, Reported
      <4>2. QED BY <4>1
    <3>11. UNCHANGED <<link, evts>> BY <1>9, RoundCases
    <3>12. QED BY <3>6, <3>7, <3>8, <3>9, <3>10, <3>11
  <2>4. QED BY <1>9, <2>1, <2>2, <2>3, RoundCases
<1>10. CASE OnBleEvt
  <2>1. evts' \in Seq(EvtType) /\ evts[1] \in EvtType BY <1>10, Taken DEF OnBleEvt
  <2>2. CASE evts[1].id = "WRITE"
    <3> DEFINE r == evts[1].req
    <3>1. UNCHANGED <<link, buffered>> /\ OnWrite(r) BY <1>10, <2>2 DEF OnBleEvt
    <3>2. r \in Requests \cup {NoReq} BY <2>1 DEF EvtType
    <3>3. r.operator \in Operator /\ r.from \in Nat
      BY <3>2 DEF Requests, NoReq, Req, Operator
    <3> HIDE DEF r
    <3>4. CASE Execute(r)
      <4>1. CASE r.op = "report" /\ state = "NO_COMM"
        <5>1. QED BY <2>1, <3>1, <3>3, <3>4, <4>1 DEF Execute
      <4>2. CASE \E a : RacpSend("NO_COMM", a) /\ UNCHANGED <<proc, since, running>>
        BY <2>1, <3>1, <4>2, Sent
      <4>3. CASE UNCHANGED <<racpVars, indicating, history>> BY <2>1, <3>1, <4>3
      <4>4. QED BY <3>4, <4>1, <4>2, <4>3 DEF Execute
    <3>5. QED BY <2>1, <3>1, <3>4 DEF OnWrite
  <2>3. CASE evts[1].id = "TX_COMPLETE"
    <3>1. OnTxComplete /\ UNCHANGED <<link, buffered>> BY <1>10, <2>3 DEF OnBleEvt
    <3>2. CASE state = "PENDING" BY <2>1, <3>1, <3>2, Sent DEF OnTxComplete, TxAwaited
    <3>3. CASE state # "PENDING" BY <2>1, <3>1, <3>3 DEF OnTxComplete, TxAwaited
    <3>4. QED BY <3>2, <3>3
  <2>4. CASE evts[1].id = "CONNECTED" BY <1>10, <2>1, <2>4 DEF OnBleEvt, OnConnected
  <2>5. CASE evts[1].id = "HVC" BY <1>10, <2>1, <2>5 DEF OnBleEvt, OnHvc
  <2>6. CASE evts[1].id = "DISCONNECTED" BY <1>10, <2>1, <2>6 DEF OnBleEvt
  <2>7. QED BY <2>1, <2>2, <2>3, <2>4, <2>5, <2>6 DEF EvtType
<1>11. CASE NewMeas BY <1>11 DEF NewMeas
<1>12. ASSUME NEW i \in Slot, RecordDelete(i) PROVE RacpTypes'
  BY <1>12 DEF RecordDelete
<1>13. QED
  BY <1>1, <1>3, <1>4, <1>5, <1>6, <1>7, <1>8, <1>9, <1>10, <1>11, <1>12 DEF Next

LEMMA RunStep ==
  ASSUME RacpTypes, DbTypes, RunInv, [Next]_vars
  PROVE  RunInv'
<1> USE DEF RunInv
<1>1. CASE Report
  <2>1. running /\ state = "ACTIVE" BY <1>1, RoundCases
  <2>2. CASE ReportDone BY <2>2 DEF ReportDone
  <2>3. CASE ReportSkip BY <2>1, <2>3 DEF ReportSkip
  <2>4. CASE NextIndex \in 0..(Total - 1) /\ ReportSend(NextIndex)
    <3>1. UNCHANGED <<state, running>> \/ ~running' BY <2>4, IndexAhead, Reported
    <3>2. QED BY <2>1, <3>1
  <2>5. QED BY <1>1, <2>2, <2>3, <2>4, RoundCases
<1>2. CASE OnBleEvt
  <2>1. ~running BY <1>2 DEF OnBleEvt
  <2>2. UNCHANGED running \/ (running' = TRUE /\ state' = "ACTIVE")
    <3>1. CASE OnWrite(evts[1].req) BY <3>1 DEF OnWrite, Execute, racpVars
    <3>2. CASE OnTxComplete BY <3>2 DEF OnTxComplete, TxAwaited
    <3>3. CASE OnConnected \/ OnHvc BY <3>3 DEF OnConnected, OnHvc
    <3>4. CASE UNCHANGED racpVars BY <3>4 DEF racpVars
    <3>5. evts[1] \in EvtType BY <1>2, Taken DEF OnBleEvt, RacpTypes
    <3>6. QED BY <1>2, <3>1, <3>2, <3>3, <3>4, <3>5 DEF OnBleEvt, EvtType
  <2>3. QED BY <2>1, <2>2
<1>3. CASE UNCHANGED <<state, running>> BY <1>3
<1>4. QED
  BY <1>1, <1>2, <1>3 DEF Next, vars, racpVars, Connect, LoseLink, Configure, Transmitted,
                          Confirm, Request, NewMeas, RecordDelete

LEMMA WaitInvStep ==
  ASSUME TidyLinks, RacpTypes, DbTypes, WaitInv, RunInv, RunInv', [Next]_vars
  PROVE  WaitInv'
<1> USE DEF WaitInv, RunInv, NeverStranded
<1> DEFINE Tx == Waiting("TX_COMPLETE")
           Hvc == Waiting("HVC")
           Conn == Waiting("CONNECTED")
<1> DEFINE Same == UNCHANGED <<state, since, running>>
<1>1. CASE UNCHANGED vars
  <2>1. UNCHANGED <<evts, state, since, running, link, buffered, indicating>>
    BY <1>1 DEF vars, racpVars, sdVars
  <2>2. QED BY <2>1 DEF Waiting
<1>2. evts \in Seq(EvtType) /\ buffered \in 0..TxBuffers /\ since \in Nat BY DEF RacpTypes
<1>3. ASSUME NEW e \in EvtType, evts' = Append(evts, e)
      PROVE (Tx' <=> Tx \/ e.id = "TX_COMPLETE") /\ (Hvc' <=> Hvc \/ e.id = "HVC")
            /\ (Conn' <=> Conn \/ e.id = "CONNECTED")
  BY <1>2, <1>3, Posted
<1>4. ASSUME NEW id \in {"CONNECTED", "DISCONNECTED", "TX_COMPLETE", "HVC"},
             evts' = Append(evts, Simple(id))
      PROVE (Tx' <=> Tx \/ id = "TX_COMPLETE") /\ (Hvc' <=> Hvc \/ id = "HVC")
            /\ (Conn' <=> Conn \/ id = "CONNECTED")
  <2>1. Simple(id) \in EvtType /\ Simple(id).id = id BY DEF Simple, Evt, EvtType
  <2>2. QED BY <1>3, <1>4, <2>1
<1>5. CASE Connect
  <2>1. Same /\ UNCHANGED buffered BY <1>5 DEF Connect, racpVars
  <2>2. Conn' /\ (Tx => Tx') BY <1>4, <1>5 DEF Connect
  <2>3. QED BY <2>1, <2>2
<1>6. CASE LoseLink
  <2>1. Same /\ buffered = 0 /\ buffered' = 0 /\ ~link' BY <1>6 DEF LoseLink, racpVars
  <2>2. Tx => Tx' BY <1>4, <1>6 DEF LoseLink
  <2>3. QED BY <2>1, <2>2
<1>7. CASE Configure
  <2>1. Same /\ UNCHANGED <<evts, link, buffered, indicating>> BY <1>7 DEF Configure, racpVars
  <2>2. QED BY <2>1 DEF Waiting
<1>8. CASE Transmitted
  <2>1. Same /\ UNCHANGED <<link, indicating>> BY <1>8 DEF Transmitted, racpVars
  <2>2. Tx' /\ (Hvc => Hvc') /\ (Conn => Conn') BY <1>4, <1>8 DEF Transmitted
  <2>3. QED BY <2>1, <2>2
<1>9. CASE Confirm
  <2>1. Same /\ UNCHANGED <<link, buffered>> BY <1>9 DEF Confirm, racpVars
  <2>2. Hvc' /\ (Tx => Tx') /\ (Conn => Conn') BY <1>4, <1>9 DEF Confirm
  <2>3. QED BY <2>1, <2>2
<1>10. ASSUME NEW r \in Requests, Request(r) PROVE WaitInv'
  <2>1. Same /\ UNCHANGED <<link, buffered, indicating>> BY <1>10 DEF Request, racpVars
  <2>2. Evt("WRITE", r) \in EvtType BY DEF Evt, EvtType
  <2>3. (Hvc => Hvc') /\ (Tx => Tx') /\ (Conn => Conn') BY <1>3, <1>10, <2>2 DEF Request
  <2>4. QED BY <2>1, <2>3
<1>11. CASE Report
  <2>1. running /\ state = "ACTIVE" /\ UNCHANGED <<link, evts>> BY <1>11, RoundCases
  <2>2. (Tx' <=> Tx) /\ (Hvc' <=> Hvc) /\ (Conn' <=> Conn) BY <2>1 DEF Waiting
  <2>3. CASE ReportDone
    <3>1. ~running' /\ UNCHANGED <<since, buffered>> BY <2>3 DEF ReportDone
    <3>2. /\ state' \in {"NO_COMM", "PENDING", "IND_VERIF"} /\ (state' = "IND_VERIF" => indicating')
          /\ state' = "PENDING" => since # 0 \/ buffered > 0
      BY <2>3, Sent DEF ReportDone
    <3>3. QED BY <2>1, <2>2, <3>1, <3>2
  <2>4. CASE ReportSkip
    <3>1. Same /\ UNCHANGED <<buffered, indicating>> BY <2>4 DEF ReportSkip
    <3>2. QED BY <2>1, <2>2, <3>1
  <2>5. CASE NextIndex \in 0..(Total - 1) /\ ReportSend(NextIndex)
    <3>1. \/ buffered' = buffered + 1 /\ UNCHANGED <<state, running>>
          \/ ~running' /\ buffered = TxBuffers /\ UNCHANGED <<state, since, buffered>>
          \/ ~running' /\ state' = "NO_COMM" /\ UNCHANGED <<since, buffered>>
      BY <2>5, IndexAhead, Reported
    <3>2. TxBuffers > 0 BY SizeAssumption
    <3>3. buffered' \in Nat BY <1>2, <3>1
    <3>4. CASE buffered' = buffered + 1 /\ UNCHANGED <<state, running>>
      <4>1. buffered' > 0 BY <1>2, <3>4
      <4>2. QED BY <2>1, <3>4, <4>1
    <3>5. CASE ~running' /\ buffered = TxBuffers /\ UNCHANGED <<state, since, buffered>>
      <4>1. buffered' > 0 BY <3>2, <3>5
      <4>2. QED BY <2>1, <3>5, <4>1
    <3>6. CASE ~running' /\ state' = "NO_COMM" /\ UNCHANGED <<since, buffered>>
      BY <2>2, <3>6
    <3>7. QED BY <3>1, <3>4, <3>5, <3>6
  <2>6. QED BY <1>11, <2>3, <2>4, <2>5, RoundCases
<1>12. CASE OnBleEvt
  <2>1. ~running /\ evts # <<>> /\ evts' = Tail(evts) /\ UNCHANGED <<link, buffered>>
    BY <1>12 DEF OnBleEvt
  <2>2. /\ Tx <=> Tx' \/ evts[1].id = "TX_COMPLETE"
        /\ Hvc <=> Hvc' \/ evts[1].id = "HVC"
        /\ Conn <=> Conn' \/ evts[1].id = "CONNECTED"
        /\ evts[1] \in EvtType
    BY <1>2, <2>1, Taken
  <2>3. CASE evts[1].id = "WRITE"
    <3>1. (Tx <=> Tx') /\ (Hvc <=> Hvc') /\ (Conn <=> Conn') BY <2>2, <2>3
    <3> DEFINE r == evts[1].req
    <3>2. OnWrite(r) BY <1>12, <2>3 DEF OnBleEvt
    <3> HIDE DEF r
    <3>3. CASE UNCHANGED <<racpVars, indicating, history>>
      <4>1. Same /\ UNCHANGED indicating BY <3>3 DEF racpVars
      <4>2. QED BY <2>1, <3>1, <4>1
    <3>4. CASE state' = "ACTIVE" /\ running' = TRUE /\ UNCHANGED since
      BY <2>1, <3>1, <3>4
    <3>5. CASE \E a : RacpSend("NO_COMM", a) /\ UNCHANGED <<proc, since, running>>
      <4>1. UNCHANGED <<since, running>> BY <3>5
      <4>2. /\ state' \in {"NO_COMM", "PENDING", "IND_VERIF"} /\ (state' = "IND_VERIF" => indicating')
            /\ state' = "PENDING" => since # 0 \/ buffered > 0
        BY <3>5, Sent
      <4>3. QED BY <2>1, <3>1, <4>1, <4>2
    <3>6. QED BY <3>2, <3>3, <3>4, <3>5 DEF OnWrite, Execute
  <2>4. CASE evts[1].id = "TX_COMPLETE"
    <3>1. (Hvc <=> Hvc') /\ (Conn <=> Conn') BY <2>2, <2>4
    <3>2. OnTxComplete BY <1>12, <2>4 DEF OnBleEvt
    <3>3. since' = 0 BY <3>2 DEF OnTxComplete
    <3>4. CASE state = "PENDING"
      <4>1. RacpSend("PENDING", response) /\ UNCHANGED running
        BY <3>2, <3>4 DEF OnTxComplete, TxAwaited
      <4>2. /\ state' \in {"NO_COMM", "PENDING", "IND_VERIF"} /\ (state' = "IND_VERIF" => indicating')
            /\ state' = "PENDING" => buffered > 0
        BY <4>1, Sent
      <4>3. QED BY <2>1, <3>1, <3>3, <4>1, <4>2
    <3>5. CASE state # "PENDING"
      <4>1. /\ UNCHANGED <<state, indicating>>
            /\ IF state = "ACTIVE" THEN running' = TRUE ELSE UNCHANGED running
        BY <3>2, <3>5 DEF OnTxComplete, TxAwaited
      <4>2. QED BY <2>1, <3>1, <3>3, <3>5, <4>1
    <3>6. QED BY <3>4, <3>5
  <2>5. CASE evts[1].id = "CONNECTED"
    <3>1. Tx <=> Tx' BY <2>2, <2>5
    <3>2. state' = "NO_COMM" /\ UNCHANGED <<since, running>>
      BY <1>12, <2>5 DEF OnBleEvt, OnConnected
    <3>3. QED BY <2>1, <3>1, <3>2
  <2>6. CASE evts[1].id = "HVC"
    <3>1. (Tx <=> Tx') /\ (Conn <=> Conn') BY <2>2, <2>6
    <3>2. /\ state' = IF state = "IND_VERIF" THEN "NO_COMM" ELSE state
          /\ UNCHANGED <<since, running, indicating>>
      BY <1>12, <2>6 DEF OnBleEvt, OnHvc
    <3>3. QED BY <2>1, <3>1, <3>2
  <2>7. CASE evts[1].id = "DISCONNECTED"
    <3>1. (Tx <=> Tx') /\ (Hvc <=> Hvc') /\ (Conn <=> Conn') BY <2>2, <2>7
    <3>2. Same /\ UNCHANGED indicating BY <1>12, <2>7 DEF OnBleEvt, racpVars
    <3>3. QED BY <2>1, <3>1, <3>2
  <2>8. QED BY <2>2, <2>3, <2>4, <2>5, <2>6, <2>7 DEF EvtType
<1>13. CASE NewMeas \/ \E i \in Slot : RecordDelete(i)
  <2>1. Same /\ UNCHANGED <<evts, link, buffered, indicating>>
    BY <1>13 DEF NewMeas, RecordDelete, racpVars, sdVars
  <2>2. QED BY <2>1 DEF Waiting
<1>14. QED
  BY <1>1, <1>5, <1>6, <1>7, <1>8, <1>9, <1>10, <1>11, <1>12, <1>13 DEF Next

-----------------------------------------------------------------------------
(* The database *)

\* The steps that leave it alone.
LEMMA DbKept ==
  ASSUME [Next]_vars
  PROVE  UNCHANGED dbVars \/ NewMeas \/ \E i \in Slot : RecordDelete(i)
BY DEF Next, vars, Connect, LoseLink, Configure, Transmitted, Confirm, Request, Report, OnBleEvt

\* A database that is not full has a free slot.
LEMMA SlotFree ==
  ASSUME DbTypes, DbInv, Total # MaxRecords
  PROVE  FirstFree \in Slot /\ slots[FirstFree] = Free
<1> DEFINE T == {s \in Slot : slots[s] = Free}
<1>1. Total \in Nat /\ Total = Len(order) /\ DOMAIN order = 1..Total /\ order \in [1..Total -> Slot]
  BY DEF DbTypes, Total
<1>2. T # {}
  <2>1. SUFFICES ASSUME T = {} PROVE FALSE OBVIOUS
  <2>2. \A s \in Slot : \E i \in 1..Total : order[i] = s BY <1>1, <2>1 DEF DbInv
  <2>3. ASSUME NEW i \in 1..Total, NEW j \in 1..Total, i # j PROVE order[i] # order[j]
    <3>1. order[i] \in Slot /\ order[j] \in Slot BY <1>1, <2>3
    <3>2. \A s \in Slot : slots[s] \in Int BY DEF DbTypes, Free
    <3>3. i < j \/ j < i
      <4>1. Total \in Nat BY <1>1
      <4>2. i \in Int /\ j \in Int BY <4>1
      <4>3. QED BY <2>3, <4>2
    <3>4. slots[order[i]] < slots[order[j]] \/ slots[order[j]] < slots[order[i]]
      BY <1>1, <2>3, <3>3 DEF DbInv
    <3>5. QED BY <3>1, <3>2, <3>4
  <2>4. ExistsBijection(1..Total, Slot)
    <3>1. order \in Injection(1..Total, Slot) BY <1>1, <2>3 DEF Injection, IsInjective
    <3>2. order \in Surjection(1..Total, Slot) BY <1>1, <2>2 DEF Surjection
    <3>3. QED BY <3>1, <3>2 DEF ExistsBijection, Bijection
  <2>5. Cardinality(Slot) = Total BY <1>1, <2>4, FS_CountingElements
  <2>6. Cardinality(Slot) = MaxRecords BY FS_Interval, SizeAssumption DEF Slot
  <2>7. QED BY <2>5, <2>6
<1>3. T \subseteq Nat BY DEF Slot
<1>4. PICK m \in T : \A s \in T : m <= s BY <1>2, <1>3, Minimum
<1>5. \A r \in 0..(m - 1) : slots[r] # Free
  <2>1. SUFFICES ASSUME NEW r \in 0..(m - 1), slots[r] = Free PROVE FALSE OBVIOUS
  <2>2. r \in Slot /\ r < m BY <1>4, SizeAssumption DEF Slot
  <2>3. QED BY <1>3, <1>4, <2>1, <2>2
<1>6. \E s \in Slot : slots[s] = Free /\ \A r \in 0..(s - 1) : slots[r] # Free BY <1>4, <1>5
<1>7. QED BY <1>6 DEF FirstFree

\* What a measurement adds.
LEMMA Added ==
  ASSUME DbTypes, DbInv, NewMeas, Total # MaxRecords
  PROVE  \E f \in Slot :
           /\ slots' = [slots EXCEPT ![f] = nextSeq]
           /\ order' \in Seq(Slot) /\ Len(order') = Len(order) + 1 /\ order'[Len(order) + 1] = f
           /\ \A i \in 1..Len(order) : order'[i] = order[i] /\ slots'[order'[i]] = slots[order[i]]
           /\ slots'[order'[Len(order) + 1]] = nextSeq
<1> DEFINE f == FirstFree
           n == Len(order)
<1>1. f \in Slot /\ slots[f] = Free BY SlotFree
<1>2. slots' = [slots EXCEPT ![f] = nextSeq] /\ order' = Append(order, f) BY DEF NewMeas
<1> HIDE DEF f
<1>3. n \in Nat /\ order \in [1..n -> Slot] BY DEF DbTypes
<1>4. /\ order' \in Seq(Slot) /\ Len(order') = n + 1 /\ order'[n + 1] = f
      /\ \A i \in 1..n : order'[i] = order[i]
  BY <1>1, <1>2 DEF DbTypes
<1>5. \A i \in 1..n : order[i] # f /\ slots'[order'[i]] = slots[order[i]]
  BY <1>1, <1>2, <1>3, <1>4 DEF DbInv, DbTypes
<1>6. slots'[order'[n + 1]] = nextSeq BY <1>1, <1>2, <1>4 DEF DbTypes
<1>7. QED BY <1>1, <1>2, <1>4, <1>5, <1>6

\* What removing an element leaves.
LEMMA Removed ==
  ASSUME NEW S, NEW q \in Seq(S), NEW k \in 1..Len(q)
  PROVE  /\ RemoveAt(q, k) \in Seq(S) /\ Len(RemoveAt(q, k)) = Len(q) - 1
         /\ \A j \in 1..(Len(q) - 1) : RemoveAt(q, k)[j] = IF j < k THEN q[j] ELSE q[j + 1]
<1> DEFINE a == SubSeq(q, 1, k - 1)
           b == SubSeq(q, k + 1, Len(q))
<1>1. a \in Seq(S) /\ Len(a) = k - 1 /\ \A j \in 1..(k - 1) : a[j] = q[j]
  OBVIOUS
<1>2. b \in Seq(S) /\ Len(b) = Len(q) - k /\ \A j \in 1..(Len(q) - k) : b[j] = q[k + j]
  OBVIOUS
<1> HIDE DEF a, b
<1>3. RemoveAt(q, k) = a \o b BY DEF RemoveAt, a, b
<1>4. Len(q) \in Nat OBVIOUS
<1>5. a \o b \in Seq(S) /\ Len(a \o b) = Len(q) - 1
  <2>1. a \o b \in Seq(S) BY <1>1, <1>2
  <2>2. Len(a \o b) = Len(a) + Len(b) BY <1>1, <1>2, ConcatProperties
  <2>3. QED BY <1>1, <1>2, <1>4, <2>1, <2>2
<1>6. ASSUME NEW j \in 1..(Len(q) - 1)
      PROVE  (a \o b)[j] = IF j < k THEN q[j] ELSE q[j + 1]
  <2>1. CASE j < k BY <1>1, <1>2, <1>4, <2>1
  <2>2. CASE ~(j < k)
    <3>1. j - Len(a) \in 1..Len(b) BY <1>1, <1>2, <1>4, <2>2
    <3>2. (a \o b)[j] = b[j - Len(a)] BY <1>1, <1>2, <1>4, <2>2, <3>1
    <3>3. b[j - Len(a)] = q[k + (j - (k - 1))] BY <1>1, <1>2, <1>4, <3>1
    <3>4. k + (j - (k - 1)) = j + 1 BY <1>4
    <3>5. QED BY <2>2, <3>2, <3>3, <3>4
  <2>3. QED BY <2>1, <2>2
<1>7. QED BY <1>3, <1>5, <1>6

LEMMA DbStep ==
  ASSUME DbTypes, DbInv, [Next]_vars
  PROVE  DbTypes' /\ DbInv'
<1> DEFINE n == Len(order)
<1>1. n \in Nat /\ order \in [1..n -> Slot] /\ DOMAIN order = 1..n BY DEF DbTypes
<1>2. CASE UNCHANGED dbVars BY <1>2 DEF DbTypes, DbInv, dbVars
<1>3. CASE NewMeas
  <2>1. nextSeq' = nextSeq + 1 /\ nextSeq \in Nat BY <1>3 DEF NewMeas, DbTypes
  <2>2. CASE Total = MaxRecords
    <3>1. UNCHANGED <<slots, order>> BY <1>3, <2>2 DEF NewMeas
    <3>2. DbTypes' BY <2>1, <3>1 DEF DbTypes
    <3>3. \A i \in 1..n : slots[order[i]] \in Int BY <1>1 DEF DbTypes, Free
    <3>4. \A i \in 1..n : slots[order[i]] < nextSeq' BY <2>1, <3>3 DEF DbInv
    <3>5. QED BY <3>1, <3>2, <3>4 DEF DbInv
  <2>3. CASE Total # MaxRecords
    <3>1. PICK f \in Slot :
            /\ slots' = [slots EXCEPT ![f] = nextSeq]
            /\ order' \in Seq(Slot) /\ Len(order') = n + 1 /\ order'[n + 1] = f
            /\ \A i \in 1..n : order'[i] = order[i] /\ slots'[order'[i]] = slots[order[i]]
            /\ slots'[order'[n + 1]] = nextSeq
      BY <1>3, <2>3, Added
    <3>2. order' \in Seq(Slot) /\ Len(order') = n + 1 /\ order'[n + 1] = f
          /\ \A i \in 1..n : order'[i] = order[i]
      BY <3>1
    <3>3. slots' \in [Slot -> Nat \cup {Free}] BY <2>1, <3>1 DEF DbTypes
    <3>4. \A i \in 1..n : slots'[order'[i]] = slots[order[i]] BY <3>1
    <3>5. slots'[order'[n + 1]] = nextSeq BY <3>1
    <3>6. \A i \in 1..n : slots[order[i]] < nextSeq /\ slots[order[i]] # Free
                            /\ slots[order[i]] \in Int
      BY <1>1 DEF DbInv, DbTypes, Free
    <3>7. \A i, j \in 1..(n + 1) : i < j => slots'[order'[i]] < slots'[order'[j]]
      <4>1. SUFFICES ASSUME NEW i \in 1..(n + 1), NEW j \in 1..(n + 1), i < j
                     PROVE  slots'[order'[i]] < slots'[order'[j]]
        OBVIOUS
      <4>2. i \in 1..n /\ (j \in 1..n \/ j = n + 1) BY <1>1, <4>1
      <4>3. CASE j = n + 1 BY <3>4, <3>5, <3>6, <4>2, <4>3
      <4>4. CASE j \in 1..n
        <5>1. slots[order[i]] < slots[order[j]] BY <4>1, <4>2, <4>4 DEF DbInv
        <5>2. QED BY <3>4, <4>2, <4>4, <5>1
      <4>5. QED BY <4>2, <4>3, <4>4
    <3>8. \A i \in 1..(n + 1) : slots'[order'[i]] # Free /\ slots'[order'[i]] < nextSeq'
      <4>1. SUFFICES ASSUME NEW i \in 1..(n + 1)
                     PROVE  slots'[order'[i]] # Free /\ slots'[order'[i]] < nextSeq'
        OBVIOUS
      <4>2. CASE i = n + 1 BY <2>1, <3>5, <4>2 DEF Free
      <4>3. CASE i \in 1..n BY <2>1, <3>4, <3>6, <4>3
      <4>4. QED BY <1>1, <4>2, <4>3
    <3>9. ASSUME NEW s \in Slot, slots'[s] # Free PROVE \E i \in 1..(n + 1) : order'[i] = s
      <4>1. CASE s = f BY <1>1, <3>2, <4>1
      <4>2. CASE s # f
        <5>1. slots[s] # Free BY <3>1, <3>9, <4>2 DEF DbTypes
        <5>2. PICK i \in 1..n : order[i] = s BY <5>1 DEF DbInv
        <5>3. i \in 1..(n + 1) /\ order'[i] = s BY <1>1, <3>2, <5>2
        <5>4. QED BY <5>3
      <4>3. QED BY <4>1, <4>2
    <3>10. nextSeq' \in Nat /\ Len(order') <= MaxRecords
      <4>1. n <= MaxRecords /\ n # MaxRecords BY <2>3 DEF DbTypes, Total
      <4>2. n \in Nat /\ MaxRecords \in Nat BY <1>1, SizeAssumption
      <4> HIDE DEF n
      <4>3. n + 1 <= MaxRecords BY <4>1, <4>2
      <4>4. QED BY <2>1, <3>2, <4>3
    <3>11. QED BY <3>2, <3>3, <3>7, <3>8, <3>9, <3>10 DEF DbTypes, DbInv
  <2>4. QED BY <2>2, <2>3
<1>4. ASSUME NEW d \in Slot, RecordDelete(d) PROVE DbTypes' /\ DbInv'
  <2> DEFINE k == d + 1
             m == n - 1
  <2>1. k \in 1..n /\ m \in Nat BY <1>1, <1>4 DEF RecordDelete, Slot, Total
  <2>2. slots' = [slots EXCEPT ![order[k]] = Free] /\ order' = RemoveAt(order, k)
        /\ UNCHANGED nextSeq
    BY <1>4 DEF RecordDelete, OrderWithout
  <2> DEFINE old(j) == IF j < k THEN j ELSE j + 1
  <2>3. /\ order' \in Seq(Slot) /\ Len(order') = m
        /\ \A j \in 1..m : order'[j] = IF j < k THEN order[j] ELSE order[j + 1]
    BY <2>1, <2>2, Removed DEF DbTypes
  <2> HIDE DEF k
  <2>4. \A j \in 1..m : old(j) \in 1..n /\ old(j) # k /\ order'[j] = order[old(j)]
    BY <1>1, <2>1, <2>3
  <2>5. \A i, j \in 1..m : i < j => old(i) < old(j) BY <2>1
  <2>6. slots' \in [Slot -> Nat \cup {Free}] BY <1>1, <2>1, <2>2 DEF DbTypes
  <2>7. ASSUME NEW i \in 1..n, i # k PROVE order[i] # order[k]
    <3>1. slots[order[i]] \in Int /\ slots[order[k]] \in Int BY <1>1, <2>1 DEF DbTypes, Free
    <3>2. i < k \/ k < i BY <2>1, <2>7
    <3>3. slots[order[i]] < slots[order[k]] \/ slots[order[k]] < slots[order[i]]
      BY <2>1, <3>2 DEF DbInv
    <3>4. QED BY <3>1, <3>3
  <2> HIDE DEF old
  <2>8. ASSUME NEW j \in 1..m PROVE slots'[order'[j]] = slots[order[old(j)]]
    BY <1>1, <2>1, <2>2, <2>4, <2>7 DEF DbTypes
  <2>9. \A i, j \in 1..m : i < j => slots'[order'[i]] < slots'[order'[j]]
    <3>1. SUFFICES ASSUME NEW i \in 1..m, NEW j \in 1..m, i < j
                   PROVE  slots'[order'[i]] < slots'[order'[j]]
      OBVIOUS
    <3>2. slots[order[old(i)]] < slots[order[old(j)]] BY <2>4, <2>5, <3>1 DEF DbInv
    <3>3. QED BY <2>8, <3>2
  <2>10. \A j \in 1..m : slots'[order'[j]] # Free /\ slots'[order'[j]] < nextSeq'
    BY <2>2, <2>4, <2>8 DEF DbInv
  <2>11. ASSUME NEW s \in Slot, slots'[s] # Free PROVE \E j \in 1..m : order'[j] = s
    <3>1. s # order[k] /\ slots[s] # Free BY <1>1, <2>1, <2>2, <2>11 DEF DbTypes
    <3>2. PICK i \in 1..n : order[i] = s BY <3>1 DEF DbInv
    <3>3. i # k BY <3>1, <3>2
    <3>4. CASE i < k
      <4>1. i \in 1..m /\ order'[i] = s BY <1>1, <2>1, <2>3, <3>2, <3>4
      <4>2. QED BY <4>1
    <3>5. CASE i > k
      <4>1. i - 1 \in 1..m /\ ~(i - 1 < k) /\ (i - 1) + 1 = i BY <1>1, <2>1, <3>2, <3>5
      <4>2. order'[i - 1] = s BY <2>3, <3>2, <4>1
      <4>3. QED BY <4>1, <4>2
    <3>6. QED BY <2>1, <3>2, <3>3, <3>4, <3>5
  <2>12. nextSeq' \in Nat /\ Len(order') <= MaxRecords
    BY <1>1, <2>2, <2>3, SizeAssumption DEF DbTypes
  <2>13. QED BY <2>3, <2>6, <2>9, <2>10, <2>11, <2>12 DEF DbTypes, DbInv
<1>5. QED BY <1>2, <1>3, <1>4, DbKept

LEMMA DbConsistency ==
  ASSUME DbTypes, DbInv
  PROVE  DbConsistent
<1>1. Total \in Nat /\ DOMAIN order = 1..Total /\ order \in [1..Total -> Slot] /\ Total = Len(order)
  BY DEF DbTypes, Total
<1>2. \A k \in 1..Total : slots[order[k]] \in Int BY <1>1 DEF DbTypes, Free
<1>3. IsInjective(order)
  <2>1. SUFFICES ASSUME NEW i \in 1..Total, NEW j \in 1..Total, i # j PROVE order[i] # order[j]
    BY <1>1 DEF IsInjective
  <2>2. i < j \/ j < i BY <1>1, <2>1
  <2>3. slots[order[i]] < slots[order[j]] \/ slots[order[j]] < slots[order[i]]
    BY <1>1, <2>2 DEF DbInv
  <2>4. QED BY <1>2, <2>3
<1>4. ToSet(order) = {s \in Slot : slots[s] # Free} BY <1>1 DEF DbInv, ToSet
<1>5. Increasing(Append(Records, nextSeq))
  <2> DEFINE q == Append(Records, nextSeq)
  <2>1. \A i \in 1..Total : (i - 1) + 1 = i BY <1>1
  <2>2. Records = [i \in 1..Total |-> slots[order[i]]] BY <1>1, <2>1 DEF Records, Record
  <2>3. Records \in Seq(Int) /\ Len(Records) = Total BY <1>1, <1>2, <2>2
  <2>4. /\ DOMAIN q = 1..(Total + 1) /\ q[Total + 1] = nextSeq
        /\ \A i \in 1..Total : q[i] = slots[order[i]]
    BY <1>1, <2>2, <2>3
  <2> HIDE DEF q
  <2>5. ASSUME NEW i \in 1..(Total + 1), NEW j \in 1..(Total + 1), i < j PROVE q[i] < q[j]
    <3>1. i \in 1..Total BY <1>1, <2>5
    <3>2. CASE j = Total + 1
      <4>1. slots[order[i]] < nextSeq BY <1>1, <3>1 DEF DbInv
      <4>2. QED BY <2>4, <3>1, <3>2, <4>1
    <3>3. CASE j \in 1..Total
      <4>1. slots[order[i]] < slots[order[j]] BY <1>1, <2>5, <3>1, <3>3 DEF DbInv
      <4>2. QED BY <2>4, <3>1, <3>3, <4>1
    <3>4. QED BY <1>1, <3>2, <3>3
  <2>6. QED BY <2>4, <2>5 DEF Increasing, q
<1>6. QED BY <1>3, <1>4, <1>5 DEF DbConsistent

-----------------------------------------------------------------------------
(* The records received *)

\* What has been received is behind the record the report is at, and FIRST and
\* LAST stop at one.
Ahead == \A k \in 1..Len(received), i \in 1..Len(order) :
            proc.ndx < i => received[k] < slots[order[i]]

ReportInv ==
  /\ received \in Seq(Nat)
  /\ \A k, l \in 1..Len(received) : k < l => received[k] < received[l]
  /\ \A k \in 1..Len(received) : received[k] < nextSeq
  /\ state = "ACTIVE" => IF proc.operator \in {"all", "ge"}
                         THEN Ahead /\ (proc.ndx > Len(order) => received = <<>>)
                         ELSE received # <<>> => proc.reported # 0

LEMMA ReportKept ==
  ASSUME ReportInv, UNCHANGED dbVars,
         \/ received' = <<>>
         \/ received' = received /\ (state' # "ACTIVE" \/ UNCHANGED <<state, proc>>)
  PROVE  ReportInv'
<1>1. UNCHANGED <<slots, order, nextSeq>> BY DEF dbVars
<1>2. CASE received' = <<>>
  <2>1. received' \in Seq(Nat) BY <1>2
  <2>2. Len(received') = 0 BY <1>2
  <2>3. 1..Len(received') = {} BY <2>2
  <2>4. QED BY <1>2, <2>1, <2>3 DEF ReportInv, Ahead
<1>3. CASE received' = received /\ state' # "ACTIVE" BY <1>1, <1>3 DEF ReportInv
<1>4. CASE received' = received /\ UNCHANGED <<state, proc>>
  BY <1>1, <1>4 DEF ReportInv, Ahead
<1>5. QED BY <1>2, <1>3, <1>4

LEMMA ReportInvStep ==
  ASSUME RacpTypes, DbTypes, DbTypes', DbInv, RunInv, ReportInv, [Next]_vars
  PROVE  ReportInv'
<1> USE DEF racpVars, sdVars, dbVars, history
<1> DEFINE n == Len(order)
           m == Len(received)
<1>1. n \in Nat /\ m \in Nat /\ order \in [1..n -> Slot] BY DEF DbTypes, ReportInv
<1>2. CASE UNCHANGED vars BY <1>2, ReportKept DEF vars
<1>3. CASE Connect \/ Configure \/ Transmitted \/ Confirm \/ \E r \in Requests : Request(r)
  BY <1>3, ReportKept DEF Connect, Configure, Transmitted, Confirm, Request
<1>4. CASE LoseLink BY <1>4, ReportKept DEF LoseLink, Settled
<1>5. CASE OnBleEvt
  <2>1. UNCHANGED dbVars BY <1>5 DEF OnBleEvt
  <2>2. CASE OnWrite(evts[1].req)
    <3> DEFINE r == evts[1].req
    <3> HIDE DEF r
    <3>1. CASE state' = "ACTIVE" /\ received' = <<>> BY <2>1, <3>1, ReportKept
    <3>2. CASE \E a : RacpSend("NO_COMM", a)
      <4>1. received' \in {received, <<>>} /\ state' # "ACTIVE" BY <3>2, Sent
      <4>2. QED BY <2>1, <4>1, ReportKept
    <3>3. CASE UNCHANGED <<racpVars, indicating, history>> BY <2>1, <3>3, ReportKept
    <3>4. QED BY <2>2, <3>1, <3>2, <3>3 DEF OnWrite, Execute, r
  <2>3. CASE OnTxComplete
    <3>1. CASE state = "PENDING"
      <4>1. RacpSend("PENDING", response) BY <2>3, <3>1 DEF OnTxComplete, TxAwaited
      <4>2. received' \in {received, <<>>} /\ state' # "ACTIVE" BY <4>1, Sent
      <4>3. QED BY <2>1, <4>2, ReportKept
    <3>2. CASE state # "PENDING"
      <4>1. UNCHANGED <<received, state, proc>> BY <2>3, <3>2 DEF OnTxComplete, TxAwaited
      <4>2. QED BY <2>1, <4>1, ReportKept
    <3>3. QED BY <3>1, <3>2
  <2>4. CASE OnConnected
    <3>1. state' # "ACTIVE" /\ UNCHANGED received BY <2>4 DEF OnConnected
    <3>2. QED BY <2>1, <3>1, ReportKept
  <2>5. CASE OnHvc
    <3>1. UNCHANGED <<received, proc>> /\ (state' # "ACTIVE" \/ UNCHANGED state) BY <2>5 DEF OnHvc
    <3>2. QED BY <2>1, <3>1, ReportKept
  <2>6. CASE UNCHANGED <<racpVars, indicating, history>> BY <2>1, <2>6, ReportKept
  <2>7. evts[1] \in EvtType BY <1>5, Taken DEF OnBleEvt, RacpTypes
  <2>8. QED BY <1>5, <2>2, <2>3, <2>4, <2>5, <2>6, <2>7 DEF OnBleEvt, EvtType
<1>6. CASE NewMeas
  <2>1. nextSeq \in Nat /\ nextSeq' = nextSeq + 1 /\ UNCHANGED <<received, state, proc>>
    BY <1>6 DEF NewMeas, DbTypes
  <2>2. \A k \in 1..m : received[k] \in Nat BY <1>1 DEF ReportInv
  <2>3. \A k \in 1..m : received[k] < nextSeq' BY <2>1, <2>2 DEF ReportInv
  <2>4. \/ UNCHANGED <<slots, order>>
        \/ /\ Len(order') = n + 1 /\ slots'[order'[n + 1]] = nextSeq
           /\ \A i \in 1..n : slots'[order'[i]] = slots[order[i]]
    BY <1>6, Added DEF NewMeas
  <2>5. Ahead => Ahead'
    <3>1. SUFFICES ASSUME Ahead, NEW k \in 1..m, NEW i \in 1..Len(order'), proc.ndx < i
                   PROVE  received[k] < slots'[order'[i]]
      BY <2>1 DEF Ahead
    <3>2. CASE UNCHANGED <<slots, order>> BY <3>1, <3>2 DEF Ahead
    <3>3. CASE i = n + 1 /\ slots'[order'[n + 1]] = nextSeq BY <3>3 DEF ReportInv
    <3>4. CASE i \in 1..n /\ slots'[order'[i]] = slots[order[i]]
      BY <3>1, <3>4 DEF Ahead
    <3>5. QED BY <1>1, <2>4, <3>2, <3>3, <3>4
  <2>6. Len(order') >= n BY <1>1, <2>4
  <2>7. proc.ndx > Len(order') => proc.ndx > n
    <3>1. Len(order') \in Nat /\ proc.ndx \in Nat BY DEF DbTypes, RacpTypes
    <3>2. QED BY <1>1, <2>6, <3>1
  <2>8. QED BY <2>1, <2>3, <2>5, <2>7 DEF ReportInv
<1>7. ASSUME NEW d \in Slot, RecordDelete(d) PROVE ReportInv'
  <2>1. UNCHANGED <<nextSeq, state>> BY <1>7 DEF RecordDelete
  <2>2. CASE state = "ACTIVE"
    <3>1. received' = <<>> BY <1>7, <2>2 DEF RecordDelete
    <3>2. received' \in Seq(Nat) /\ Len(received') = 0 BY <3>1
    <3>3. 1..Len(received') = {} BY <3>2
    <3>4. QED BY <3>1, <3>2, <3>3 DEF ReportInv, Ahead
  <2>3. CASE state # "ACTIVE"
    <3>1. UNCHANGED received BY <1>7, <2>3 DEF RecordDelete
    <3>2. QED BY <2>1, <2>3, <3>1 DEF ReportInv
  <2>4. QED BY <2>2, <2>3
<1>8. CASE Report
  <2>1. running /\ state = "ACTIVE" /\ UNCHANGED dbVars BY <1>8, RoundCases DEF RunInv
  <2>2. proc.ndx \in Nat /\ proc.reported \in Nat /\ proc.operator \in Operator BY DEF RacpTypes
  <2>3. CASE ReportDone
    <3>1. received' \in {received, <<>>} /\ state' # "ACTIVE" BY <2>3, Sent DEF ReportDone
    <3>2. QED BY <2>1, <3>1, ReportKept
  <2>4. CASE ReportSkip /\ proc.operator = "ge" /\ proc.ndx > Total
    <3>1. UNCHANGED received BY <2>4 DEF ReportSkip
    <3>2. received = <<>> BY <2>1, <2>4 DEF ReportInv, Total
    <3>3. QED BY <2>1, <3>1, <3>2, ReportKept
  <2>5. CASE NextIndex \in 0..(Total - 1) /\ ReportSend(NextIndex)
    <3> DEFINE i == NextIndex
               a == slots[order[i + 1]]
    <3>1. /\ proc.operator \in {"all", "ge"} => i >= proc.ndx
          /\ proc.operator = "all" => i = proc.ndx
          /\ proc.operator \in {"first", "last"} => proc.reported = 0
      <4>1. Total \in Nat BY <1>1 DEF Total
      <4>2. NextIndex < Total BY <2>5, <4>1
      <4>3. QED BY <4>2, IndexAhead
    <3>2. i \in Nat /\ i < n /\ i + 1 \in 1..n BY <1>1, <2>5 DEF Total
    <3>3. ReportSend(i) BY <2>5
    <3>4. a \in Nat /\ a < nextSeq BY <1>1, <3>2 DEF DbTypes, DbInv, Free
    <3>5. Position(i) = IF proc.operator = "ge" THEN i ELSE proc.ndx BY DEF Position
    <3>6. Record(i) = a BY DEF Record
    <3> HIDE DEF i, a
    <3>7. CASE /\ proc' = [proc EXCEPT !.ndx = Byte(Position(i) + 1), !.reported = Byte(@ + 1)]
               /\ received' = Append(received, a) /\ UNCHANGED state
      <4>1. /\ proc'.operator = proc.operator /\ proc'.ndx = Byte(Position(i) + 1)
            /\ proc'.reported = Byte(proc.reported + 1)
        BY <3>7 DEF RacpTypes
      <4>2. /\ received' \in Seq(Nat) /\ Len(received') = m + 1 /\ received'[m + 1] = a
            /\ \A k \in 1..m : received'[k] = received[k]
        BY <3>4, <3>7 DEF ReportInv
      <4>3. \A k \in 1..m : received[k] < a
        <5>1. CASE proc.operator \in {"all", "ge"}
          <6>1. Ahead /\ proc.ndx < i + 1 BY <2>1, <2>2, <3>1, <3>2, <5>1 DEF ReportInv
          <6>2. QED BY <3>2, <6>1 DEF Ahead, a
        <5>2. CASE proc.operator \in {"first", "last"}
          <6>1. received = <<>> BY <2>1, <3>1, <5>2 DEF ReportInv
          <6>2. m = 0 BY <6>1
          <6>3. QED BY <6>2
        <5>3. QED BY <2>2, <5>1, <5>2 DEF Operator
      <4>4. \A k, l \in 1..(m + 1) : k < l => received'[k] < received'[l]
        <5>1. SUFFICES ASSUME NEW k \in 1..(m + 1), NEW l \in 1..(m + 1), k < l
                       PROVE  received'[k] < received'[l]
          OBVIOUS
        <5>2. k \in 1..m /\ (l = m + 1 \/ l \in 1..m) BY <1>1, <5>1
        <5>3. CASE l = m + 1 BY <4>2, <4>3, <5>2, <5>3
        <5>4. CASE l \in 1..m
          <6>1. received[k] < received[l] BY <5>1, <5>2, <5>4 DEF ReportInv
          <6>2. QED BY <4>2, <5>2, <5>4, <6>1
        <5>5. QED BY <5>2, <5>3, <5>4
      <4>5. \A k \in 1..(m + 1) : received'[k] < nextSeq'
        <5>1. nextSeq' = nextSeq BY <2>1
        <5>2. \A k \in 1..m : received[k] < nextSeq BY DEF ReportInv
        <5>3. QED BY <1>1, <3>4, <4>2, <5>1, <5>2
      <4>6. CASE proc.operator \in {"all", "ge"}
        <5>1. Position(i) = i BY <3>1, <3>5, <4>6
        <5>2. i + 1 \in 0..(ByteMod - 1)
          <6>1. n <= MaxRecords BY DEF DbTypes
          <6>2. i \in Nat /\ n \in Nat /\ i < n BY <1>1, <3>2
          <6>3. MaxRecords \in Nat /\ ByteMod \in Nat /\ ByteMod > MaxRecords BY SizeAssumption
          <6> HIDE DEF n
          <6>4. QED BY <6>1, <6>2, <6>3
        <5>3. proc'.ndx = i + 1 BY <4>1, <5>1, <5>2, ByteSame
        <5>4. \A k \in 1..(m + 1), j \in 1..n : i + 1 < j => received'[k] < slots[order[j]]
          <6>1. SUFFICES ASSUME NEW k \in 1..(m + 1), NEW j \in 1..n, i + 1 < j
                         PROVE  received'[k] < slots[order[j]]
            OBVIOUS
          <6>2. a < slots[order[j]] /\ slots[order[j]] \in Int
            BY <1>1, <3>2, <6>1 DEF DbInv, a, DbTypes, Free
          <6>3. k = m + 1 \/ k \in 1..m BY <1>1
          <6>4. CASE k \in 1..m
            <7> DEFINE x == received[k]
                       y == slots[order[j]]
            <7>1. x < a /\ x \in Nat BY <1>1, <4>3, <6>4 DEF ReportInv
            <7>2. received'[k] = x BY <4>2, <6>4
            <7>3. a < y /\ y \in Int BY <6>2
            <7> HIDE DEF x, y
            <7>4. x < y BY <3>4, <7>1, <7>3
            <7>5. QED BY <7>2, <7>4 DEF y
          <6>5. QED BY <4>2, <6>2, <6>3, <6>4
        <5>5. ~(proc'.ndx > n) BY <1>1, <3>2, <5>3
        <5>6. Ahead' BY <2>1, <4>2, <5>3, <5>4 DEF Ahead
        <5>7. Len(order') = n /\ proc'.operator \in {"all", "ge"} BY <2>1, <4>1, <4>6 DEF dbVars
        <5>8. Ahead' /\ ~(proc'.ndx > Len(order')) BY <5>5, <5>6, <5>7
        <5>9. /\ \A k, l \in 1..Len(received') : k < l => received'[k] < received'[l]
              /\ \A k \in 1..Len(received') : received'[k] < nextSeq'
          BY <4>2, <4>4, <4>5
        <5>10. QED BY <4>2, <5>7, <5>8, <5>9 DEF ReportInv
      <4>7. CASE proc.operator \in {"first", "last"}
        <5>1. proc.reported + 1 = 1 BY <3>1, <4>7
        <5>2. 1 \in 0..(ByteMod - 1) BY SizeAssumption
        <5>3. proc'.reported = 1 BY <4>1, <5>1, <5>2, ByteSame
        <5>4. QED BY <2>1, <4>1, <4>2, <4>4, <4>5, <4>7, <5>3 DEF ReportInv
      <4>8. QED BY <2>2, <4>6, <4>7 DEF Operator
    <3>8. CASE proc' = [proc EXCEPT !.ndx = Position(i)] /\ UNCHANGED <<state, received>>
      <4>1. proc'.operator = proc.operator /\ proc'.reported = proc.reported
            /\ proc'.ndx = Position(i)
        BY <3>8 DEF RacpTypes
      <4>2. CASE proc.operator \in {"all", "ge"}
        <5>1. proc'.ndx = i BY <3>1, <3>5, <4>1, <4>2
        <5>2. Ahead /\ proc.ndx <= i BY <2>1, <2>2, <3>1, <3>2, <4>2 DEF ReportInv
        <5>3. \A j \in 1..n : i < j => proc.ndx < j BY <2>2, <3>2, <5>2
        <5>4. Ahead' BY <2>1, <3>8, <5>1, <5>2, <5>3 DEF Ahead
        <5>5. ~(proc'.ndx > n) BY <1>1, <3>2, <5>1
        <5>6. QED BY <2>1, <3>8, <4>1, <4>2, <5>4, <5>5 DEF ReportInv
      <4>3. CASE proc.operator \notin {"all", "ge"}
        BY <2>1, <3>8, <4>1, <4>3 DEF ReportInv
      <4>4. QED BY <4>2, <4>3
    <3>9. CASE state' = "NO_COMM" /\ received' = <<>> BY <2>1, <3>9, ReportKept
    <3>10. QED BY <3>2, <3>3, <3>6, <3>7, <3>8, <3>9, Reported
  <2>6. QED BY <1>8, <2>3, <2>4, <2>5, RoundCases
<1>9. QED BY <1>2, <1>3, <1>4, <1>5, <1>6, <1>7, <1>8 DEF Next

-----------------------------------------------------------------------------
(* What an answer says *)

Reached(w) == \E k \in 1..Len(received) : received[k] = w
Later(w)   == \E i \in 1..Len(order) : proc.ndx < i /\ slots[order[i]] = w

\* What was asked for has been sent or is still ahead.
WantInv == state = "ACTIVE" =>
  /\ proc.operator \in {"all", "ge"} => \A w \in wanted : Reached(w) \/ Later(w)
  /\ proc.operator = "ge" => \A w \in wanted : w >= proc.from
  /\ proc.operator = "first" =>
       \A w \in wanted : IF proc.reported = 0 THEN Len(order) > 0 /\ slots[order[1]] = w
                         ELSE Reached(w)
  /\ proc.operator = "last" /\ wanted # {} =>
       IF proc.reported = 0 THEN Len(order) > 0 ELSE received # <<>>

CountInv == state = "ACTIVE" /\ received # <<>> => proc.reported # 0

\* What answer r says is true: of success always, and where few records are
\* reported also of the lack of records.
Told(r, few) ==
  /\ r.value = "SUCCESS" => IF proc.operator = "last" THEN wanted # {} => received # <<>>
                            ELSE wanted \subseteq ToSet(received)
  /\ few /\ r.value # "SUCCESS" => wanted = {} /\ received = <<>>

AnswerInv(few) ==
  /\ WantInv
  /\ few => CountInv
  /\ state = "PENDING" /\ response.to = "report" => Told(response, few)

\* The step gives no false answer.
TellsTrue(few) == ~indicating /\ indicating' /\ response'.to = "report" => Told(response', few)

\* The count of records reported does not wrap.
FewReported == proc.reported < ByteMod - 1

LEMMA NothingWanted ==
  ASSUME NEW few, wanted' = {}, received' = <<>>
  PROVE  AnswerInv(few)'
BY DEF AnswerInv, WantInv, CountInv, Told

LEMMA AnswerKept ==
  ASSUME NEW few, AnswerInv(few), UNCHANGED <<wanted, received, proc>>,
         state' # "ACTIVE" \/ UNCHANGED <<state, slots, order>>,
         state' # "PENDING" \/ UNCHANGED <<state, response>>
  PROVE  AnswerInv(few)'
<1>1. WantInv' BY DEF AnswerInv, WantInv, Reached, Later
<1>2. few => CountInv' BY DEF AnswerInv, CountInv
<1>3. (state = "PENDING" /\ response.to = "report" => Told(response, few))'
  BY DEF AnswerInv, Told
<1>4. QED BY <1>1, <1>2, <1>3 DEF AnswerInv

\* An answer that is true is sent, kept or given up.
LEMMA AnswerSent ==
  ASSUME NEW few, NEW now, NEW r, RacpSend(now, r), UNCHANGED proc,
         r.to = "report" => Told(r, few)
  PROVE  AnswerInv(few)' /\ TellsTrue(few)
<1>1. response' = r BY DEF RacpSend
<1>2. TellsTrue(few) BY <1>1 DEF TellsTrue
<1>3. CASE wanted' = {} /\ received' = <<>> BY <1>2, <1>3, NothingWanted
<1>4. CASE state' = "PENDING" /\ r.to = "report" /\ UNCHANGED <<wanted, received>>
  <2>1. Told(response, few)' BY <1>1, <1>4 DEF Told
  <2>2. QED BY <1>2, <1>4, <2>1 DEF AnswerInv, WantInv, CountInv
<1>5. QED BY <1>3, <1>4 DEF RacpSend, Settled

\* The records that the next round has gone past are not wanted.
LEMMA NotPassed ==
  ASSUME RacpTypes, DbTypes, WantInv, state = "ACTIVE", proc.operator \in {"all", "ge"},
         NEW w \in wanted, ~Reached(w)
  PROVE  \E i \in 1..Len(order) : NextIndex < i /\ slots[order[i]] = w
<1>1. Total = Len(order) /\ Total \in Nat /\ proc.ndx \in Nat /\ proc.from \in Nat
  BY DEF DbTypes, RacpTypes, Total
<1>2. PICK i \in 1..Len(order) : proc.ndx < i /\ slots[order[i]] = w BY DEF WantInv, Later
<1>3. CASE proc.operator = "all" BY <1>2, <1>3, IndexAhead
<1>4. CASE proc.operator = "ge"
  <2>1. NextIndex \in Nat BY IndexAhead
  <2>2. i - 1 \in Nat /\ proc.ndx <= i - 1 /\ i - 1 < Total /\ i - 1 + 1 = i BY <1>1, <1>2
  <2>3. Record(i - 1) = w BY <1>2, <2>2 DEF Record
  <2>4. w \in Int /\ w >= proc.from BY <1>2, <1>4 DEF WantInv, DbTypes, Free
  <2>5. SUFFICES ASSUME ~(NextIndex < i) PROVE FALSE BY <1>2
  <2>6. i - 1 \in proc.ndx..(NextIndex - 1) BY <1>1, <2>1, <2>2, <2>5
  <2>7. Record(i - 1) < proc.from BY <1>4, <2>6, IndexSkips
  <2>8. QED BY <1>1, <2>3, <2>4, <2>7
<1>5. QED BY <1>3, <1>4

LEMMA AnswerRound ==
  ASSUME RacpTypes, DbTypes, ReportInv, NEW few, AnswerInv(few), few => FewReported,
         state = "ACTIVE", Report
  PROVE  AnswerInv(few)' /\ TellsTrue(few)
<1> DEFINE n == Len(order)
           m == Len(received)
<1>1. n \in Nat /\ m \in Nat /\ Total = n /\ order \in [1..n -> Slot]
  BY DEF DbTypes, ReportInv, Total
<1>2. /\ proc.ndx \in Nat /\ proc.reported \in Nat /\ proc.operator \in Operator
      /\ DOMAIN received = 1..m /\ ToSet(received) = {received[k] : k \in 1..m}
  BY DEF RacpTypes, ReportInv, ToSet
<1>3. \A w : Reached(w) <=> w \in ToSet(received) BY <1>2 DEF Reached
<1>4. WantInv /\ (few => CountInv) BY DEF AnswerInv
<1>5. UNCHANGED <<slots, order>> BY RoundCases DEF dbVars
<1>6. NextIndex \in Nat BY IndexAhead
<1>7. CASE Exhausted(NextIndex) /\ ReportDone
  <2> DEFINE r == Answer("report", IF proc.reported > 0 THEN "SUCCESS" ELSE "NO_RECORDS_FOUND")
  <2>1. RacpSend("NO_COMM", r) /\ UNCHANGED proc BY <1>7 DEF ReportDone
  <2>2. NextIndex >= n BY <1>1, <1>7 DEF Exhausted
  <2>3. proc.operator \in {"all", "ge"} => \A w \in wanted : Reached(w)
    <3>1. SUFFICES ASSUME proc.operator \in {"all", "ge"}, NEW w \in wanted, ~Reached(w)
                   PROVE  FALSE
      OBVIOUS
    <3>2. \E i \in 1..n : NextIndex < i BY <1>4, <3>1, NotPassed
    <3>3. QED BY <1>1, <1>6, <2>2, <3>2
  <2>4. proc.operator \in {"first", "last"} /\ proc.reported = 0 => n = 0
    BY <1>1, <2>2 DEF NextIndex
  <2>5. (r.value = "SUCCESS" <=> proc.reported # 0) BY <1>2 DEF Answer
  <2>6. CASE proc.reported # 0
    <3>1. proc.operator = "first" => \A w \in wanted : Reached(w) BY <1>4, <2>6 DEF WantInv
    <3>2. proc.operator = "last" => (wanted # {} => received # <<>>)
      BY <1>4, <2>6 DEF WantInv
    <3>3. proc.operator # "last" => wanted \subseteq ToSet(received)
      BY <1>2, <1>3, <2>3, <3>1 DEF Operator
    <3>4. Told(r, few) BY <2>5, <2>6, <3>2, <3>3 DEF Told
    <3> HIDE DEF r
    <3>5. QED BY <2>1, <3>4, AnswerSent
  <2>7. CASE proc.reported = 0
    <3>1. few => received = <<>> BY <1>4, <2>7 DEF CountInv
    <3>2. received = <<>> => \A w : ~Reached(w)
      <4>1. received = <<>> => m = 0 OBVIOUS
      <4>2. QED BY <4>1 DEF Reached
    <3>3. proc.operator \in {"first", "last"} => wanted = {}
      BY <1>4, <2>4, <2>7 DEF WantInv
    <3>4. few => wanted = {} BY <1>2, <2>3, <3>1, <3>2, <3>3 DEF Operator
    <3>5. Told(r, few) BY <2>5, <2>7, <3>1, <3>4 DEF Told
    <3> HIDE DEF r
    <3>6. QED BY <2>1, <3>5, AnswerSent
  <2>8. QED BY <2>6, <2>7
<1>8. CASE proc.operator = "ge" /\ proc.ndx > Total /\ ReportSkip
  <2>1. UNCHANGED <<state, response, indicating, wanted, received>>
    BY <1>8 DEF ReportSkip, history
  <2>2. proc'.operator = "ge" /\ proc'.reported = proc.reported /\ proc'.from = proc.from
    BY <1>8 DEF ReportSkip, RacpTypes
  <2>3. \A w \in wanted : Reached(w)
    <3>1. \A w : ~Later(w) BY <1>1, <1>2, <1>8 DEF Later
    <3>2. QED BY <1>4, <1>8, <3>1 DEF WantInv
  <2>4. \A w \in wanted' : Reached(w)' BY <2>1, <2>3 DEF Reached
  <2>5. WantInv' BY <1>4, <1>8, <2>1, <2>2, <2>4 DEF WantInv
  <2>6. few => CountInv' BY <1>4, <2>1, <2>2 DEF CountInv
  <2>7. QED BY <2>1, <2>5, <2>6 DEF AnswerInv, TellsTrue
<1>9. CASE NextIndex \in 0..(Total - 1) /\ ReportSend(NextIndex)
  <2> DEFINE i == NextIndex
             a == slots[order[i + 1]]
  <2>1. UNCHANGED <<response, indicating>> BY <1>6, <1>9, Reported
  <2>2. TellsTrue(few) BY <2>1 DEF TellsTrue
  <2>3. SUFFICES AnswerInv(few)' BY <2>2
  <2>4. /\ proc.operator = "all" => i = proc.ndx
        /\ proc.operator \in {"first", "last"} => proc.reported = 0
    BY <1>1, <1>9, IndexAhead
  <2>5. i + 1 \in 1..n /\ Record(i) = a BY <1>1, <1>9 DEF Record
  <2>6. proc.operator \in {"all", "ge"} =>
          \A w \in wanted : Reached(w) \/ \E j \in 1..n : i < j /\ slots[order[j]] = w
    BY <1>4, NotPassed
  <2>7. proc.operator = "first" => i = 0 BY <1>1, <2>4, <2>5 DEF NextIndex
  <2>8. Position(i) = IF proc.operator = "ge" THEN i ELSE proc.ndx BY DEF Position
  <2>9. ReportSend(i) BY <1>9
  <2>10. CASE Notification = "SUCCESS"
    <3>1. /\ proc' = [proc EXCEPT !.ndx = Byte(Position(i) + 1), !.reported = Byte(@ + 1)]
          /\ received' = Append(received, a)
          /\ UNCHANGED <<state, wanted>>
      BY <2>5, <2>9, <2>10 DEF ReportSend
    <3> HIDE DEF i, a
    <3>2. /\ proc'.operator = proc.operator /\ proc'.from = proc.from
          /\ proc'.ndx = Byte(Position(i) + 1) /\ proc'.reported = Byte(proc.reported + 1)
      BY <3>1 DEF RacpTypes
    <3>3. a \in Nat \cup {Free} BY <1>1, <2>5 DEF a, DbTypes
    <3>4. /\ Len(received') = m + 1 /\ received'[m + 1] = a /\ received' # <<>>
          /\ \A k \in 1..m : received'[k] = received[k]
      BY <3>1 DEF ReportInv
    <3>5. \A w : w = a \/ Reached(w) => Reached(w)' BY <1>1, <3>4 DEF Reached
    <3>6. CASE proc.operator \in {"all", "ge"}
      <4>1. Position(i) = i BY <2>4, <2>8, <3>6
      <4>2. i + 1 \in 0..(ByteMod - 1)
        <5>1. n <= MaxRecords /\ i + 1 <= n /\ i + 1 >= 1 BY <1>1, <2>5 DEF DbTypes
        <5>2. MaxRecords \in Nat /\ ByteMod \in Nat /\ ByteMod > MaxRecords BY SizeAssumption
        <5>3. n \in Nat /\ i \in Nat BY <1>1, <1>6 DEF i
        <5> HIDE DEF n
        <5>4. QED BY <5>1, <5>2, <5>3
      <4>3. proc'.ndx = i + 1 BY <3>2, <4>1, <4>2, ByteSame
      <4>4. ASSUME NEW w \in wanted', ~Reached(w)' PROVE Later(w)'
        <5>1. ~Reached(w) /\ w # a BY <3>5, <4>4
        <5>2. PICK j \in 1..n : i < j /\ slots[order[j]] = w BY <2>6, <3>1, <3>6, <5>1
        <5>3. j # i + 1 BY <5>1, <5>2 DEF a
        <5>4. i + 1 < j
          <6>1. i \in Nat /\ j \in Int BY <1>1, <1>6 DEF i
          <6>2. QED BY <5>2, <5>3, <6>1
        <5>5. QED BY <1>5, <4>3, <5>2, <5>4 DEF Later
      <4>5. proc.operator = "ge" => \A w \in wanted' : w >= proc'.from
        BY <1>4, <3>1, <3>2 DEF WantInv
      <4>6. WantInv' BY <3>2, <3>6, <4>4, <4>5 DEF WantInv
      <4>7. few => CountInv'
        <5>1. SUFFICES ASSUME few PROVE proc'.reported # 0 BY DEF CountInv
        <5>2. proc.reported + 1 \in 0..(ByteMod - 1)
          BY <1>2, <5>1, SizeAssumption DEF FewReported
        <5>3. proc'.reported = proc.reported + 1 BY <3>2, <5>2, ByteSame
        <5>4. QED BY <1>2, <5>3
      <4>8. QED BY <3>1, <4>6, <4>7 DEF AnswerInv
    <3>7. CASE proc.operator \in {"first", "last"}
      <4>1. 1 \in 0..(ByteMod - 1) /\ proc.reported + 1 = 1 BY <2>4, <3>7, SizeAssumption
      <4>2. proc'.reported = 1 BY <3>2, <4>1, ByteSame
      <4>3. proc.operator = "first" => \A w \in wanted' : Reached(w)'
        <5>1. SUFFICES ASSUME proc.operator = "first", NEW w \in wanted' PROVE Reached(w)'
          OBVIOUS
        <5>2. slots[order[1]] = w BY <1>4, <2>4, <3>1, <5>1 DEF WantInv
        <5>3. w = a BY <2>7, <5>1, <5>2 DEF a
        <5>4. QED BY <3>5, <5>3
      <4>4. WantInv' BY <3>2, <3>4, <3>7, <4>2, <4>3 DEF WantInv
      <4>5. CountInv' BY <4>2 DEF CountInv
      <4>6. QED BY <3>1, <4>4, <4>5 DEF AnswerInv
    <3>8. QED BY <1>2, <3>6, <3>7 DEF Operator
  <2>11. CASE Notification = "NO_TX_BUFFERS"
    <3>1. proc' = [proc EXCEPT !.ndx = Position(i)] /\ UNCHANGED <<state, wanted, received>>
      BY <2>9, <2>11 DEF ReportSend, ResumeAt, history
    <3> HIDE DEF i, a
    <3>2. /\ proc'.operator = proc.operator /\ proc'.from = proc.from
          /\ proc'.ndx = Position(i) /\ proc'.reported = proc.reported
      BY <3>1 DEF RacpTypes
    <3>3. \A w : Reached(w)' <=> Reached(w) BY <3>1 DEF Reached
    <3>4. proc.operator \in {"all", "ge"} => \A w \in wanted' : Reached(w)' \/ Later(w)'
      <4>1. SUFFICES ASSUME proc.operator \in {"all", "ge"}, NEW w \in wanted', ~Reached(w)
                     PROVE  Later(w)'
        BY <3>3
      <4>2. PICK j \in 1..n : i < j /\ slots[order[j]] = w BY <2>6, <3>1, <4>1
      <4>3. proc'.ndx = i BY <2>4, <2>8, <3>2, <4>1
      <4>4. QED BY <1>5, <4>2, <4>3 DEF Later
    <3>5. WantInv' BY <1>4, <1>5, <3>1, <3>2, <3>3, <3>4 DEF WantInv
    <3>6. few => CountInv' BY <1>4, <3>1, <3>2 DEF CountInv
    <3>7. QED BY <3>1, <3>5, <3>6 DEF AnswerInv
  <2>12. CASE Notification \notin {"SUCCESS", "NO_TX_BUFFERS"}
    BY <2>9, <2>12, NothingWanted DEF ReportSend, Settled
  <2>13. QED BY <2>10, <2>11, <2>12
<1>10. QED BY <1>7, <1>8, <1>9, RoundCases

\* What a request asks for is all ahead.
LEMMA AnswerBegun ==
  ASSUME RacpTypes, DbTypes, NEW few, NEW r \in Requests, r.op = "report",
         state' = "ACTIVE", UNCHANGED <<slots, order>>,
         proc' = [operator |-> r.operator, from |-> r.from, ndx |-> 0, reported |-> 0],
         wanted' = Matching(r), received' = <<>>
  PROVE  AnswerInv(few)'
<1> DEFINE n == Len(order)
<1>1. n \in Nat /\ Total = n BY DEF DbTypes, Total
<1>2. r.operator \in Operator BY DEF Requests, Req, Operator
<1>3. \A w \in ToSet(Records) : \E i \in 1..n : 0 < i /\ slots[order[i]] = w
  <2>1. ToSet(Records) = {Record(i - 1) : i \in 1..n} BY <1>1 DEF ToSet, Records
  <2>2. \A i \in 1..n : Record(i - 1) = slots[order[i]] /\ 0 < i
    <3>1. \A i \in 1..n : i - 1 + 1 = i /\ 0 < i BY <1>1
    <3>2. QED BY <3>1 DEF Record
  <2>3. QED BY <2>1, <2>2
<1>4. /\ proc'.operator = r.operator /\ proc'.from = r.from
      /\ proc'.ndx = 0 /\ proc'.reported = 0
  OBVIOUS
<1>5. r.operator \in {"all", "ge"} => \A w \in wanted' : Later(w)'
  <2>1. r.operator \in {"all", "ge"} => wanted' \subseteq ToSet(Records) BY DEF Matching
  <2>2. QED BY <1>3, <1>4, <2>1 DEF Later
<1>6. r.operator = "ge" => \A w \in wanted' : w >= proc'.from BY <1>4 DEF Matching
<1>7. r.operator = "first" => \A w \in wanted' : Len(order') > 0 /\ slots'[order'[1]] = w
  BY <1>1 DEF Matching, Record
<1>8. r.operator = "last" /\ wanted' # {} => Len(order') > 0 BY <1>1 DEF Matching
<1>9. WantInv' BY <1>4, <1>5, <1>6, <1>7, <1>8 DEF WantInv
<1>10. CountInv' BY DEF CountInv
<1>11. QED BY <1>9, <1>10 DEF AnswerInv

LEMMA AnswerEvent ==
  ASSUME RacpTypes, DbTypes, NEW few, AnswerInv(few), OnBleEvt
  PROVE  AnswerInv(few)' /\ TellsTrue(few)
<1> USE DEF racpVars, history
<1>1. UNCHANGED <<slots, order>> BY DEF OnBleEvt, dbVars
<1>2. evts[1] \in EvtType BY Taken DEF OnBleEvt, RacpTypes
<1>3. CASE UNCHANGED <<racpVars, indicating, history>>
  BY <1>1, <1>3, AnswerKept DEF TellsTrue
<1>4. CASE evts[1].id = "WRITE" /\ OnWrite(evts[1].req)
  <2> DEFINE r == evts[1].req
  <2>1. r \in Requests \cup {NoReq} BY <1>2 DEF EvtType
  <2> HIDE DEF r
  <2>2. r.op = "report" => r \in Requests BY <2>1 DEF NoReq, Req
  <2>3. CASE r.op = "report" /\ Execute(r) /\ state = "NO_COMM"
    <3>1. /\ state' = "ACTIVE" /\ wanted' = Matching(r) /\ received' = <<>>
          /\ proc' = [operator |-> r.operator, from |-> r.from, ndx |-> 0, reported |-> 0]
          /\ UNCHANGED indicating
      BY <2>3 DEF Execute
    <3>2. AnswerInv(few)' BY <1>1, <2>2, <2>3, <3>1, AnswerBegun
    <3>3. QED BY <3>1, <3>2 DEF TellsTrue
  <2>4. CASE r.op \in {"count", "abort"} /\ Execute(r)
    <3>1. CASE RacpSend("NO_COMM", ImmediateAnswer(r)) /\ UNCHANGED proc
      <4>1. ImmediateAnswer(r).to # "report" BY <2>4 DEF ImmediateAnswer, Answer
      <4>2. QED BY <3>1, <4>1, AnswerSent
    <3>2. CASE UNCHANGED <<racpVars, indicating, history>> BY <1>3, <3>2
    <3>3. QED BY <2>4, <3>1, <3>2 DEF Execute
  <2>5. CASE UNCHANGED <<racpVars, indicating, history>> BY <1>3, <2>5
  <2>6. QED BY <1>4, <2>3, <2>4, <2>5 DEF OnWrite, Execute, r
<1>5. CASE OnTxComplete
  <2>1. UNCHANGED proc BY <1>5 DEF OnTxComplete
  <2>2. CASE state = "PENDING"
    <3>1. RacpSend("PENDING", response) BY <1>5, <2>2 DEF OnTxComplete, TxAwaited
    <3>2. response.to = "report" => Told(response, few) BY <2>2 DEF AnswerInv
    <3>3. QED BY <2>1, <3>1, <3>2, AnswerSent
  <2>3. CASE state # "PENDING"
    <3>1. UNCHANGED <<state, response, indicating, wanted, received>>
      BY <1>5, <2>3 DEF OnTxComplete, TxAwaited
    <3>2. QED BY <1>1, <2>1, <3>1, AnswerKept DEF TellsTrue
  <2>4. QED BY <2>2, <2>3
<1>6. CASE OnHvc \/ OnConnected
  <2>1. /\ UNCHANGED <<response, indicating, wanted, received, proc>>
        /\ UNCHANGED state \/ state' = "NO_COMM"
    BY <1>6 DEF OnHvc, OnConnected
  <2>2. QED BY <1>1, <2>1, AnswerKept DEF TellsTrue
<1>7. QED BY <1>2, <1>3, <1>4, <1>5, <1>6 DEF OnBleEvt, EvtType

\* A measurement goes behind the records wanted.
LEMMA AnswerMeas ==
  ASSUME RacpTypes, DbTypes, DbInv, NEW few, AnswerInv(few), NewMeas
  PROVE  AnswerInv(few)'
<1> DEFINE n == Len(order)
<1>1. n \in Nat /\ UNCHANGED <<state, response, proc, wanted, received>>
  BY DEF NewMeas, racpVars, history, DbTypes
<1>2. CASE UNCHANGED <<slots, order>> BY <1>1, <1>2, AnswerKept
<1>3. CASE Total # MaxRecords
  <2>1. /\ Len(order') = n + 1
        /\ \A i \in 1..n : slots'[order'[i]] = slots[order[i]]
    BY <1>3, Added
  <2>2. \A w : (Reached(w) => Reached(w)') /\ (Later(w) => Later(w)')
    BY <1>1, <2>1 DEF Reached, Later
  <2>3. n > 0 => 1 \in 1..n /\ Len(order') > 0 BY <1>1, <2>1
  <2>4. WantInv'
    <3>1. WantInv BY DEF AnswerInv
    <3>2. (proc.operator \in {"all", "ge"} => \A w \in wanted : Reached(w) \/ Later(w)) =>
          (proc.operator \in {"all", "ge"} => \A w \in wanted : Reached(w) \/ Later(w))'
      BY <1>1, <2>2
    <3>3. \A w : n > 0 /\ slots[order[1]] = w => Len(order') > 0 /\ slots'[order'[1]] = w
      BY <2>1, <2>3
    <3>4. QED BY <1>1, <2>2, <2>3, <3>1, <3>2, <3>3 DEF WantInv
  <2>5. QED BY <1>1, <2>4 DEF AnswerInv, CountInv, Told
<1>4. QED BY <1>2, <1>3 DEF NewMeas

LEMMA AnswerStep ==
  ASSUME RacpTypes, DbTypes, DbInv, RunInv, ReportInv, NEW few,
         AnswerInv(few), few => FewReported, [Next]_vars
  PROVE  AnswerInv(few)' /\ TellsTrue(few)
<1> USE DEF racpVars, sdVars, dbVars, history
<1>1. CASE \/ UNCHANGED vars
           \/ Connect \/ Configure \/ Transmitted \/ Confirm \/ \E r \in Requests : Request(r)
  <2>1. UNCHANGED <<slots, order, state, response, proc, wanted, received>>
        /\ (indicating' => indicating)
    BY <1>1 DEF vars, Connect, Configure, Transmitted, Confirm, Request
  <2>2. QED BY <2>1, AnswerKept DEF TellsTrue
<1>2. CASE LoseLink BY <1>2, NothingWanted DEF LoseLink, Settled, TellsTrue
<1>3. CASE Report
  <2>1. state = "ACTIVE" BY <1>3, RoundCases DEF RunInv
  <2>2. QED BY <1>3, <2>1, AnswerRound
<1>4. CASE OnBleEvt BY <1>4, AnswerEvent
<1>5. CASE NewMeas
  <2>1. UNCHANGED indicating BY <1>5 DEF NewMeas
  <2>2. QED BY <1>5, <2>1, AnswerMeas DEF TellsTrue
<1>6. ASSUME NEW d \in Slot, RecordDelete(d) PROVE AnswerInv(few)' /\ TellsTrue(few)
  <2>1. UNCHANGED <<indicating, state, response, proc>> BY <1>6 DEF RecordDelete
  <2>2. CASE state = "ACTIVE"
    <3>1. wanted' = {} /\ received' = <<>> BY <1>6, <2>2 DEF RecordDelete
    <3>2. QED BY <2>1, <3>1, NothingWanted DEF TellsTrue
  <2>3. CASE state # "ACTIVE"
    <3>1. UNCHANGED <<wanted, received>> BY <1>6, <2>3 DEF RecordDelete
    <3>2. QED BY <2>1, <2>3, <3>1, AnswerKept DEF TellsTrue
  <2>4. QED BY <2>2, <2>3
<1>7. QED BY <1>1, <1>2, <1>3, <1>4, <1>5, <1>6 DEF Next

-----------------------------------------------------------------------------
(* The invariant and the theorems *)

IInv == RacpTypes /\ DbTypes /\ DbInv /\ RunInv /\ ReportInv

LEMMA Initially ==
  ASSUME Init
  PROVE  IInv /\ WaitInv
<1> USE DEF Init
<1>1. order \in Seq(Slot) /\ Len(order) = 0 BY DEF Slot
<1>2. slots \in [Slot -> Nat \cup {Free}] /\ nextSeq \in Nat BY DEF Free
<1>3. DbTypes BY <1>1, <1>2, SizeAssumption DEF DbTypes
<1>4. 1..Len(order) = {} BY <1>1
<1>5. DbInv BY <1>4 DEF DbInv
<1>6. buffered \in 0..TxBuffers BY SizeAssumption
<1>7. proc \in [operator : Operator, from : Nat, ndx : Nat, reported : Nat]
  BY DEF Idle, Operator
<1>8. evts \in Seq(EvtType) OBVIOUS
<1>9. since \in Nat OBVIOUS
<1>10. RacpTypes BY <1>6, <1>7, <1>8, <1>9 DEF RacpTypes
<1>11. received \in Seq(Nat) /\ Len(received) = 0 OBVIOUS
<1>12. 1..Len(received) = {} BY <1>11
<1>13. ReportInv BY <1>11, <1>12 DEF ReportInv
<1>14. RunInv BY DEF RunInv
<1>15. WaitInv BY DEF WaitInv, NeverStranded
<1>16. QED BY <1>3, <1>5, <1>10, <1>13, <1>14, <1>15 DEF IInv

\* Every state has the invariant.
THEOREM Inductive == Spec => []IInv
<1>1. Init => IInv BY Initially
<1>2. IInv /\ [Next]_vars => IInv'
  <2>1. SUFFICES ASSUME IInv, [Next]_vars PROVE IInv' OBVIOUS
  <2>2. RacpTypes /\ DbTypes /\ DbInv /\ RunInv /\ ReportInv BY <2>1 DEF IInv
  <2>3. RacpTypes' BY <2>1, <2>2, RacpTypesStep
  <2>4. DbTypes' /\ DbInv' BY <2>1, <2>2, DbStep
  <2>5. RunInv' BY <2>1, <2>2, RunStep
  <2>6. ReportInv' BY <2>1, <2>2, <2>4, ReportInvStep
  <2>7. QED BY <2>3, <2>4, <2>5, <2>6 DEF IInv
<1>3. QED BY <1>1, <1>2, PTL DEF Spec

\* The cross references of the database name each used slot once and in the
\* order of the sequence numbers, through deletions and refused measurements.
THEOREM DatabaseConsistent == Spec => []DbConsistent
<1>1. IInv => DbConsistent BY DbConsistency DEF IInv
<1>2. QED BY <1>1, Inductive, PTL

\* A report gives each record at most once and in order, however often the
\* buffers run out on the way.
THEOREM ReportsInOrder == Spec => []ReportInOrder
<1>1. IInv => ReportInOrder
  <2>1. SUFFICES ASSUME IInv PROVE ReportInOrder OBVIOUS
  <2>2. received \in Seq(Nat) BY <2>1 DEF IInv, ReportInv
  <2>3. DOMAIN received = 1..Len(received) BY <2>2
  <2>4. QED BY <2>1, <2>3 DEF IInv, ReportInv, ReportInOrder, Increasing
<1>2. QED BY <1>1, Inductive, PTL

\* Where no link is lost with a notification on the way, the service is never
\* left waiting for a TX_COMPLETE or a confirmation that does not come.
THEOREM NotStranded == TidyLinks /\ Spec => []NeverStranded
<1> SUFFICES ASSUME TidyLinks PROVE Spec => []NeverStranded
  OBVIOUS
<1>1. Init => WaitInv BY Initially
<1>2. IInv /\ IInv' /\ WaitInv /\ [Next]_vars => WaitInv'
  <2>1. SUFFICES ASSUME IInv, IInv', WaitInv, [Next]_vars PROVE WaitInv' OBVIOUS
  <2>2. RacpTypes /\ DbTypes /\ RunInv /\ RunInv' BY <2>1 DEF IInv
  <2>3. QED BY <2>1, <2>2, WaitInvStep
<1>3. WaitInv => NeverStranded BY DEF WaitInv
<1>4. QED BY <1>1, <1>2, <1>3, Inductive, PTL DEF Spec

\* SUCCESS is not answered to a report that has left out a record: every record
\* that matched when it was asked for has been sent, of LAST one.
SuccessTrue ==
  ~indicating /\ indicating' /\ response'.to = "report" /\ response'.value = "SUCCESS" =>
    IF proc.operator = "last" THEN wanted # {} => received # <<>>
    ELSE wanted \subseteq ToSet(received)

\* An answer of success is true whatever is measured, aborted and lost on the way
\* (racp_report_records_procedure, racp_send).  Of a report during which a record
\* is deleted nothing is asked: the others move to indices already gone past.
THEOREM SuccessIsTrue == Spec => [][SuccessTrue]_vars
<1>1. Init => AnswerInv(FALSE) BY DEF Init, AnswerInv, WantInv
<1>2. IInv /\ AnswerInv(FALSE) /\ [Next]_vars => AnswerInv(FALSE)' /\ TellsTrue(FALSE)
  BY AnswerStep DEF IInv
<1>3. TellsTrue(FALSE) => SuccessTrue BY DEF TellsTrue, SuccessTrue, Told
<1>4. QED BY <1>1, <1>2, <1>3, Inductive, PTL DEF Spec

\* So is the answer that there are no records, as long as no report sends as
\* many as the count of records reported, a byte, can hold (proc_records_reported
\* of ble_gls.c; with 254 records or fewer only deletions make a report so long).
THEOREM AnswersAreTrue == Spec /\ []FewReported => AnswerTrue
<1>1. Init => AnswerInv(TRUE) BY DEF Init, AnswerInv, WantInv, CountInv
<1>2. IInv /\ FewReported /\ AnswerInv(TRUE) /\ [Next]_vars => AnswerInv(TRUE)' /\ TellsTrue(TRUE)
  BY AnswerStep DEF IInv
<1>3. TellsTrue(TRUE) =>
        (~indicating /\ indicating' /\ response'.to = "report" =>
           IF response'.value # "SUCCESS" THEN wanted = {} /\ received = <<>>
           ELSE IF proc.operator = "last" THEN wanted # {} => received # <<>>
           ELSE wanted \subseteq ToSet(received))
  BY DEF TellsTrue, Told
<1>4. QED BY <1>1, <1>2, <1>3, Inductive, PTL DEF Spec, AnswerTrue
=============================================================================
