--------------------------------- MODULE Gls ---------------------------------
(***************************************************************************)
(* The glucose service: its record access control point (ble_gls.c) and    *)
(* its database (ble_gls_db.c) between an application that adds and        *)
(* deletes measurements and a peer that asks for them.  Records go out as  *)
(* notifications into the few buffers of the SoftDevice; the answer to a   *)
(* request is an indication, one at a time.  Events of the SoftDevice are  *)
(* handled in order by the main loop, while the radio and the peer go on.  *)
(* A record is its sequence number.                                        *)
(***************************************************************************)
EXTENDS Integers, Sequences, SequencesExt

CONSTANTS
  MaxRecords,    \* BLE_GLS_DB_MAX_RECORDS
  TxBuffers,     \* notifications the SoftDevice can hold
  ByteMod,       \* 2^8: record index and counters are uint8_t
  MaxMeas,       \* bound: measurements taken, no more than m_next_seq_num can number
  MaxEvents,     \* bound: events the SoftDevice holds for the application
  TidyLinks      \* TRUE: a link is lost only with no notification on the way

ASSUME SizeAssumption == /\ MaxRecords \in Nat \ {0} /\ TxBuffers \in Nat \ {0}
                         /\ ByteMod \in Nat /\ ByteMod > MaxRecords
\* m_next_seq_num is a uint16_t: no number is given twice.
ASSUME MeasAssumption == MaxMeas \in 0..65536

VARIABLES
  slots,         \* m_database: the record of each slot, or Free
  order,         \* m_database_crossref up to m_num_records
  nextSeq,       \* m_next_seq_num
  state,         \* m_gls_state
  proc,          \* m_racp_proc_operator, _seq_num, _record_ndx, _records_reported
  since,         \* m_racp_proc_records_reported_since_txcomplete
  response,      \* m_pending_racp_response
  running,       \* racp_report_records_procedure is looping
  link,          \* SoftDevice: connected
  configured,    \* SoftDevice: the peer has set both CCCDs
  buffered,      \* SoftDevice: notifications not yet transmitted
  indicating,    \* SoftDevice: an indication is not yet confirmed
  evts,          \* SoftDevice: events for the application
  owed,          \* history: the last accepted request, while it has no answer
  wanted,        \* history: records that matched it, if it was for a report
  received       \* history: records notified for it; both forgotten when a
                 \* record is deleted during the report

dbVars   == <<slots, order, nextSeq>>
racpVars == <<state, proc, since, response, running>>
sdVars   == <<link, configured, buffered, indicating, evts>>
history  == <<owed, wanted, received>>
vars     == <<dbVars, racpVars, sdVars, history>>

Slot     == 0..(MaxRecords - 1)
Free     == -1
Operator == {"all", "first", "last", "ge"}
Record(i) == slots[order[i + 1]]                     \* ble_gls_db_record_get
Total    == Len(order)
Records  == [i \in 1..Total |-> Record(i - 1)]

\* A request, with the sequence number of its filter.  One that the service
\* rejects for its form is answered at once, as a count is.
Req(op, operator, from) == [op |-> op, operator |-> operator, from |-> from]
Answer(op, value) == [to |-> op, value |-> value]
Evt(id, req)      == [id |-> id, req |-> req]
NoReq    == Req("none", "all", 0)
Simple(id) == Evt(id, NoReq)
Waiting(id) == \E i \in DOMAIN evts : evts[i].id = id

Requests == {Req("report", o, 0) : o \in Operator \ {"ge"}} \cup {Req("report", "ge", 1)}
            \cup {Req(op, "all", 0) : op \in {"count", "abort"}}

Idle == [operator |-> "all", from |-> 0, ndx |-> 0, reported |-> 0]

Settled == owed' = "none" /\ wanted' = {} /\ received' = <<>>

\* ble_gls_init
Init == /\ slots = [s \in Slot |-> Free] /\ order = <<>> /\ nextSeq = 0
        /\ state = "NO_COMM" /\ proc = Idle /\ since = 0
        /\ response = Answer("none", "none") /\ running = FALSE
        /\ link = FALSE /\ configured = FALSE /\ buffered = 0 /\ indicating = FALSE
        /\ evts = <<>>
        /\ owed = "none" /\ wanted = {} /\ received = <<>>

-----------------------------------------------------------------------------
(* The SoftDevice and the peer *)

HasRoom == Len(evts) < MaxEvents

Connect == /\ ~link /\ ~Waiting("DISCONNECTED") /\ HasRoom
           /\ link' = TRUE /\ configured' = FALSE
           /\ evts' = Append(evts, Simple("CONNECTED"))
           /\ UNCHANGED <<dbVars, racpVars, buffered, indicating, history>>

LoseLink == /\ link /\ HasRoom
            /\ TidyLinks => buffered = 0
            /\ link' = FALSE /\ buffered' = 0 /\ indicating' = FALSE
            /\ evts' = Append(evts, Simple("DISCONNECTED"))
            /\ Settled
            /\ UNCHANGED <<dbVars, racpVars, configured>>

\* The peer sets or clears the CCCDs.
Configure == /\ link /\ configured' = ~configured
             /\ UNCHANGED <<dbVars, racpVars, link, buffered, indicating, evts, history>>

\* Some notifications have been transmitted.
Transmitted == /\ link /\ buffered > 0 /\ HasRoom
               /\ buffered' \in 0..(buffered - 1)
               /\ evts' = Append(evts, Simple("TX_COMPLETE"))
               /\ UNCHANGED <<dbVars, racpVars, link, configured, indicating, history>>

Confirm == /\ indicating /\ HasRoom
           /\ indicating' = FALSE
           /\ evts' = Append(evts, Simple("HVC"))
           /\ UNCHANGED <<dbVars, racpVars, link, configured, buffered, history>>

\* A write to the control point waits for its authorisation before the next.
Request(r) == /\ link /\ HasRoom /\ ~Waiting("WRITE")
              /\ evts' = Append(evts, Evt("WRITE", r))
              /\ UNCHANGED <<dbVars, racpVars, link, configured, buffered, indicating, history>>

-----------------------------------------------------------------------------
(* The answer *)

\* sd_ble_gatts_hvx of an indication
Indication == IF ~link THEN {"INVALID_HANDLE"} ELSE IF ~configured THEN {"INVALID_STATE"}
              ELSE IF indicating THEN {"BUSY"}
              ELSE {"SUCCESS"} \cup (IF buffered = TxBuffers THEN {"NO_TX_BUFFERS"} ELSE {})

\* Records may still be on their way.
InTurn(now) == now = "PENDING" \/ since = 0

\* racp_send in state now.  Any error but NO_TX_BUFFERS ends the procedure, with
\* a call of the error handler unless it is INVALID_STATE.
RacpSend(now, r) ==
  /\ response' = r
  /\ \E res \in IF InTurn(now) THEN Indication ELSE {"NO_TX_BUFFERS"} :
       /\ state' = CASE res = "SUCCESS"       -> "IND_VERIF"
                     [] res = "NO_TX_BUFFERS" -> "PENDING"
                     [] OTHER                 -> "NO_COMM"
       /\ indicating' = (indicating \/ res = "SUCCESS")
  /\ IF state' # "PENDING" THEN Settled
     ELSE /\ owed' = r.to
          /\ IF r.to = "report" THEN UNCHANGED <<wanted, received>>
             ELSE wanted' = {} /\ received' = <<>>

-----------------------------------------------------------------------------
(* The report *)

\* Record index of the next record to report; Total or more if there is none.
NextIndex ==
  IF proc.operator = "ge"
  THEN CHOOSE i \in proc.ndx..(proc.ndx + Total) :
         /\ i >= Total \/ Record(i) >= proc.from
         /\ \A j \in proc.ndx..(i - 1) : j < Total /\ Record(j) < proc.from
  ELSE IF proc.operator = "all" THEN proc.ndx
  ELSE IF proc.reported # 0 \/ Total = 0 THEN Total
  ELSE IF proc.operator = "first" THEN 0 ELSE Total - 1

\* The test of greater_or_equal is for equality, that of all is not.
Exhausted(i) == IF proc.operator = "ge" THEN i = Total ELSE i >= Total

\* sd_ble_gatts_hvx of a notification
Notification == IF ~link THEN "INVALID_HANDLE" ELSE IF ~configured THEN "INVALID_STATE"
                ELSE IF buffered = TxBuffers THEN "NO_TX_BUFFERS" ELSE "SUCCESS"

Byte(n) == n % ByteMod

ReportDone == /\ RacpSend("NO_COMM", Answer("report", IF proc.reported > 0 THEN "SUCCESS"
                                                       ELSE "NO_RECORDS_FOUND"))
              /\ running' = FALSE
              /\ UNCHANGED <<proc, since, buffered>>

\* Nothing to send, but not at the end either: the loop goes round.
ReportSkip == /\ proc' = [proc EXCEPT !.ndx = Byte(@ + 1)]
              /\ UNCHANGED <<state, since, response, running, buffered, indicating, history>>

Position(i) == IF proc.operator = "ge" THEN i ELSE proc.ndx

\* Mutant: a record refused for want of a buffer is not sent again.
SkipRefused(i) == Byte(Position(i) + 1)
\* Mutant: the report starts again when there are buffers.
StartAgain(i) == 0
ResumeAt(i) == Position(i)

ReportSend(i) ==
  CASE Notification = "SUCCESS" ->
         /\ proc' = [proc EXCEPT !.ndx = Byte(Position(i) + 1), !.reported = Byte(@ + 1)]
         /\ since' = Byte(since + 1)
         /\ buffered' = buffered + 1
         /\ received' = Append(received, Record(i))
         /\ UNCHANGED <<state, response, running, indicating, owed, wanted>>
    [] Notification = "NO_TX_BUFFERS" ->
         /\ running' = FALSE
         /\ proc' = [proc EXCEPT !.ndx = ResumeAt(i)]
         /\ UNCHANGED <<state, since, response, buffered, indicating, history>>
    [] OTHER ->
         /\ running' = FALSE /\ state' = "NO_COMM" /\ Settled
         /\ UNCHANGED <<proc, since, response, buffered, indicating>>

\* One round of racp_report_records_procedure.
Report == /\ running
          /\ \/ Exhausted(NextIndex) /\ ReportDone
             \/ ~Exhausted(NextIndex) /\ NextIndex >= Total /\ ReportSkip
             \/ NextIndex < Total /\ ReportSend(NextIndex)
          /\ UNCHANGED <<dbVars, link, configured, evts>>

-----------------------------------------------------------------------------
(* Events: ble_gls_on_ble_evt *)

Matching(r) == CASE r.operator = "all"   -> ToSet(Records)
                 [] r.operator = "first" -> IF Total = 0 THEN {} ELSE {Record(0)}
                 [] r.operator = "last"  -> IF Total = 0 THEN {} ELSE {Record(Total - 1)}
                 [] r.operator = "ge"    -> {n \in ToSet(Records) : n >= r.from}

\* Answers that need no report.  An abort stops the report that is running; it
\* fails in any other state.
ImmediateAnswer(r) ==
  Answer(r.op, CASE r.op = "count"   -> "NUMBER"
                 [] r.op = "abort"   -> IF state = "ACTIVE" THEN "SUCCESS" ELSE "ABORT_FAILED")

\* on_racp_value_write, once the CCCDs are found configured and the reply to
\* the write is accepted.
Execute(r) ==
  \/ /\ r.op = "report" /\ state = "NO_COMM"
     /\ state' = "ACTIVE" /\ running' = TRUE
     /\ proc' = [operator |-> r.operator, from |-> r.from, ndx |-> 0, reported |-> 0]
     /\ owed' = "report" /\ wanted' = Matching(r) /\ received' = <<>>
     /\ UNCHANGED <<since, response, indicating>>
  \/ /\ r.op = "abort" \/ (r.op = "count" /\ state = "NO_COMM")
     /\ RacpSend("NO_COMM", ImmediateAnswer(r))
     /\ UNCHANGED <<proc, since, running>>
  \/ /\ r.op # "abort" /\ state # "NO_COMM"            \* PROC_ALREADY_IN_PROGRESS
     /\ UNCHANGED <<racpVars, indicating, history>>

\* CCCDs not set, or no link any more: no request is executed.
OnWrite(r) == IF configured /\ link THEN Execute(r) ELSE UNCHANGED <<racpVars, indicating, history>>

\* Mutant: only the answer is taken up again.
PendingOnly == state = "PENDING"
TxAwaited == state \in {"PENDING", "ACTIVE"}

OnTxComplete ==
  /\ since' = 0
  /\ UNCHANGED proc
  /\ IF ~TxAwaited THEN UNCHANGED <<state, response, running, indicating, history>>
     ELSE IF state = "PENDING" THEN RacpSend("PENDING", response) /\ UNCHANGED running
     ELSE running' = TRUE /\ UNCHANGED <<state, response, indicating, history>>

\* on_hvc: in any other state it is an error, for the error handler.
OnHvc == /\ state' = IF state = "IND_VERIF" THEN "NO_COMM" ELSE state
         /\ UNCHANGED <<proc, since, response, running, indicating, history>>

OnConnected == /\ state' = "NO_COMM"
               /\ UNCHANGED <<proc, since, response, running, indicating, history>>

OnBleEvt == /\ ~running /\ evts # <<>>
            /\ evts' = Tail(evts)
            /\ CASE evts[1].id = "CONNECTED"    -> OnConnected
                 [] evts[1].id = "WRITE"        -> OnWrite(evts[1].req)
                 [] evts[1].id = "TX_COMPLETE"  -> OnTxComplete
                 [] evts[1].id = "HVC"          -> OnHvc
                 [] evts[1].id = "DISCONNECTED" -> UNCHANGED <<racpVars, indicating, history>>
            /\ UNCHANGED <<dbVars, link, configured>>
            /\ UNCHANGED buffered

-----------------------------------------------------------------------------
(* The application *)

FirstFree == CHOOSE s \in Slot : slots[s] = Free /\ \A r \in 0..(s - 1) : slots[r] # Free

\* ble_gls_glucose_new_meas: a full database refuses the record, but its number
\* is used up.  MaxMeas ends the numbering before the uint16_t wraps.
NewMeas == /\ ~running /\ nextSeq < MaxMeas
           /\ nextSeq' = nextSeq + 1
           /\ IF Total = MaxRecords THEN UNCHANGED <<slots, order>>
              ELSE /\ slots' = [slots EXCEPT ![FirstFree] = nextSeq]
                   /\ order' = Append(order, FirstFree)
           /\ UNCHANGED <<racpVars, sdVars, history>>

\* Mutant: the cross references are not moved.
NotMoved(i) == SubSeq(order, 1, Total - 1)
OrderWithout(i) == RemoveAt(order, i + 1)

\* ble_gls_db_record_delete
RecordDelete(i) == /\ ~running /\ i < Total
                   /\ slots' = [slots EXCEPT ![order[i + 1]] = Free]
                   /\ order' = OrderWithout(i)
                   /\ IF state = "ACTIVE" THEN wanted' = {} /\ received' = <<>>
                      ELSE UNCHANGED <<wanted, received>>
                   /\ UNCHANGED <<nextSeq, racpVars, sdVars, owed>>

Next == \/ Connect \/ LoseLink \/ Configure \/ Transmitted \/ Confirm
        \/ \E r \in Requests : Request(r)
        \/ Report \/ OnBleEvt
        \/ NewMeas
        \/ \E i \in Slot : RecordDelete(i)

Spec == Init /\ [][Next]_vars

\* The main loop goes on and the radio transmits.
FairSpec == Spec /\ WF_vars(Report) /\ WF_vars(OnBleEvt) /\ WF_vars(Transmitted)

-----------------------------------------------------------------------------
(* Properties *)

Increasing(s) == \A i, j \in DOMAIN s : i < j => s[i] < s[j]

\* The cross references name the slots in use, each once, oldest record first:
\* what FIRST and LAST and the next sequence number after a restart rely on.
DbConsistent == /\ IsInjective(order)
                /\ ToSet(order) = {s \in Slot : slots[s] # Free}
                /\ Increasing(Append(Records, nextSeq))

\* A report gives each record at most once, in order, whatever buffers it had to
\* wait for and whatever was measured meanwhile.  (Not so when a record is
\* deleted during the report: those behind it move to other indices.)
ReportInOrder == Increasing(received)

\* An answer to a report that goes out tells the truth: success means that every
\* record that matched when it was asked for has been sent (of LAST, one
\* record), no records found means that there was none.
AnswerTrue ==
  [][~indicating /\ indicating' /\ response'.to = "report" =>
       IF response'.value # "SUCCESS" THEN wanted = {} /\ received = <<>>
       ELSE IF proc.operator = "last" THEN wanted # {} => received # <<>>
       ELSE wanted \subseteq ToSet(received)]_vars

\* A procedure that is not finished has something to go on with: the service
\* never waits for an event that does not come, refusing every request.
NeverStranded ==
  link /\ ~Waiting("CONNECTED") =>
    /\ running => state = "ACTIVE"
    /\ state \in {"ACTIVE", "PENDING"} => running \/ buffered > 0 \/ Waiting("TX_COMPLETE")
    /\ state = "IND_VERIF" => indicating \/ Waiting("HVC")

\* A request accepted is answered, unless the link goes down or the error
\* handler is called; not even a peer that aborts again and again prevents it.
RequestsAnswered == (owed # "none") ~> (owed = "none")
=============================================================================
