---------------------------- MODULE AppScheduler ----------------------------
(***************************************************************************)
(* app_scheduler.c: the ring buffer through which interrupt handlers hand  *)
(* work to the main loop.                                                  *)
(*                                                                         *)
(* A put may come from any execution level (main, APP_LOW, APP_HIGH) and a *)
(* higher level may preempt a lower one anywhere outside the critical      *)
(* region, in particular between the reservation of a slot and the writing *)
(* of its contents, which the code leaves outside the region on purpose.   *)
(* The only consumer is the main loop, which advances the start index      *)
(* before it reads the slot and then runs the handler on a pointer into    *)
(* that slot while puts go on.                                             *)
(***************************************************************************)
EXTENDS Integers

CONSTANTS
  QueueSize,   \* queue_size given to app_sched_init, a uint16_t
  IndexMod,    \* 2^8 in the code: the queue indices are uint8_t
  TopLevel,    \* execution levels are 0 (main) .. TopLevel (APP_HIGH)
  Event,       \* events whose data fits an entry
  Oversize,    \* events with event_data_size > m_queue_event_size
  Junk         \* contents of an entry that was never written

ASSUME QueueSizeAssumption == QueueSize \in Nat \ {0}
ASSUME IndexModAssumption  == IndexMod \in Nat /\ IndexMod > 1
ASSUME TopLevelAssumption  == TopLevel \in Nat
ASSUME EventAssumption     == Junk \notin Event /\ Event \cap Oversize = {}

VARIABLES
  startIndex,  \* m_queue_start_index
  endIndex,    \* m_queue_end_index
  slots,       \* m_queue_event_headers and m_queue_event_data, per entry
  puts,        \* the app_sched_event_put call in progress at each level
  mainPc,      \* where the main loop is
  cur,         \* event_index of the entry last taken by app_sched_event_get
  running,     \* handler and data handed to event_handler
  wakeup,      \* the event latch behind sd_app_event_wait
  outcome      \* the answer to the last put that was decided

vars == <<startIndex, endIndex, slots, puts, mainPc, cur, running, wakeup, outcome>>

Level    == 0..TopLevel
LastSlot == IF QueueSize < IndexMod THEN QueueSize ELSE IndexMod - 1
Slot     == 0..LastSlot

\* Mutant: the comparison off by one.
NextIndexPastEnd(i) == IF i <= QueueSize THEN i + 1 ELSE 0

\* next_index: the increment is truncated to the width of a uint8_t.
NextIndex(i) == IF i < QueueSize THEN (i + 1) % IndexMod ELSE 0

\* Mutant: the queue is never full.
NeverFull == FALSE

QueueFull  == NextIndex(endIndex) = startIndex
QueueEmpty == endIndex = startIndex

IdlePut == [pc |-> "idle", idx |-> 0, event |-> Junk]

Active(c)     == puts[c].pc # "idle"
InRegion(c)   == puts[c].pc \in {"region", "reserve"}
Filling(c, i) == puts[c].pc = "fill" /\ puts[c].idx = i

\* A level runs only while nothing above it does.
Running(c) == \A d \in Level : d > c => ~Active(d)
MainRuns   == \A d \in Level : ~Active(d)

\* CRITICAL_REGION_ENTER masks the application interrupts, except at the top
\* level, which none of them can preempt.
Masked == \E c \in Level : InRegion(c) /\ c # TopLevel

Init == /\ startIndex = 0 /\ endIndex = 0
        /\ slots = [i \in Slot |-> Junk]
        /\ puts = [c \in Level |-> IdlePut]
        /\ mainPc = "get"
        /\ cur = 0 /\ running = Junk
        /\ wakeup = FALSE
        /\ outcome = "SUCCESS"

-----------------------------------------------------------------------------
(* app_sched_event_put, in the steps at which it can be preempted.         *)

\* Mutant: the critical region does not mask the interrupts above.
CanCallUnmasked(c) == IF c = 0 THEN mainPc = "exec" /\ MainRuns
                      ELSE \A d \in Level : d >= c => ~Active(d)

\* Main puts from within a handler; an interrupt of level c is taken when no
\* interrupt of that level or above is active and none is masked.
CanCall(c) == IF c = 0 THEN mainPc = "exec" /\ MainRuns
              ELSE ~Masked /\ \A d \in Level : d >= c => ~Active(d)

\* The length check, then CRITICAL_REGION_ENTER.  Taking an interrupt also
\* sets the event latch that ends sd_app_event_wait.
PutCall(c, e) ==
  /\ CanCall(c)
  /\ wakeup' = (wakeup \/ c > 0)
  /\ \/ /\ e \in Oversize
        /\ outcome' = "INVALID_LENGTH"
        /\ UNCHANGED puts
     \/ /\ e \in Event
        /\ puts' = [puts EXCEPT ![c] = [pc |-> "region", idx |-> 0, event |-> e]]
        /\ UNCHANGED outcome
  /\ UNCHANGED <<startIndex, endIndex, slots, mainPc, cur, running>>

\* Test APP_SCHED_QUEUE_FULL and read the end index inside the region.
PutTestFull(c) ==
  /\ puts[c].pc = "region" /\ Running(c)
  /\ \/ /\ QueueFull
        /\ puts' = [puts EXCEPT ![c] = IdlePut]
        /\ outcome' = "NO_MEM"
     \/ /\ ~QueueFull
        /\ puts' = [puts EXCEPT ![c].pc = "reserve", ![c].idx = endIndex]
        /\ UNCHANGED outcome
  /\ UNCHANGED <<startIndex, endIndex, slots, mainPc, cur, running, wakeup>>

\* Advance the end index and leave the region: the entry is reserved and
\* visible to the consumer although it is not yet written.
PutReserve(c) ==
  /\ puts[c].pc = "reserve" /\ Running(c)
  /\ endIndex' = NextIndex(puts[c].idx)
  /\ puts' = [puts EXCEPT ![c].pc = "fill"]
  /\ outcome' = "SUCCESS"
  /\ UNCHANGED <<startIndex, slots, mainPc, cur, running, wakeup>>

\* Mutant: the entry is looked up again, at the end index, when it is written.
PutFillAtEnd(c) ==
  /\ puts[c].pc = "fill" /\ Running(c)
  /\ slots' = [slots EXCEPT ![endIndex] = puts[c].event]
  /\ puts' = [puts EXCEPT ![c] = IdlePut]
  /\ UNCHANGED <<startIndex, endIndex, mainPc, cur, running, wakeup, outcome>>

\* Write handler, data and size into the reserved entry and return.
PutFill(c) ==
  /\ puts[c].pc = "fill" /\ Running(c)
  /\ slots' = [slots EXCEPT ![puts[c].idx] = puts[c].event]
  /\ puts' = [puts EXCEPT ![c] = IdlePut]
  /\ UNCHANGED <<startIndex, endIndex, mainPc, cur, running, wakeup, outcome>>

-----------------------------------------------------------------------------
(* app_sched_execute and the main loop around it.                          *)

\* app_sched_event_get: the index moves on before the entry is read.
Get == /\ mainPc = "get" /\ MainRuns
       /\ ~QueueEmpty
       /\ cur' = startIndex
       /\ startIndex' = NextIndex(startIndex)
       /\ mainPc' = "read"
       /\ UNCHANGED <<endIndex, slots, puts, running, wakeup, outcome>>

\* The entry's handler and data pointer are read and the handler is called.
Read == /\ mainPc = "read" /\ MainRuns
        /\ running' = slots[cur]
        /\ mainPc' = "exec"
        /\ UNCHANGED <<startIndex, endIndex, slots, puts, cur, wakeup, outcome>>

\* Mutant: one event per call of app_sched_execute (if in place of while).
HandlerReturnOnce == /\ mainPc = "exec" /\ MainRuns
                     /\ mainPc' = "wait"
                     /\ UNCHANGED <<startIndex, endIndex, slots, puts, cur, running,
                                    wakeup, outcome>>

\* The handler returns and the while loop asks for the next event.
HandlerReturn == /\ mainPc = "exec" /\ MainRuns
                 /\ mainPc' = "get"
                 /\ UNCHANGED <<startIndex, endIndex, slots, puts, cur, running,
                                wakeup, outcome>>

\* NRF_ERROR_NOT_FOUND: app_sched_execute returns to the main loop, which
\* calls sd_app_event_wait.
GetEmpty == /\ mainPc = "get" /\ MainRuns
            /\ QueueEmpty
            /\ mainPc' = "wait"
            /\ UNCHANGED <<startIndex, endIndex, slots, puts, cur, running,
                           wakeup, outcome>>

\* sd_app_event_wait returns if an interrupt was taken since it last returned.
WaitReturn == /\ mainPc = "wait" /\ MainRuns
              /\ wakeup
              /\ wakeup' = FALSE
              /\ mainPc' = "get"
              /\ UNCHANGED <<startIndex, endIndex, slots, puts, cur, running, outcome>>

Main == Get \/ Read \/ HandlerReturn \/ GetEmpty \/ WaitReturn

PutStep(c) == PutTestFull(c) \/ PutReserve(c) \/ PutFill(c)

Next == \/ \E c \in Level : PutStep(c) \/ \E e \in Event \cup Oversize : PutCall(c, e)
        \/ Main

Spec == Init /\ [][Next]_vars

\* Interrupts keep preempting the levels below them but leave them a share of
\* the processor (SF), and handlers return.
Fairness == /\ \A c \in Level : SF_vars(PutStep(c))
            /\ SF_vars(Main)

FairSpec == Spec /\ Fairness

-----------------------------------------------------------------------------
(* Properties.                                                             *)

PutPc == {"idle", "region", "reserve", "fill"}

\* Every variable keeps its type.
TypeOK == /\ startIndex \in Slot /\ endIndex \in Slot /\ cur \in Slot
          /\ slots \in [Slot -> Event \cup {Junk}]
          /\ puts \in [Level -> [pc : PutPc, idx : Slot, event : Event \cup {Junk}]]
          /\ mainPc \in {"get", "read", "exec", "wait"}
          /\ running \in Event \cup {Junk}
          /\ wakeup \in BOOLEAN
          /\ outcome \in {"SUCCESS", "NO_MEM", "INVALID_LENGTH"}

\* The entries from the start index up to the end index, around the ring.
Queued(i) == IF startIndex <= endIndex THEN startIndex <= i /\ i < endIndex
             ELSE i >= startIndex \/ i < endIndex

Serving == mainPc \in {"read", "exec"}

\* No entry is written by a put while another put writes it or while the main
\* loop reads it or runs a handler on it: what the two NOTEs of the code (lines
\* 101 and 150) and the entry kept free between end and start are to ensure.
NoSlotRace == \A c \in Level : puts[c].pc = "fill" =>
                /\ Queued(puts[c].idx)
                /\ Serving => puts[c].idx # cur
                /\ \A d \in Level : puts[d].pc = "fill" /\ puts[d].idx = puts[c].idx => c = d

\* From the moment the handler is called until it returns, the entry its data
\* pointer points into still holds the event it was called with, and that event
\* was written by a put.
HandlerDataStable == mainPc = "exec" => running = slots[cur] /\ running \in Event

\* The main loop never sleeps on an accepted event: when sd_app_event_wait
\* cannot return, the queue is empty or an interrupt is about to fill it.
NoLostWakeup == mainPc = "wait" /\ ~wakeup => QueueEmpty /\ MainRuns

\* The event an entry holds, or will hold when the put that reserved it ends.
Content(i) == IF \E c \in Level : Filling(c, i)
              THEN puts[CHOOSE c \in Level : Filling(c, i)].event
              ELSE slots[i]

QueueLength == IF startIndex <= endIndex THEN endIndex - startIndex
               ELSE endIndex - startIndex + LastSlot + 1
EntryAt(k)  == IF startIndex + k - 1 <= LastSlot THEN startIndex + k - 1
               ELSE startIndex + k - 1 - (LastSlot + 1)

\* The queue the ring stands for, and the event being handled.
Pending == [k \in 1..QueueLength |-> Content(EntryAt(k))]
Current == IF Serving THEN slots[cur] ELSE Junk

Abstract == INSTANCE SchedQueue WITH
  Capacity <- LastSlot, NoEvent <- Junk, pending <- Pending, current <- Current

\* The ring is a bounded FIFO queue: accepted events are handed over once each,
\* in the order their entries were reserved, and NO_MEM is answered only when
\* the queue is full.
ImplementsQueue == Abstract!Spec

\* An accepted event is eventually handed to its handler.
EveryEventServed ==
  \A i \in Slot : (Queued(i) /\ ~(Serving /\ cur = i)) ~> (mainPc = "exec" /\ cur = i)
=============================================================================
