------------------------- MODULE AppSchedulerProofs -------------------------
(***************************************************************************)
(* Proofs about AppScheduler for every queue size, index width, number of  *)
(* execution levels and set of events.                                     *)
(***************************************************************************)
EXTENDS AppScheduler, SequenceTheorems, TLAPS

USE QueueSizeAssumption, IndexModAssumption, TopLevelAssumption

\* next_index walks the ring 0..LastSlot and closes it, whichever of the queue
\* size and the index width is the smaller.
LEMMA NextIndexRing ==
  ASSUME NEW i \in Slot
  PROVE  NextIndex(i) = IF i = LastSlot THEN 0 ELSE i + 1
<1>1. CASE i = LastSlot
  <2>1. CASE QueueSize < IndexMod
    BY <1>1, <2>1 DEF NextIndex, LastSlot, Slot
  <2>2. CASE ~(QueueSize < IndexMod)
    <3>1. i + 1 = IndexMod /\ i < QueueSize BY <1>1, <2>2 DEF LastSlot
    <3>2. IndexMod % IndexMod = 0 OBVIOUS
    <3>3. QED BY <1>1, <3>1, <3>2 DEF NextIndex
  <2>3. QED BY <2>1, <2>2
<1>2. CASE i # LastSlot
  <2>1. i < QueueSize /\ i + 1 < IndexMod /\ i + 1 \in Nat BY <1>2 DEF LastSlot, Slot
  <2>2. (i + 1) % IndexMod = i + 1 BY <2>1
  <2>3. QED BY <1>2, <2>1, <2>2 DEF NextIndex
<1>3. QED BY <1>1, <1>2

\* Appending at the end index adds exactly that entry to the queued ones.
LEMMA QueuedGrows ==
  ASSUME startIndex \in Slot, endIndex \in Slot, ~QueueFull,
         startIndex' = startIndex, endIndex' = NextIndex(endIndex),
         NEW i \in Slot
  PROVE  Queued(i)' <=> (Queued(i) \/ i = endIndex)
<1>1. endIndex' = IF endIndex = LastSlot THEN 0 ELSE endIndex + 1
  BY NextIndexRing
<1>2. LastSlot \in Nat BY DEF LastSlot
<1>3. QED BY <1>1, <1>2 DEF Queued, Slot, QueueFull

\* Advancing the start index removes exactly the entry it pointed to.
LEMMA QueuedShrinks ==
  ASSUME startIndex \in Slot, endIndex \in Slot, ~QueueEmpty,
         startIndex' = NextIndex(startIndex), endIndex' = endIndex,
         NEW i \in Slot
  PROVE  Queued(i)' <=> (Queued(i) /\ i # startIndex)
<1>1. startIndex' = IF startIndex = LastSlot THEN 0 ELSE startIndex + 1
  BY NextIndexRing
<1>2. LastSlot \in Nat BY DEF LastSlot
<1>3. QED BY <1>1, <1>2 DEF Queued, Slot, QueueEmpty

\* The entry just before the start index is the one the ring keeps free.
LEMMA GapNotQueued ==
  ASSUME startIndex \in Slot, endIndex \in Slot, NEW i \in Slot, NextIndex(i) = startIndex
  PROVE  ~Queued(i)
<1>1. startIndex = IF i = LastSlot THEN 0 ELSE i + 1
  BY NextIndexRing
<1>2. LastSlot \in Nat BY DEF LastSlot
<1>3. QED BY <1>1, <1>2 DEF Queued, Slot

-----------------------------------------------------------------------------
(* The inductive invariant.                                                *)

\* What is known of a put in progress, by the step it has reached.
PutInv == \A c \in Level :
  /\ Active(c) => puts[c].event \in Event
  /\ Active(c) /\ c = 0 => mainPc = "exec"
  /\ puts[c].pc = "reserve" => puts[c].idx = endIndex /\ ~QueueFull
  /\ puts[c].pc = "fill" => Queued(puts[c].idx)

\* At most one put is in the critical region, and no two write one entry.
ExclusionInv == \A c, d \in Level : c # d =>
  /\ ~(InRegion(c) /\ InRegion(d))
  /\ ~(puts[c].pc = "fill" /\ puts[d].pc = "fill" /\ puts[c].idx = puts[d].idx)

\* The entry being served is the free one just before the start index, and
\* every entry the consumer may reach is written or being written.
ServeInv ==
  /\ Serving => NextIndex(cur) = startIndex /\ slots[cur] \in Event
  /\ mainPc = "exec" => running = slots[cur]
  /\ \A i \in Slot : Queued(i) =>
       slots[i] \in Event \/ \E c \in Level : Filling(c, i)

IInv == TypeOK /\ PutInv /\ ExclusionInv /\ ServeInv /\ NoLostWakeup

LEMMA InitIInv == Init => IInv
<1> SUFFICES ASSUME Init PROVE IInv OBVIOUS
<1> USE DEF Init
<1>1. LastSlot \in Nat /\ 0 \in Slot BY DEF LastSlot, Slot
<1>2. TypeOK BY <1>1 DEF TypeOK, IdlePut, PutPc
<1>3. PutInv BY DEF PutInv, Active, IdlePut
<1>4. ExclusionInv BY DEF ExclusionInv, InRegion, IdlePut
<1>5. ServeInv BY <1>1 DEF ServeInv, Serving, Queued, Slot
<1>6. NoLostWakeup BY DEF NoLostWakeup
<1>7. QED BY <1>2, <1>3, <1>4, <1>5, <1>6 DEF IInv

\* A put that is turned away, or enters the region, disturbs no other.
LEMMA PutCallIInv ==
  ASSUME IInv, NEW c \in Level, NEW e \in Event \cup Oversize, PutCall(c, e)
  PROVE  IInv'
<1> USE DEF PutCall
<1>1. CASE e \in Oversize /\ outcome' = "INVALID_LENGTH" /\ UNCHANGED puts
  <2>1. UNCHANGED <<startIndex, endIndex, slots, puts, mainPc, cur, running>>
    BY <1>1
  <2>2. wakeup' \in BOOLEAN /\ (wakeup => wakeup') BY DEF IInv, TypeOK, Level
  <2>3. TypeOK' BY <1>1, <2>1, <2>2 DEF IInv, TypeOK
  <2>4. PutInv' BY <2>1 DEF IInv, PutInv, Active, Queued, QueueFull
  <2>5. ExclusionInv' BY <2>1 DEF IInv, ExclusionInv, InRegion
  <2>6. ServeInv' BY <2>1 DEF IInv, ServeInv, Serving, Queued, Filling
  <2>7. NoLostWakeup'
    BY <2>1, <2>2 DEF IInv, NoLostWakeup, QueueEmpty, MainRuns, Active
  <2>8. QED BY <2>3, <2>4, <2>5, <2>6, <2>7 DEF IInv
<1>2. CASE /\ e \in Event /\ UNCHANGED outcome
           /\ puts' = [puts EXCEPT ![c] = [pc |-> "region", idx |-> 0, event |-> e]]
  <2>1. UNCHANGED <<startIndex, endIndex, slots, mainPc, cur, running>>
    BY <1>2
  <2>2. /\ puts'[c] = [pc |-> "region", idx |-> 0, event |-> e]
        /\ \A d \in Level : d # c => puts'[d] = puts[d]
    BY <1>2 DEF IInv, TypeOK
  <2>3. wakeup' \in BOOLEAN BY DEF IInv, TypeOK, Level
  <2>4. ~Active(c) /\ (c = 0 => mainPc = "exec") /\ \A d \in Level : d # c => ~InRegion(d)
    BY DEF CanCall, MainRuns, Masked, Active, InRegion, Level
  <2>5. TypeOK'
    <3>1. 0 \in Slot BY DEF Slot, LastSlot
    <3>2. puts' \in [Level -> [pc : PutPc, idx : Slot, event : Event \cup {Junk}]]
      BY <1>2, <3>1 DEF IInv, TypeOK, PutPc
    <3>3. QED BY <1>2, <2>1, <2>3, <3>2 DEF IInv, TypeOK
  <2>6. PutInv' BY <1>2, <2>1, <2>2, <2>4 DEF IInv, PutInv, Active, Queued, QueueFull
  <2>7. ExclusionInv' BY <2>2, <2>4 DEF IInv, ExclusionInv, InRegion
  <2>8. ServeInv'
    <3>1. \A i \in Slot, d \in Level : Filling(d, i) => Filling(d, i)'
      BY <2>2, <2>4 DEF Filling, Active
    <3>2. QED BY <2>1, <3>1 DEF IInv, ServeInv, Serving, Queued
  <2>9. NoLostWakeup'
    <3>1. CASE c = 0 BY <3>1, <2>1, <2>4 DEF NoLostWakeup
    <3>2. CASE c # 0
      <4>1. c > 0 BY <3>2 DEF Level
      <4>2. wakeup' BY <4>1
      <4>3. QED BY <4>2 DEF NoLostWakeup
    <3>3. QED BY <3>1, <3>2
  <2>10. QED BY <2>5, <2>6, <2>7, <2>8, <2>9 DEF IInv
<1>3. QED BY <1>1, <1>2

\* The full test ends the put or records the entry about to be reserved.
LEMMA PutTestFullIInv ==
  ASSUME IInv, NEW c \in Level, PutTestFull(c)
  PROVE  IInv'
<1>1. UNCHANGED <<startIndex, endIndex, slots, mainPc, cur, running, wakeup>>
  BY DEF PutTestFull
<1>2. puts[c].pc = "region" /\ Active(c) /\ InRegion(c)
  BY DEF PutTestFull, Active, InRegion
<1>3. \A d \in Level : d # c => puts'[d] = puts[d]
  BY DEF PutTestFull, IInv, TypeOK
<1>4. \/ puts'[c] = IdlePut
      \/ /\ puts'[c].pc = "reserve" /\ puts'[c].idx = endIndex
         /\ puts'[c].event = puts[c].event
         /\ ~QueueFull
  BY DEF PutTestFull, IInv, TypeOK
<1>5. TypeOK'
  <2>1. IdlePut \in [pc : PutPc, idx : Slot, event : Event \cup {Junk}]
    BY DEF IdlePut, PutPc, Slot, LastSlot
  <2>2. puts' \in [Level -> [pc : PutPc, idx : Slot, event : Event \cup {Junk}]]
    BY <2>1 DEF PutTestFull, IInv, TypeOK, PutPc
  <2>3. QED BY <1>1, <2>2 DEF PutTestFull, IInv, TypeOK
<1>6. PutInv'
  <2>1. QueueFull' = QueueFull /\ \A i : Queued(i)' = Queued(i)
    BY <1>1 DEF QueueFull, Queued
  <2>2. /\ puts'[c].pc \in {"idle", "reserve"}
        /\ puts'[c].pc = "reserve" => /\ puts'[c].idx = endIndex /\ ~QueueFull
                                      /\ puts'[c].event = puts[c].event
    BY <1>4 DEF IdlePut
  <2>3. QED BY <1>1, <1>2, <1>3, <2>1, <2>2 DEF IInv, PutInv, Active
<1>7. ExclusionInv'
  <2>1. \A d \in Level : InRegion(d)' => InRegion(d)
    BY <1>2, <1>3 DEF InRegion
  <2>2. puts'[c].pc # "fill" BY <1>4 DEF IdlePut
  <2>3. QED BY <1>3, <2>1, <2>2 DEF IInv, ExclusionInv
<1>8. ServeInv'
  <2>1. \A i \in Slot, d \in Level : Filling(d, i) => Filling(d, i)'
    BY <1>2, <1>3 DEF Filling
  <2>2. QED BY <1>1, <2>1 DEF IInv, ServeInv, Serving, Queued
<1>9. NoLostWakeup' BY <1>1, <1>2 DEF IInv, NoLostWakeup, MainRuns
<1>10. QED BY <1>5, <1>6, <1>7, <1>8, <1>9 DEF IInv

\* The reservation adds to the queue the one entry this put will write.
LEMMA PutReserveIInv ==
  ASSUME IInv, NEW c \in Level, PutReserve(c)
  PROVE  IInv'
<1>1. UNCHANGED <<startIndex, slots, mainPc, cur, running, wakeup>>
  BY DEF PutReserve
<1>2. /\ puts[c].pc = "reserve" /\ puts[c].idx = endIndex /\ ~QueueFull
      /\ endIndex' = NextIndex(endIndex) /\ Active(c) /\ InRegion(c)
  BY DEF PutReserve, IInv, PutInv, Active, InRegion
<1>3. /\ puts'[c] = [puts[c] EXCEPT !.pc = "fill"]
      /\ \A d \in Level : d # c => puts'[d] = puts[d]
  BY DEF PutReserve, IInv, TypeOK
<1>4. startIndex \in Slot /\ endIndex \in Slot BY DEF IInv, TypeOK
<1>5. \A i \in Slot : Queued(i)' <=> (Queued(i) \/ i = endIndex)
  BY <1>1, <1>2, <1>4, QueuedGrows
<1>6. puts'[c].idx = endIndex /\ puts'[c].pc = "fill" /\ puts'[c].event = puts[c].event
  BY <1>2, <1>3 DEF IInv, TypeOK
<1>7. TypeOK'
  <2>1. endIndex' \in Slot BY <1>2, <1>4, NextIndexRing DEF Slot, LastSlot
  <2>2. puts' \in [Level -> [pc : PutPc, idx : Slot, event : Event \cup {Junk}]]
    BY DEF PutReserve, IInv, TypeOK, PutPc
  <2>3. QED BY <1>1, <2>1, <2>2 DEF PutReserve, IInv, TypeOK
<1>8. PutInv'
  <2>1. \A d \in Level : d # c => puts[d].pc # "reserve"
    BY <1>2 DEF IInv, ExclusionInv, InRegion
  <2>2. \A d \in Level : puts[d].idx \in Slot BY DEF IInv, TypeOK
  <2>3. SUFFICES ASSUME NEW d \in Level
        PROVE  /\ Active(d)' => puts'[d].event \in Event
               /\ Active(d)' /\ d = 0 => mainPc' = "exec"
               /\ puts'[d].pc = "reserve" => puts'[d].idx = endIndex' /\ ~QueueFull'
               /\ puts'[d].pc = "fill" => Queued(puts[d].idx)'
    BY DEF PutInv
  <2>4. UNCHANGED mainPc BY <1>1
  <2>5. CASE d = c BY <1>2, <1>4, <1>5, <1>6, <2>4, <2>5 DEF IInv, PutInv, Active
  <2>6. CASE d # c BY <1>3, <1>5, <2>1, <2>2, <2>4, <2>6 DEF IInv, PutInv, Active
  <2>7. QED BY <2>5, <2>6
<1>9. ExclusionInv'
  <2>1. ~Queued(endIndex) BY <1>4 DEF Queued, Slot, LastSlot
  <2>2. \A d \in Level : puts[d].pc = "fill" => puts[d].idx # endIndex
    BY <2>1 DEF IInv, PutInv
  <2>3. \A d \in Level : InRegion(d)' => InRegion(d)
    BY <1>3, <1>6 DEF InRegion
  <2>4. \A d \in Level : d # c => puts'[d] = puts[d] BY <1>3
  <2>5. ASSUME NEW d1 \in Level, NEW d2 \in Level, d1 # d2,
               puts'[d1].pc = "fill", puts'[d2].pc = "fill",
               puts'[d1].idx = puts'[d2].idx
        PROVE  FALSE
    BY <1>6, <2>2, <2>4, <2>5 DEF IInv, ExclusionInv
  <2>6. QED BY <2>3, <2>5 DEF IInv, ExclusionInv
<1>10. ServeInv'
  <2>1. \A i \in Slot, d \in Level : Filling(d, i) => Filling(d, i)'
    BY <1>2, <1>3 DEF Filling
  <2>2. \A i \in Slot : i = endIndex => Filling(c, i)' BY <1>6 DEF Filling
  <2>3. QED BY <1>1, <1>5, <2>1, <2>2 DEF IInv, ServeInv, Serving
<1>11. NoLostWakeup' BY <1>1, <1>2 DEF IInv, NoLostWakeup, MainRuns
<1>12. QED BY <1>7, <1>8, <1>9, <1>10, <1>11 DEF IInv

\* The entry written is the put's own: queued, and not the one being served.
LEMMA PutFillIInv ==
  ASSUME IInv, NEW c \in Level, PutFill(c)
  PROVE  IInv'
<1>1. UNCHANGED <<startIndex, endIndex, mainPc, cur, running, wakeup, outcome>>
  BY DEF PutFill
<1>2. puts[c].pc = "fill" /\ Active(c) /\ Queued(puts[c].idx) /\ puts[c].event \in Event
  BY DEF PutFill, IInv, PutInv, Active
<1>3. puts'[c] = IdlePut /\ \A d \in Level : d # c => puts'[d] = puts[d]
  BY DEF PutFill, IInv, TypeOK
<1>4. puts[c].idx \in Slot BY DEF IInv, TypeOK
<1>5. /\ slots'[puts[c].idx] = puts[c].event
      /\ \A i \in Slot : i # puts[c].idx => slots'[i] = slots[i]
  BY <1>4 DEF PutFill, IInv, TypeOK
<1>6. Serving => puts[c].idx # cur
  BY <1>2, GapNotQueued DEF IInv, TypeOK, ServeInv
<1>7. TypeOK'
  <2>1. IdlePut \in [pc : PutPc, idx : Slot, event : Event \cup {Junk}]
    BY DEF IdlePut, PutPc, Slot, LastSlot
  <2>2. puts' \in [Level -> [pc : PutPc, idx : Slot, event : Event \cup {Junk}]]
    BY <2>1 DEF PutFill, IInv, TypeOK
  <2>3. slots' \in [Slot -> Event \cup {Junk}]
    BY <1>2 DEF PutFill, IInv, TypeOK
  <2>4. QED BY <1>1, <2>2, <2>3 DEF IInv, TypeOK
<1>8. PutInv'
  <2>1. QueueFull' = QueueFull /\ \A i : Queued(i)' = Queued(i)
    BY <1>1 DEF QueueFull, Queued
  <2>2. QED BY <1>1, <1>3, <2>1 DEF IInv, PutInv, Active, IdlePut
<1>9. ExclusionInv' BY <1>3 DEF IInv, ExclusionInv, InRegion, IdlePut
<1>10. ServeInv'
  <2>1. Serving' = Serving /\ \A i : Queued(i)' = Queued(i)
    BY <1>1 DEF Serving, Queued
  <2>2. Serving => slots'[cur] = slots[cur]
    BY <1>5, <1>6 DEF IInv, TypeOK
  <2>3. ASSUME NEW i \in Slot, Queued(i)
        PROVE  slots'[i] \in Event \/ \E d \in Level : Filling(d, i)'
    <3>1. CASE i = puts[c].idx BY <3>1, <1>2, <1>5
    <3>2. CASE i # puts[c].idx
      <4>1. slots[i] \in Event \/ \E d \in Level : Filling(d, i)
        BY <2>3 DEF IInv, ServeInv
      <4>2. \A d \in Level : Filling(d, i) => d # c BY <3>2 DEF Filling
      <4>3. QED BY <1>3, <1>5, <3>2, <4>1, <4>2 DEF Filling
    <3>3. QED BY <3>1, <3>2
  <2>4. mainPc = "exec" => Serving BY DEF Serving
  <2>5. QED BY <1>1, <2>1, <2>2, <2>3, <2>4 DEF IInv, ServeInv
<1>11. NoLostWakeup' BY <1>1, <1>2 DEF IInv, NoLostWakeup, MainRuns
<1>12. QED BY <1>7, <1>8, <1>9, <1>10, <1>11 DEF IInv

\* The main loop runs only while no put is in progress, so the entry it takes
\* is written, and it becomes the free one before the new start index.
LEMMA GetIInv ==
  ASSUME IInv, Get
  PROVE  IInv'
<1>1. UNCHANGED <<endIndex, slots, puts, running, wakeup, outcome>> BY DEF Get
<1>2. /\ \A d \in Level : puts[d].pc = "idle"
      /\ cur' = startIndex /\ startIndex' = NextIndex(startIndex)
      /\ mainPc' = "read" /\ ~QueueEmpty
  BY DEF Get, MainRuns, Active
<1>3. startIndex \in Slot /\ endIndex \in Slot BY DEF IInv, TypeOK
<1>4. \A i \in Slot : Queued(i)' <=> (Queued(i) /\ i # startIndex)
  BY <1>1, <1>2, <1>3, QueuedShrinks
<1>5. startIndex' \in Slot BY <1>2, <1>3, NextIndexRing DEF Slot, LastSlot
<1>6. TypeOK' BY <1>1, <1>2, <1>3, <1>5 DEF IInv, TypeOK
<1>7. PutInv' BY <1>1, <1>2 DEF PutInv, Active
<1>8. ExclusionInv' BY <1>1, <1>2 DEF ExclusionInv, InRegion
<1>9. ServeInv'
  <2>1. \A i \in Slot : Queued(i) => slots[i] \in Event
    BY <1>2 DEF IInv, ServeInv, Filling
  <2>2. Queued(startIndex)
    BY <1>2, <1>3 DEF Queued, QueueEmpty, Slot, LastSlot
  <2>3. slots[startIndex] \in Event BY <2>1, <2>2, <1>3
  <2>4. QED BY <1>1, <1>2, <1>4, <2>1, <2>3 DEF ServeInv, Serving, NextIndex
<1>10. NoLostWakeup' BY <1>2 DEF NoLostWakeup
<1>11. QED BY <1>6, <1>7, <1>8, <1>9, <1>10 DEF IInv

\* The other steps of the main loop move no index and write no entry.
LEMMA MainIInv ==
  ASSUME IInv, Read \/ HandlerReturn \/ GetEmpty \/ WaitReturn
  PROVE  IInv'
<1> USE DEF Read, HandlerReturn, GetEmpty, WaitReturn
<1>1. UNCHANGED <<startIndex, endIndex, slots, puts, cur, outcome>> OBVIOUS
<1>2. \A d \in Level : puts[d].pc = "idle" BY DEF MainRuns, Active
<1>3. TypeOK'
  <2>1. running' \in Event \cup {Junk} BY DEF IInv, TypeOK
  <2>2. mainPc' \in {"get", "read", "exec", "wait"} OBVIOUS
  <2>3. wakeup' \in BOOLEAN BY DEF IInv, TypeOK
  <2>4. QED BY <1>1, <2>1, <2>2, <2>3 DEF IInv, TypeOK
<1>4. PutInv' BY <1>1, <1>2 DEF PutInv, Active
<1>5. ExclusionInv' BY <1>1, <1>2 DEF ExclusionInv, InRegion
<1>6. ServeInv'
  <2>1. Serving' => Serving BY DEF Serving
  <2>2. mainPc' = "exec" => running' = slots[cur] OBVIOUS
  <2>3. QED BY <1>1, <2>1, <2>2 DEF IInv, ServeInv, Queued, Filling, NextIndex
<1>7. NoLostWakeup'
  <2>1. mainPc' = "wait" => QueueEmpty OBVIOUS
  <2>2. QED BY <1>1, <1>2, <2>1 DEF NoLostWakeup, QueueEmpty, MainRuns, Active
<1>8. QED BY <1>3, <1>4, <1>5, <1>6, <1>7 DEF IInv

LEMMA NextIInv == IInv /\ [Next]_vars => IInv'
<1> SUFFICES ASSUME IInv, [Next]_vars PROVE IInv' OBVIOUS
<1>1. ASSUME NEW c \in Level, NEW e \in Event \cup Oversize, PutCall(c, e) PROVE IInv'
  BY <1>1, PutCallIInv
<1>2. ASSUME NEW c \in Level, PutTestFull(c) PROVE IInv' BY <1>2, PutTestFullIInv
<1>3. ASSUME NEW c \in Level, PutReserve(c) PROVE IInv' BY <1>3, PutReserveIInv
<1>4. ASSUME NEW c \in Level, PutFill(c) PROVE IInv' BY <1>4, PutFillIInv
<1>5. CASE Get BY <1>5, GetIInv
<1>6. CASE Read \/ HandlerReturn \/ GetEmpty \/ WaitReturn BY <1>6, MainIInv
<1>7. CASE UNCHANGED vars
  BY <1>7 DEF vars, IInv, TypeOK, PutInv, ExclusionInv, ServeInv, NoLostWakeup, Active,
     InRegion, Filling, Queued, QueueFull, QueueEmpty, Serving, MainRuns
<1>8. QED BY <1>1, <1>2, <1>3, <1>4, <1>5, <1>6, <1>7 DEF Next, PutStep, Main

\* The invariant holds in every reachable state.
THEOREM Inductive == Spec => []IInv
<1>1. QED BY InitIInv, NextIInv, PTL DEF Spec

\* Type correctness, for every instance.
THEOREM TypeCorrect == Spec => []TypeOK
<1>1. IInv => TypeOK BY DEF IInv
<1>2. QED BY <1>1, Inductive, PTL

\* No entry is ever written by two puts at once, nor while the main loop reads
\* it or runs a handler on it, whatever the preemption.
THEOREM SlotRaceFree == Spec => []NoSlotRace
<1>1. IInv => NoSlotRace
  <2> SUFFICES ASSUME IInv, NEW c \in Level, puts[c].pc = "fill"
               PROVE  /\ Queued(puts[c].idx)
                      /\ Serving => puts[c].idx # cur
                      /\ \A d \in Level : puts[d].pc = "fill" /\ puts[d].idx = puts[c].idx => c = d
    BY DEF NoSlotRace
  <2>1. Queued(puts[c].idx) BY DEF IInv, PutInv
  <2>2. Serving => ~Queued(cur) BY GapNotQueued DEF IInv, TypeOK, ServeInv
  <2>3. QED BY <2>1, <2>2 DEF IInv, ExclusionInv
<1>2. QED BY <1>1, Inductive, PTL

\* While a handler runs, the entry its data pointer points into keeps the event.
THEOREM HandlerData == Spec => []HandlerDataStable
<1>1. IInv => HandlerDataStable BY DEF IInv, ServeInv, Serving, HandlerDataStable
<1>2. QED BY <1>1, Inductive, PTL

\* The main loop never sleeps on an accepted event.
THEOREM WakeupKept == Spec => []NoLostWakeup
<1>1. IInv => NoLostWakeup BY DEF IInv
<1>2. QED BY <1>1, Inductive, PTL

-----------------------------------------------------------------------------
(* The ring implements the bounded FIFO queue of SchedQueue. *)

USE EventAssumption

\* The entries counted from the start index are slots, are queued, and are
\* distinct from the end index; the ring is full at LastSlot entries.
LEMMA RingEntries ==
  IInv => /\ QueueLength \in 0..LastSlot
          /\ QueueEmpty <=> QueueLength = 0
          /\ QueueFull <=> QueueLength = LastSlot
          /\ \A k \in 1..QueueLength : EntryAt(k) \in Slot /\ Queued(EntryAt(k))
<1> SUFFICES ASSUME IInv
             PROVE  /\ QueueLength \in 0..LastSlot
                    /\ QueueEmpty <=> QueueLength = 0
                    /\ QueueFull <=> QueueLength = LastSlot
                    /\ \A k \in 1..QueueLength : EntryAt(k) \in Slot /\ Queued(EntryAt(k))
  OBVIOUS
<1>1. /\ startIndex \in 0..LastSlot /\ endIndex \in 0..LastSlot
      /\ LastSlot \in Nat /\ LastSlot > 0
  BY DEF IInv, TypeOK, Slot, LastSlot
<1>2. NextIndex(endIndex) = IF endIndex = LastSlot THEN 0 ELSE endIndex + 1
  BY <1>1, NextIndexRing DEF Slot
<1>3. QueueLength \in 0..LastSlot /\ (QueueEmpty <=> QueueLength = 0)
  BY <1>1 DEF QueueLength, QueueEmpty
<1>4. QueueFull <=> QueueLength = LastSlot
  BY <1>1, <1>2 DEF QueueLength, QueueFull
<1>5. ASSUME NEW k \in 1..QueueLength PROVE EntryAt(k) \in Slot /\ Queued(EntryAt(k))
  BY <1>1 DEF QueueLength, EntryAt, Slot, Queued
<1>6. QED BY <1>3, <1>4, <1>5

\* An entry reserved and not yet written counts as holding what its put will
\* write into it.
LEMMA ContentFilling ==
  IInv => \A i \in Slot, d \in Level : Filling(d, i) => Content(i) = puts[d].event
<1> SUFFICES ASSUME IInv, NEW i \in Slot, NEW c \in Level, Filling(c, i)
             PROVE  Content(i) = puts[c].event
  OBVIOUS
<1>1. \A d \in Level : Filling(d, i) => d = c BY DEF IInv, ExclusionInv, Filling
<1>2. (CHOOSE d \in Level : Filling(d, i)) = c BY <1>1
<1>3. QED BY <1>2 DEF Content

LEMMA ContentWritten ==
  \A i : (\A c \in Level : ~Filling(c, i)) => Content(i) = slots[i]
BY DEF Content

\* Every queued entry holds an event, so the abstract queue is a sequence of
\* events as long as the ring is full.
LEMMA PendingSeq ==
  IInv => Pending \in Seq(Event) /\ Len(Pending) = QueueLength
<1> SUFFICES ASSUME IInv PROVE Pending \in Seq(Event) /\ Len(Pending) = QueueLength
  OBVIOUS
<1>1. ASSUME NEW i \in Slot, Queued(i) PROVE Content(i) \in Event
  <2>1. CASE \E c \in Level : Filling(c, i)
    <3>1. PICK c \in Level : Filling(c, i) BY <2>1
    <3>2. puts[c].event \in Event BY <3>1 DEF IInv, PutInv, Filling, Active
    <3>3. QED BY <3>1, <3>2, ContentFilling
  <2>2. CASE \A c \in Level : ~Filling(c, i)
    BY <1>1, <2>2, ContentWritten DEF IInv, ServeInv
  <2>3. QED BY <2>1, <2>2
<1>2. QueueLength \in Nat BY RingEntries DEF LastSlot
<1>3. Pending \in [1..QueueLength -> Event]
  BY <1>1, RingEntries DEF Pending
<1>4. Pending \in Seq(Event) BY <1>2, <1>3, SeqDef
<1>5. QED BY <1>2, <1>3, <1>4, LenProperties

-----------------------------------------------------------------------------
(* Every step of the ring is a step of the queue or leaves it unchanged.   *)

\* What a step leaves unchanged of the queue when it moves no index and every
\* queued entry keeps its content.
LEMMA PendingUnchanged ==
  ASSUME IInv, startIndex' = startIndex, endIndex' = endIndex,
         \A i \in Slot : Queued(i) => Content(i)' = Content(i)
  PROVE  Pending' = Pending
<1>1. QueueLength' = QueueLength /\ \A k : EntryAt(k)' = EntryAt(k)
  BY DEF QueueLength, EntryAt
<1>2. \A k \in 1..QueueLength : Content(EntryAt(k))' = Content(EntryAt(k))
  BY <1>1, RingEntries DEF Content, Filling
<1>3. QED BY <1>1, <1>2 DEF Pending

\* An entry keeps its content when no entry is written and the puts that are
\* writing it, and what they write, stay the same.
LEMMA ContentKept ==
  ASSUME IInv, slots' = slots, NEW i \in Slot,
         \A d \in Level : /\ Filling(d, i)' <=> Filling(d, i)
                          /\ Filling(d, i) => puts'[d].event = puts[d].event
  PROVE  Content(i)' = Content(i)
<1>1. CASE \E d \in Level : Filling(d, i)
  <2>1. PICK d \in Level : Filling(d, i) BY <1>1
  <2>2. \A f \in Level : Filling(f, i) => f = d
    BY <2>1 DEF IInv, ExclusionInv, Filling
  <2>3. /\ (CHOOSE f \in Level : Filling(f, i)) = d
        /\ (CHOOSE f \in Level : Filling(f, i)') = d
    BY <2>1, <2>2
  <2>4. QED BY <2>1, <2>3 DEF Content
<1>2. CASE \A d \in Level : ~Filling(d, i)
  BY <1>2 DEF Content
<1>3. QED BY <1>1, <1>2

\* Starting a put, whether or not it is turned away at once.
LEMMA PutCallRefines ==
  ASSUME IInv, NEW c \in Level, NEW e \in Event \cup Oversize, PutCall(c, e)
  PROVE  Abstract!Reject \/ UNCHANGED Abstract!vars
<1> USE DEF PutCall
<1>1. UNCHANGED <<startIndex, endIndex, slots, mainPc, cur, running>> OBVIOUS
<1>2. \A i \in Slot, d \in Level :
        (Filling(d, i)' <=> Filling(d, i)) /\ (Filling(d, i) => puts'[d] = puts[d])
  <2>1. ~Active(c) BY DEF CanCall, MainRuns, Level
  <2>2. \A d \in Level : d # c => puts'[d] = puts[d] BY DEF IInv, TypeOK
  <2>3. puts'[c] = puts[c] \/ puts'[c] = [pc |-> "region", idx |-> 0, event |-> e]
    BY DEF IInv, TypeOK
  <2>4. QED BY <2>1, <2>2, <2>3 DEF Filling, Active
<1>3. \A i \in Slot : Content(i)' = Content(i) BY <1>1, <1>2, ContentKept
<1>4. Pending' = Pending BY <1>1, <1>3, PendingUnchanged
<1>5. Current' = Current BY <1>1 DEF Current, Serving
<1>6. outcome' = "INVALID_LENGTH" \/ outcome' = outcome OBVIOUS
<1>7. QED BY <1>4, <1>5, <1>6 DEF Abstract!Reject, Abstract!vars

\* NO_MEM is answered only when the abstract queue is at capacity.
LEMMA PutTestFullRefines ==
  ASSUME IInv, NEW c \in Level, PutTestFull(c)
  PROVE  Abstract!Refuse \/ UNCHANGED Abstract!vars
<1> USE DEF PutTestFull
<1>1. UNCHANGED <<startIndex, endIndex, slots, mainPc, cur, running>> OBVIOUS
<1>2. \A i \in Slot, d \in Level :
        (Filling(d, i)' <=> Filling(d, i)) /\ (Filling(d, i) => puts'[d] = puts[d])
  <2>1. \A d \in Level : d # c => puts'[d] = puts[d] BY DEF IInv, TypeOK
  <2>2. puts[c].pc # "fill" /\ puts'[c].pc # "fill" BY DEF IInv, TypeOK, IdlePut
  <2>3. QED BY <2>1, <2>2 DEF Filling
<1>3. \A i \in Slot : Content(i)' = Content(i) BY <1>1, <1>2, ContentKept
<1>4. Pending' = Pending BY <1>1, <1>3, PendingUnchanged
<1>5. Current' = Current BY <1>1 DEF Current, Serving
<1>6. Len(Pending) = QueueLength /\ (QueueFull <=> QueueLength = LastSlot)
  BY PendingSeq, RingEntries
<1>7. (outcome' = "NO_MEM" /\ QueueFull) \/ outcome' = outcome OBVIOUS
<1>8. QED BY <1>4, <1>5, <1>6, <1>7 DEF Abstract!Refuse, Abstract!vars

\* The reservation is the point at which the abstract queue accepts the event.
LEMMA PutReserveRefines ==
  ASSUME IInv, IInv', NEW c \in Level, PutReserve(c)
  PROVE  \E e \in Event : Abstract!Accept(e)
<1>1. UNCHANGED <<startIndex, slots, mainPc, cur, running, wakeup>>
  BY DEF PutReserve
<1>2. /\ puts[c].pc = "reserve" /\ puts[c].idx = endIndex /\ ~QueueFull
      /\ endIndex' = NextIndex(endIndex) /\ puts[c].event \in Event
      /\ outcome' = "SUCCESS"
  BY DEF PutReserve, IInv, PutInv, Active
<1>3. /\ puts'[c].pc = "fill" /\ puts'[c].idx = endIndex
      /\ puts'[c].event = puts[c].event
      /\ \A d \in Level : d # c => puts'[d] = puts[d]
  BY <1>2 DEF PutReserve, IInv, TypeOK
<1>4. /\ startIndex \in 0..LastSlot /\ endIndex \in 0..LastSlot
      /\ LastSlot \in Nat /\ LastSlot > 0
  BY DEF IInv, TypeOK, Slot, LastSlot
<1>5. QueueLength < LastSlot /\ QueueLength \in Nat
  BY <1>2, <1>4, RingEntries
<1>6. /\ QueueLength' = QueueLength + 1
      /\ EntryAt(QueueLength + 1) = endIndex
      /\ \A k \in 1..QueueLength : EntryAt(k) # endIndex
  <2>1. endIndex' = IF endIndex = LastSlot THEN 0 ELSE endIndex + 1
    BY <1>2, <1>4, NextIndexRing DEF Slot
  <2>2. ~(endIndex' = startIndex) BY <1>2 DEF QueueFull
  <2>3. QED BY <1>1, <1>4, <2>1, <2>2 DEF QueueLength, EntryAt
<1>7. \A k : EntryAt(k)' = EntryAt(k) BY <1>1 DEF EntryAt
<1>8. \A i \in Slot : i # endIndex => Content(i)' = Content(i)
  <2> SUFFICES ASSUME NEW i \in Slot, i # endIndex PROVE Content(i)' = Content(i)
    OBVIOUS
  <2>1. \A d \in Level : /\ Filling(d, i)' <=> Filling(d, i)
                         /\ Filling(d, i) => puts'[d].event = puts[d].event
    BY <1>2, <1>3 DEF Filling
  <2>2. QED BY <1>1, <2>1, ContentKept
<1>9. \A i \in Slot : i = endIndex => Content(i)' = puts[c].event
  <2>1. \A i \in Slot : i = endIndex => Filling(c, i)' BY <1>3 DEF Filling
  <2>2. \A i \in Slot : i = endIndex => \A d \in Level : Filling(d, i)' => d = c
    <3>1. (\A d, f \in Level : d # f =>
             ~(puts[d].pc = "fill" /\ puts[f].pc = "fill" /\ puts[d].idx = puts[f].idx))'
      BY DEF IInv, ExclusionInv
    <3>2. QED BY <1>3, <3>1 DEF Filling
  <2>3. \A i \in Slot : i = endIndex => (CHOOSE d \in Level : Filling(d, i)') = c
    BY <2>1, <2>2
  <2>4. QED BY <1>3, <2>1, <2>3 DEF Content
<1>10. /\ Pending \in Seq(Event) /\ Len(Pending) = QueueLength
       /\ Pending' \in Seq(Event) /\ Len(Pending') = QueueLength + 1
  <2>1. (IInv => Pending \in Seq(Event) /\ Len(Pending) = QueueLength)'
    BY PendingSeq, PTL
  <2>2. QED BY <1>6, <2>1, PendingSeq
<1>11. Pending' = Append(Pending, puts[c].event)
  <2> DEFINE app == Append(Pending, puts[c].event)
  <2>1. /\ app \in Seq(Event) /\ Len(app) = QueueLength + 1
        /\ \A k \in 1..QueueLength : app[k] = Pending[k]
        /\ app[QueueLength + 1] = puts[c].event
    BY <1>2, <1>10, AppendProperties
  <2>2. \A k \in 1..QueueLength + 1 : Pending'[k] = Content(EntryAt(k))'
    BY <1>6, <1>5 DEF Pending
  <2>3. \A k \in 1..QueueLength : Pending[k] = Content(EntryAt(k))
    BY DEF Pending
  <2>4. \A k \in 1..QueueLength + 1 : Pending'[k] = app[k]
    <3> SUFFICES ASSUME NEW k \in 1..QueueLength + 1 PROVE Pending'[k] = app[k]
      OBVIOUS
    <3>1. CASE k = QueueLength + 1
      <4>1. Content(EntryAt(k))' = puts[c].event
        <5>1. EntryAt(k)' \in Slot /\ EntryAt(k)' = endIndex
          BY <1>4, <1>6, <1>7, <3>1 DEF Slot
        <5>2. QED BY <5>1, <1>9 DEF Content, Filling
      <4>2. QED BY <3>1, <4>1, <2>1, <2>2
    <3>2. CASE k \in 1..QueueLength
      <4>1. EntryAt(k) \in Slot /\ EntryAt(k) # endIndex BY <1>6, <3>2, RingEntries
      <4>2. Content(EntryAt(k))' = Content(EntryAt(k))
        BY <4>1, <1>7, <1>8 DEF Content, Filling
      <4>3. QED BY <3>2, <4>2, <2>1, <2>2, <2>3
    <3>3. k = QueueLength + 1 \/ k \in 1..QueueLength BY <1>5
    <3>4. QED BY <3>1, <3>2, <3>3
  <2>5. Len(Pending') = Len(app) BY <1>10, <2>1
  <2> HIDE DEF app
  <2>6. Pending' = app BY <1>10, <2>1, <2>4, <2>5, SeqEqual
  <2>7. QED BY <2>6 DEF app
<1>12. Current' = Current BY <1>1 DEF Current, Serving
<1>13. Len(Pending) < LastSlot BY <1>5, <1>10
<1>14. QED BY <1>2, <1>11, <1>12, <1>13 DEF Abstract!Accept

\* Writing the entry changes nothing the abstract queue can see.
LEMMA PutFillRefines ==
  ASSUME IInv, NEW c \in Level, PutFill(c)
  PROVE  UNCHANGED Abstract!vars
<1>1. UNCHANGED <<startIndex, endIndex, mainPc, cur, running, wakeup, outcome>>
  BY DEF PutFill
<1>2. puts[c].pc = "fill" /\ puts[c].idx \in Slot /\ Queued(puts[c].idx)
  BY DEF PutFill, IInv, TypeOK, PutInv
<1>3. puts'[c].pc = "idle" /\ \A d \in Level : d # c => puts'[d] = puts[d]
  BY DEF PutFill, IInv, TypeOK, IdlePut
<1>4. /\ slots'[puts[c].idx] = puts[c].event
      /\ \A i \in Slot : i # puts[c].idx => slots'[i] = slots[i]
  BY <1>2 DEF PutFill, IInv, TypeOK
<1>5. \A i \in Slot : Content(i)' = Content(i)
  <2> SUFFICES ASSUME NEW i \in Slot PROVE Content(i)' = Content(i) OBVIOUS
  <2>1. CASE i = puts[c].idx
    <3>1. Filling(c, i) BY <2>1, <1>2 DEF Filling
    <3>2. Content(i) = puts[c].event BY <3>1, ContentFilling
    <3>3. \A d \in Level : ~Filling(d, i)'
      BY <1>2, <1>3, <2>1 DEF IInv, ExclusionInv, Filling
    <3>4. QED BY <1>4, <2>1, <3>2, <3>3 DEF Content
  <2>2. CASE i # puts[c].idx
    <3>1. \A d \in Level : /\ Filling(d, i)' <=> Filling(d, i)
                           /\ Filling(d, i) => puts'[d] = puts[d]
      BY <1>2, <1>3, <2>2 DEF Filling
    <3>2. CASE \E d \in Level : Filling(d, i)
      <4>1. PICK d \in Level : Filling(d, i) BY <3>2
      <4>2. \A f \in Level : Filling(f, i) => f = d
        BY <4>1 DEF IInv, ExclusionInv, Filling
      <4>3. /\ (CHOOSE f \in Level : Filling(f, i)) = d
            /\ (CHOOSE f \in Level : Filling(f, i)') = d
        BY <3>1, <4>1, <4>2
      <4>4. QED BY <3>1, <4>1, <4>3 DEF Content
    <3>3. CASE \A d \in Level : ~Filling(d, i)
      BY <1>4, <2>2, <3>1, <3>3 DEF Content
    <3>4. QED BY <3>2, <3>3
  <2>3. QED BY <2>1, <2>2
<1>6. Pending' = Pending BY <1>1, <1>5, PendingUnchanged
<1>7. Current' = Current
  <2>1. Serving => puts[c].idx # cur
    BY <1>2, GapNotQueued DEF IInv, TypeOK, ServeInv
  <2>2. Serving => slots'[cur] = slots[cur] BY <1>4, <2>1 DEF IInv, TypeOK
  <2>3. QED BY <1>1, <2>2 DEF Current, Serving
<1>8. QED BY <1>1, <1>6, <1>7 DEF Abstract!vars

\* Advancing the start index takes the oldest event of the abstract queue.
LEMMA GetRefines ==
  ASSUME IInv, IInv', Get
  PROVE  Abstract!Serve
<1>1. UNCHANGED <<endIndex, slots, puts, outcome>> BY DEF Get
<1>2. /\ \A d \in Level : puts[d].pc = "idle"
      /\ cur' = startIndex /\ startIndex' = NextIndex(startIndex)
      /\ mainPc = "get" /\ mainPc' = "read" /\ ~QueueEmpty
  BY DEF Get, MainRuns, Active
<1>3. /\ startIndex \in 0..LastSlot /\ endIndex \in 0..LastSlot
      /\ LastSlot \in Nat /\ LastSlot > 0
  BY DEF IInv, TypeOK, Slot, LastSlot
<1>4. \A i : Content(i) = slots[i] /\ Content(i)' = slots[i]
  BY <1>1, <1>2 DEF Content, Filling
<1>5. QueueLength \in Nat /\ QueueLength > 0
  BY <1>2, <1>3, RingEntries
<1>6. /\ QueueLength' = QueueLength - 1
      /\ EntryAt(1) = startIndex
      /\ \A k \in 1..QueueLength - 1 : EntryAt(k)' = EntryAt(k + 1)
  <2>1. startIndex' = IF startIndex = LastSlot THEN 0 ELSE startIndex + 1
    BY <1>2, <1>3, NextIndexRing DEF Slot
  <2>2. ~(endIndex = startIndex) BY <1>2 DEF QueueEmpty
  <2>3. QED BY <1>1, <1>3, <2>1, <2>2 DEF QueueLength, EntryAt
<1>7. /\ Pending \in Seq(Event) /\ Len(Pending) = QueueLength
      /\ Pending' \in Seq(Event) /\ Len(Pending') = QueueLength - 1
  <2>1. (IInv => Pending \in Seq(Event) /\ Len(Pending) = QueueLength)'
    BY PendingSeq, PTL
  <2>2. QED BY <1>6, <2>1, PendingSeq
<1>8. Pending # <<>> BY <1>5, <1>7, EmptySeq
<1>9. /\ \A k \in 1..QueueLength : Pending[k] = slots[EntryAt(k)]
      /\ \A k \in 1..QueueLength - 1 : Pending'[k] = slots[EntryAt(k + 1)]
  <2>1. \A k \in 1..QueueLength : Pending[k] = slots[EntryAt(k)]
    BY <1>4 DEF Pending
  <2>2. \A k \in 1..QueueLength' : Pending'[k] = Content(EntryAt(k))'
    BY DEF Pending
  <2>3. \A k : Content(EntryAt(k))' = slots[EntryAt(k)']
    BY <1>1, <1>2 DEF Content, Filling
  <2>4. QED BY <1>6, <2>1, <2>2, <2>3
<1>10. Head(Pending) = slots[startIndex]
  <2>1. Pending[1] = slots[startIndex] BY <1>5, <1>6, <1>9
  <2>2. QED BY <1>7, <1>8, <2>1
<1>11. Tail(Pending) = Pending'
  <2>1. /\ Tail(Pending) \in Seq(Event) /\ Len(Tail(Pending)) = QueueLength - 1
        /\ \A k \in 1..QueueLength - 1 : Tail(Pending)[k] = Pending[k + 1]
    BY <1>7, <1>8, HeadTailProperties
  <2>2. \A k \in 1..QueueLength - 1 : k + 1 \in 1..QueueLength BY <1>5
  <2>3. \A k \in 1..QueueLength - 1 : Tail(Pending)[k] = Pending'[k]
    BY <1>9, <2>1, <2>2
  <2>4. QED BY <1>7, <2>1, <2>3, SeqEqual
<1>12. Current = Junk /\ Current' = slots[startIndex]
  BY <1>1, <1>2 DEF Current, Serving
<1>13. QED BY <1>1, <1>8, <1>10, <1>11, <1>12 DEF Abstract!Serve

\* The handler's return ends the abstract service; the other steps of the main
\* loop are invisible.
LEMMA MainRefines ==
  ASSUME IInv, Read \/ HandlerReturn \/ GetEmpty \/ WaitReturn
  PROVE  Abstract!Finish \/ UNCHANGED Abstract!vars
<1> USE DEF Read, HandlerReturn, GetEmpty, WaitReturn
<1>1. UNCHANGED <<startIndex, endIndex, slots, puts, cur, outcome>> OBVIOUS
<1>2. \A i \in Slot : Content(i)' = Content(i) BY <1>1 DEF Content, Filling
<1>3. Pending' = Pending BY <1>1, <1>2, PendingUnchanged
<1>4. \/ Current' = Current
      \/ Current # Junk /\ Current' = Junk
  BY <1>1 DEF Current, Serving, IInv, ServeInv
<1>5. QED BY <1>1, <1>3, <1>4 DEF Abstract!Finish, Abstract!vars

\* The ring buffer, with its preemptable puts and its handler running on the
\* entry itself, implements the bounded FIFO queue.
THEOREM RingIsQueue == Spec => ImplementsQueue
<1>1. Init => Abstract!Init
  <2> SUFFICES ASSUME Init PROVE Abstract!Init OBVIOUS
  <2>1. IInv BY InitIInv
  <2>2. QueueLength = 0 BY DEF Init, QueueLength
  <2>3. Pending \in Seq(Event) /\ Len(Pending) = 0 BY <2>1, <2>2, PendingSeq
  <2>4. Pending = <<>> BY <2>3, EmptySeq
  <2>5. QED BY <2>4 DEF Init, Abstract!Init, Current, Serving
<1>2. IInv /\ IInv' /\ [Next]_vars => [Abstract!Next]_Abstract!vars
  <2> SUFFICES ASSUME IInv, IInv', [Next]_vars
               PROVE  Abstract!Next \/ UNCHANGED Abstract!vars
    BY DEF Abstract!vars
  <2>1. ASSUME NEW c \in Level, NEW e \in Event \cup Oversize, PutCall(c, e)
        PROVE  Abstract!Next \/ UNCHANGED Abstract!vars
    BY <2>1, PutCallRefines DEF Abstract!Next
  <2>2. ASSUME NEW c \in Level, PutTestFull(c)
        PROVE  Abstract!Next \/ UNCHANGED Abstract!vars
    BY <2>2, PutTestFullRefines DEF Abstract!Next
  <2>3. ASSUME NEW c \in Level, PutReserve(c) PROVE Abstract!Next
    BY <2>3, PutReserveRefines DEF Abstract!Next
  <2>4. ASSUME NEW c \in Level, PutFill(c) PROVE UNCHANGED Abstract!vars
    BY <2>4, PutFillRefines
  <2>5. CASE Get BY <2>5, GetRefines DEF Abstract!Next
  <2>6. CASE Read \/ HandlerReturn \/ GetEmpty \/ WaitReturn
    BY <2>6, MainRefines DEF Abstract!Next
  <2>7. CASE UNCHANGED vars
    BY <2>7 DEF vars, Abstract!vars, Pending, Current, Serving, QueueLength, EntryAt,
       Content, Filling
  <2>8. QED BY <2>1, <2>2, <2>3, <2>4, <2>5, <2>6, <2>7 DEF Next, PutStep, Main
<1>3. QED BY <1>1, <1>2, Inductive, PTL DEF Spec, ImplementsQueue, Abstract!Spec
=============================================================================
