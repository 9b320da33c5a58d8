-------------------------- MODULE AppButtonProofs --------------------------
(***************************************************************************)
(* Proofs about AppButton, for every set of pins and any bounds, with pins *)
(* changing at any moment.                                                 *)
(***************************************************************************)
EXTENDS AppButton, TLAPS, SequenceTheorems, FiniteSetTheorems,
        WellFoundedInduction

\* A set of naturals has a least element: what the proofs use for induction.
LEMMA Minimum ==
  ASSUME NEW T, T \subseteq Nat, T # {}
  PROVE  \E x \in T : \A y \in T : x <= y
<1> DEFINE R == OpToRel(<, Nat)
<1>1. IsWellFoundedOn(R, Nat) BY NatLessThanWellFounded
<1>2. \A x, y \in Nat : y < x => <<y, x>> \in R BY DEF OpToRel
<1> HIDE DEF R
<1>3. PICK x \in T : \A y \in T : ~(<<y, x>> \in R) BY <1>1, WFMin
<1>4. \A y \in T : ~(y < x) BY <1>2, <1>3
<1>5. QED BY <1>4

\* The number of expiries in q that will report pin p.
Queued(q, p) == Cardinality({i \in 1..Len(q) : p \in q[i]})
One(holds) == IF holds THEN 1 ELSE 0

Types == /\ high \subseteq Pin /\ senseHigh \subseteq Pin /\ timer \subseteq Pin
         /\ sense \in [Pin -> {"off", "high", "low"}]
         /\ event \in BOOLEAN /\ enabled \in BOOLEAN /\ runs \in Nat
         /\ irq \in [busy : BOOLEAN, pins : SUBSET Pin]
         /\ ~irq.busy => irq = NoRead
         /\ queued \in Seq(SUBSET Pin)
         /\ call \in [op : {"none", "read", "zero", "load", "store", "set", "disable"},
                      todo : SUBSET Pin, pins : SUBSET Pin, loaded : SUBSET Pin]
         /\ call.op = "none" => call = NoCall
         /\ presses \in Nat /\ credit \in [Pin -> Int]

\* Where the enabling stands: the interrupt handler may run in it as soon as the
\* user's bit is set.
CallInv == /\ irq.busy => enabled
           /\ call.op = "read" => ~enabled
           /\ Enabling => enabled
           /\ call.op = "zero" => call.todo = Pin
           /\ call.op \in {"store", "set"} => call.todo # NoPins

\* A handler that RTC1 has queued and SWI0 not yet removed is in the scheduler:
\* the main loop has not run in between.
RunsInv == runs > 0 => \E i \in 1..Len(queued) : queued[i] = timer

\* The pins whose bit an enabling in progress has yet to write: what it has read
\* of them counts.
Pending == CASE call.op \in {"zero", "load", "store"} -> call.todo
             [] call.op = "set" -> call.todo \ {First(call.todo)}
             [] OTHER -> NoPins

\* The level the handler last knew of each pin, going by the bits S, the one it
\* has read, and the one there is now: a press still to be seen lies between two
\* of them.
Seen(S) == {p \in Pin : IF p \in Pending THEN p \in call.pins ELSE p \notin S}
Read == IF irq.busy THEN irq.pins ELSE high
ToCome(p, S) == IF enabled THEN One(p \in Active(Read) /\ p \notin Active(Seen(S)))
                                + One(p \in Active(high) /\ p \notin Active(Read))
                ELSE 0
Due(p) == runs = 0 /\ p \in timer
CoveredBy(p, S) == Queued(queued, p) + One(Due(p)) + ToCome(p, S) <= credit[p]

\* The bits as they are, and as the enabling has loaded them and may write them
\* back over what an interrupt has changed.
Bits == {senseHigh} \cup (IF call.op = "store" THEN {call.loaded} ELSE {})
ReportInv == \A p \in Pin : \A S \in Bits : CoveredBy(p, S)

IInv == Types /\ CallInv /\ RunsInv /\ ReportInv

-----------------------------------------------------------------------------
(* Expiries in the scheduler *)

LEMMA QueuedType ==
  ASSUME NEW q \in Seq(SUBSET Pin), NEW p
  PROVE  /\ IsFiniteSet({i \in 1..Len(q) : p \in q[i]})
         /\ Queued(q, p) \in Nat
<1>1. IsFiniteSet(1..Len(q)) BY FS_Interval
<1>2. IsFiniteSet({i \in 1..Len(q) : p \in q[i]}) BY <1>1, FS_Subset
<1>3. QED BY <1>2, FS_CardinalityType DEF Queued

LEMMA QueuedEmpty == \A p : Queued(<<>>, p) = 0
<1>1. \A p : {i \in 1..Len(<<>>) : p \in <<>>[i]} = {} OBVIOUS
<1>2. QED BY <1>1, FS_EmptySet DEF Queued

LEMMA QueuedAppend ==
  ASSUME NEW q \in Seq(SUBSET Pin), NEW s \in SUBSET Pin, NEW p
  PROVE  Queued(Append(q, s), p) = Queued(q, p) + One(p \in s)
<1> DEFINE Old == {i \in 1..Len(q) : p \in q[i]}
           New == {i \in 1..Len(Append(q, s)) : p \in Append(q, s)[i]}
<1>1. /\ Len(q) \in Nat /\ Len(Append(q, s)) = Len(q) + 1
      /\ \A i \in 1..Len(q) : Append(q, s)[i] = q[i]
      /\ Append(q, s)[Len(q) + 1] = s
  OBVIOUS
<1>2. IsFiniteSet(Old) /\ Cardinality(Old) \in Nat BY QueuedType, FS_CardinalityType
<1>3. New = IF p \in s THEN Old \cup {Len(q) + 1} ELSE Old BY <1>1
<1>4. Len(q) + 1 \notin Old BY <1>1
<1>5. Cardinality(New) = Cardinality(Old) + One(p \in s)
  <2>1. CASE p \in s
    <3> HIDE DEF Old, New
    <3>1. QED BY <1>2, <1>3, <1>4, <2>1, FS_AddElement DEF One
  <2>2. CASE p \notin s
    <3> HIDE DEF Old, New
    <3>1. QED BY <1>2, <1>3, <2>2 DEF One
  <2>3. QED BY <2>1, <2>2
<1>6. QED BY <1>5 DEF Queued

LEMMA QueuedTail ==
  ASSUME NEW q \in Seq(SUBSET Pin), q # <<>>, NEW p
  PROVE  Queued(q, p) = Queued(Tail(q), p) + One(p \in q[1])
<1> DEFINE Old  == {i \in 1..Len(q) : p \in q[i]}
           Rest == {i \in 1..Len(Tail(q)) : p \in Tail(q)[i]}
           next == [i \in Rest |-> i + 1]
<1>1. /\ Len(q) \in Nat \ {0} /\ Len(Tail(q)) = Len(q) - 1 /\ Tail(q) \in Seq(SUBSET Pin)
      /\ \A i \in 1..(Len(q) - 1) : Tail(q)[i] = q[i + 1]
  OBVIOUS
<1>2. IsFiniteSet(Old) /\ IsFiniteSet(Rest) /\ Cardinality(Old) \in Nat /\ Cardinality(Rest) \in Nat
  BY <1>1, QueuedType, FS_CardinalityType
<1>3. next \in [Rest -> Old \ {1}] BY <1>1
<1>4. \A i, j \in Rest : next[i] = next[j] => i = j BY <1>1
<1>5. \A j \in Old \ {1} : \E i \in Rest : next[i] = j
  <2>1. TAKE j \in Old \ {1}
  <2>2. j - 1 \in Rest /\ next[j - 1] = j BY <1>1
  <2>3. QED BY <2>2
<1>6. next \in Bijection(Rest, Old \ {1})
  <2> HIDE DEF Rest, Old, next
  <2>1. QED BY <1>3, <1>4, <1>5 DEF Bijection, Injection, Surjection, IsInjective
<1>7. Cardinality(Rest) = Cardinality(Old \ {1})
  <2> HIDE DEF Rest, Old, next
  <2>1. QED BY <1>2, <1>6, FS_Bijection DEF ExistsBijection
<1>8. 1 \in Old <=> p \in q[1] BY <1>1
<1>9. Cardinality(Old) = Cardinality(Rest) + One(p \in q[1])
  <2> HIDE DEF Rest, Old, next
  <2>1. Cardinality(Old \ {1}) = IF 1 \in Old THEN Cardinality(Old) - 1 ELSE Cardinality(Old)
    BY <1>2, FS_RemoveElement
  <2>2. QED BY <1>2, <1>7, <1>8, <2>1 DEF One
<1>10. QED BY <1>9 DEF Queued

-----------------------------------------------------------------------------
(* The pins are taken one by one *)

LEMMA FirstIn ==
  ASSUME NEW todo \in SUBSET Pin, todo # NoPins
  PROVE  First(todo) \in todo
<1>1. \E p \in todo : \A q \in todo : p <= q BY Minimum, PinAssumption DEF NoPins
<1>2. QED BY <1>1 DEF First

-----------------------------------------------------------------------------
(* Types *)

LEMMA TypesStep ==
  ASSUME Types, CallInv, [Next]_vars
  PROVE  Types'
<1> USE DEF Types, NoPins, NoRead, NoCall, history, module, port, timing, MayRun, Idle
<1>1. CASE UNCHANGED vars BY <1>1 DEF vars
<1>2. ASSUME NEW p \in Pin, PinChange(p) PROVE Types'
  <2>1. high' \subseteq Pin /\ event' \in BOOLEAN BY <1>2 DEF PinChange, Rises, Detect
  <2>2. presses' \in Nat /\ credit' \in [Pin -> Int] BY <1>2 DEF Count, PinChange
  <2>3. QED BY <1>2, <2>1, <2>2 DEF PinChange
<1>3. CASE TimerExpiry
  <2>1. queued' \in Seq(SUBSET Pin) /\ runs' \in Nat BY <1>3 DEF TimerExpiry
  <2>2. credit' \in [Pin -> Int] BY <1>3 DEF Count, TimerExpiry
  <2>3. QED BY <1>3, <2>1, <2>2 DEF TimerExpiry
<1>4. CASE TimerRemoved BY <1>4 DEF TimerRemoved
<1>5. CASE IrqRead BY <1>5 DEF IrqRead
<1>6. CASE IrqHandle
  <2>1. irq.pins \subseteq Pin OBVIOUS
  <2>2. timer' \subseteq Pin /\ runs' \in Nat
    BY <1>6, <2>1
    DEF IrqHandle, UserHandler, Restarted, Refused, Overlooked, UserPins, TransitionPins, Active
  <2>3. TransitionPins(irq.pins) \subseteq Pin BY DEF TransitionPins
  <2>4. senseHigh' \subseteq Pin BY <1>6, <2>3 DEF IrqHandle, SenseToggled
  <2>5. sense' \in [Pin -> {"off", "high", "low"}] BY <1>6, <2>3 DEF IrqHandle, Toggled
  <2>6. event' \in BOOLEAN BY <1>6 DEF IrqHandle, EventCleared, RisesAgain, Detect
  <2>7. credit' \in [Pin -> Int] BY <1>6 DEF Count, IrqHandle
  <2>8. QED BY <1>6, <2>2, <2>4, <2>5, <2>6, <2>7 DEF IrqHandle
<1>7. CASE RunTimeout
  <2>1. queued' \in Seq(SUBSET Pin) BY <1>7 DEF RunTimeout
  <2>2. credit' \in [Pin -> Int] BY <1>7 DEF Count, RunTimeout
  <2>3. QED BY <1>7, <2>1, <2>2 DEF RunTimeout
<1>8. CASE EnableStart BY <1>8 DEF EnableStart
<1>9. CASE EnableRead BY <1>9 DEF EnableRead
<1>10. CASE EnableZero BY <1>10 DEF EnableZero
<1>11. CASE EnableLoad BY <1>11 DEF EnableLoad
<1>12. CASE EnableStore
  <2>1. credit' \in [Pin -> Int] BY <1>12 DEF Count, EnableStore
  <2>2. First(call.todo) \in Pin BY <1>12, FirstIn DEF EnableStore, CallInv
  <2>3. senseHigh' \subseteq Pin BY <1>12, <2>2 DEF EnableStore
  <2>4. QED BY <1>12, <2>1, <2>3 DEF EnableStore
<1>13. CASE EnableSet
  <2>1. event' \in BOOLEAN BY <1>13 DEF EnableSet, Rises, Detect
  <2>2. sense' \in [Pin -> {"off", "high", "low"}] BY <1>13 DEF EnableSet
  <2>3. QED BY <1>13, <2>1, <2>2 DEF EnableSet
<1>14. CASE DisableStart BY <1>14 DEF DisableStart
<1>15. CASE DisablePin
  <2>1. event' \in BOOLEAN BY <1>15 DEF DisablePin, Rises, Detect
  <2>2. sense' \in [Pin -> {"off", "high", "low"}] BY <1>15 DEF DisablePin
  <2>3. QED BY <1>15, <2>1, <2>2 DEF DisablePin
<1>16. CASE CallEnd BY <1>16 DEF CallEnd
<1>17. QED
  BY <1>1, <1>2, <1>3, <1>4, <1>5, <1>6, <1>7, <1>8, <1>9, <1>10, <1>11, <1>12, <1>13,
     <1>14, <1>15, <1>16
  DEF Next, Irq, InCall

-----------------------------------------------------------------------------
(* The enabling, and the handler that RTC1 has queued *)

LEMMA CallStep ==
  ASSUME Types, CallInv, [Next]_vars
  PROVE  CallInv'
<1> USE DEF Types, CallInv, Enabling, NoPins, NoRead, NoCall, history, module, port, timing,
            MayRun, Idle
<1>1. CASE UNCHANGED vars BY <1>1 DEF vars
<1>2. ASSUME NEW p \in Pin, PinChange(p) PROVE CallInv' BY <1>2 DEF PinChange
<1>3. CASE TimerExpiry BY <1>3 DEF TimerExpiry
<1>4. CASE TimerRemoved BY <1>4 DEF TimerRemoved
<1>5. CASE IrqRead BY <1>5 DEF IrqRead
<1>6. CASE IrqHandle BY <1>6 DEF IrqHandle
<1>7. CASE RunTimeout BY <1>7 DEF RunTimeout
<1>8. CASE EnableStart BY <1>8 DEF EnableStart
<1>9. CASE EnableRead BY <1>9 DEF EnableRead
<1>10. CASE EnableZero BY <1>10 DEF EnableZero
<1>11. CASE EnableLoad BY <1>11 DEF EnableLoad
<1>12. CASE EnableStore BY <1>12 DEF EnableStore
<1>13. CASE EnableSet BY <1>13 DEF EnableSet
<1>14. CASE DisableStart BY <1>14 DEF DisableStart
<1>15. CASE DisablePin BY <1>15 DEF DisablePin
<1>16. CASE CallEnd BY <1>16 DEF CallEnd
<1>17. QED
  BY <1>1, <1>2, <1>3, <1>4, <1>5, <1>6, <1>7, <1>8, <1>9, <1>10, <1>11, <1>12, <1>13,
     <1>14, <1>15, <1>16
  DEF Next, Irq, InCall

LEMMA RunsStep ==
  ASSUME Types, RunsInv, [Next]_vars
  PROVE  RunsInv'
<1> USE DEF Types, RunsInv, history, module, port, timing, MayRun, Idle
<1>1. CASE UNCHANGED vars BY <1>1 DEF vars
<1>2. ASSUME NEW p \in Pin, PinChange(p) PROVE RunsInv' BY <1>2 DEF PinChange
<1>3. CASE TimerExpiry
  <2>1. queued' = Append(queued, timer) /\ timer' = timer BY <1>3 DEF TimerExpiry
  <2>2. queued'[Len(queued) + 1] = timer' /\ Len(queued) + 1 \in 1..Len(queued') BY <2>1
  <2>3. QED BY <2>2
<1>4. CASE TimerRemoved BY <1>4 DEF TimerRemoved
<1>5. CASE IrqRead BY <1>5 DEF IrqRead
<1>6. CASE IrqHandle
  BY <1>6 DEF IrqHandle, UserHandler, Restarted, Refused, Overlooked
<1>7. CASE RunTimeout BY <1>7 DEF RunTimeout
<1>8. CASE EnableStart BY <1>8 DEF EnableStart
<1>9. CASE EnableRead BY <1>9 DEF EnableRead
<1>10. CASE EnableZero BY <1>10 DEF EnableZero
<1>11. CASE EnableLoad BY <1>11 DEF EnableLoad
<1>12. CASE EnableStore BY <1>12 DEF EnableStore
<1>13. CASE EnableSet BY <1>13 DEF EnableSet
<1>14. CASE DisableStart BY <1>14 DEF DisableStart
<1>15. CASE DisablePin BY <1>15 DEF DisablePin
<1>16. CASE CallEnd BY <1>16 DEF CallEnd
<1>17. QED
  BY <1>1, <1>2, <1>3, <1>4, <1>5, <1>6, <1>7, <1>8, <1>9, <1>10, <1>11, <1>12, <1>13,
     <1>14, <1>15, <1>16
  DEF Next, Irq, InCall

-----------------------------------------------------------------------------
(* Presses and reports *)

LEMMA ActiveAt == \A X, p : p \in Active(X) <=> p \in Pin /\ (p \in X <=> p \in ActiveHigh)
BY DEF Active

LEMMA ReportStep ==
  ASSUME Types, CallInv, ReportInv, [Next]_vars, NEW p \in Pin, NEW S \in Bits'
  PROVE  CoveredBy(p, S)'
<1>1. /\ \A T \in Bits : CoveredBy(p, T)
      /\ Types' /\ credit[p] \in Int /\ credit'[p] \in Int
      /\ Queued(queued, p) \in Nat /\ Queued(queued', p) \in Nat
  BY TypesStep, QueuedType DEF Types, ReportInv
<1>2. /\ \A T : ToCome(p, T) \in Int
      /\ ToCome(p, S)' \in Int /\ One(Due(p)) \in Int /\ One(Due(p))' \in Int
  BY DEF ToCome, One
\* What a step takes from one account it gives to another.
<1>3. ASSUME NEW T \in Bits,
             Queued(queued', p) + One(Due(p))' + ToCome(p, S)' + credit[p]
               <= Queued(queued, p) + One(Due(p)) + ToCome(p, T) + credit'[p]
      PROVE  CoveredBy(p, S)'
  <2>1. CoveredBy(p, T) BY <1>1
  <2>2. ToCome(p, T) \in Int BY <1>2
  <2> HIDE DEF ToCome, One
  <2>3. Queued(queued, p) + One(Due(p)) + ToCome(p, T) <= credit[p] BY <2>1 DEF CoveredBy
  <2>4. Queued(queued', p) + One(Due(p))' + ToCome(p, S)' <= credit'[p]
    BY <1>1, <1>2, <1>3, <2>2, <2>3
  <2>5. QED BY <2>4 DEF CoveredBy
\* A step that moves no expiry and earns no credit.
<1>4. ASSUME NEW T \in Bits, UNCHANGED <<queued, credit>>, One(Due(p))' <= One(Due(p)),
             ToCome(p, S)' <= ToCome(p, T)
      PROVE  CoveredBy(p, S)'
  <2>1. ToCome(p, T) \in Int BY <1>2
  <2> HIDE DEF ToCome, One
  <2>2. QED BY <1>1, <1>2, <1>3, <1>4, <2>1
<1> USE DEF history, module, port, timing, MayRun, Idle
<1>5. CASE UNCHANGED vars
  <2>1. S \in Bits BY <1>5 DEF vars, Bits
  <2>2. ToCome(p, S)' = ToCome(p, S)
    BY <1>5 DEF vars, ToCome, One, Read, Seen, Pending, Active
  <2>3. One(Due(p))' = One(Due(p)) BY <1>5 DEF vars, One, Due
  <2>4. QED BY <1>2, <1>4, <1>5, <2>1, <2>2, <2>3 DEF vars
<1>6. ASSUME NEW q \in Pin, PinChange(q) PROVE CoveredBy(p, S)'
  <2>1. /\ UNCHANGED <<queued, timer, runs, senseHigh, irq, enabled, call>>
        /\ p # q => (p \in high' <=> p \in high)
        /\ p = q => (p \in high' <=> p \notin high)
        /\ credit'[p] = credit[p] + One(p = q /\ p \in Active(high'))
    BY <1>6, <1>1 DEF Count, PinChange, Types, One
  <2>2. S \in Bits BY <2>1 DEF Bits
  <2>3. Due(p)' = Due(p) BY <2>1 DEF Due
  <2>4. ToCome(p, S)' <= ToCome(p, S) + One(p = q /\ p \in Active(high'))
    <3>1. Seen(S)' = Seen(S) BY <2>1 DEF Seen, Pending
    <3>2. p \in Active(Seen(S))' <=> p \in Active(Seen(S)) BY <3>1 DEF Active
    <3>3. p \in Active(high)' <=> p \in Active(high') BY DEF Active
    <3>4. CASE irq.busy
      <4>1. Read' = Read BY <2>1, <3>4 DEF Read
      <4>2. p \in Active(Read)' <=> p \in Active(Read) BY <4>1 DEF Active
      <4>3. QED BY <2>1, <3>2, <3>3, <4>2, ActiveAt DEF ToCome, One
    <3>5. CASE ~irq.busy
      <4>1. Read' = high' /\ Read = high BY <2>1, <3>5 DEF Read
      <4>2. p \in Active(Read)' <=> p \in Active(high') BY <4>1 DEF Active
      <4>3. QED BY <2>1, <3>2, <3>3, <4>1, <4>2, ActiveAt DEF ToCome, One
    <3>6. QED BY <3>4, <3>5
  <2>5. One(p = q /\ p \in Active(high')) \in Int BY DEF One
  <2>6. One(Due(p))' = One(Due(p)) BY <2>3 DEF One
  <2>7. QED BY <1>1, <1>2, <1>3, <2>1, <2>2, <2>4, <2>5, <2>6
<1>7. CASE TimerExpiry
  <2>1. runs \in Nat /\ runs' # 0 BY <1>7 DEF TimerExpiry, Types
  <2>2. S \in Bits BY <1>7 DEF TimerExpiry, Bits
  <2>3. ToCome(p, S)' = ToCome(p, S)
    BY <1>7 DEF TimerExpiry, ToCome, One, Read, Seen, Pending, Active
  <2>4. One(Due(p))' = 0 BY <2>1 DEF Due, One
  <2>5. credit'[p] = IF runs = 0 THEN credit[p] ELSE credit[p] + One(p \in timer)
    BY <1>1, <1>7 DEF Count, TimerExpiry, Types, One
  <2>6. One(Due(p)) = IF runs = 0 THEN One(p \in timer) ELSE 0 BY DEF Due, One
  <2>7. One(p \in timer) \in Int BY DEF One
  <2>8. Queued(queued', p) = Queued(queued, p) + One(p \in timer)
    BY <1>7, QueuedAppend DEF TimerExpiry, Types
  <2>9. QED BY <1>1, <1>2, <1>3, <2>2, <2>3, <2>4, <2>5, <2>6, <2>7, <2>8
<1>8. CASE TimerRemoved
  <2>1. S \in Bits BY <1>8 DEF TimerRemoved, Bits
  <2>2. ToCome(p, S)' = ToCome(p, S)
    BY <1>8 DEF TimerRemoved, ToCome, One, Read, Seen, Pending, Active
  <2>3. One(Due(p))' <= One(Due(p)) BY <1>8 DEF TimerRemoved, NoPins, Due, One
  <2>4. QED BY <1>2, <1>4, <1>8, <2>1, <2>2, <2>3 DEF TimerRemoved
<1>9. CASE IrqRead
  <2>1. ~irq.busy /\ irq' = [busy |-> TRUE, pins |-> high] BY <1>9 DEF IrqRead, NoRead
  <2>2. Read' = Read BY <1>9, <2>1 DEF IrqRead, Read
  <2>3. S \in Bits BY <1>9 DEF IrqRead, Bits
  <2>4. ToCome(p, S)' = ToCome(p, S)
    BY <1>9, <2>2 DEF IrqRead, ToCome, One, Seen, Pending, Active
  <2>5. One(Due(p))' = One(Due(p)) BY <1>9 DEF IrqRead, Due, One
  <2>6. QED BY <1>2, <1>4, <1>9, <2>3, <2>4, <2>5 DEF IrqRead
<1>10. CASE IrqHandle
  <2>1. /\ irq.busy /\ ~irq'.busy /\ enabled
        /\ UNCHANGED <<high, enabled, queued, call>>
    BY <1>10 DEF IrqHandle, NoRead, CallInv
  <2>2. Read = irq.pins /\ Read' = high BY <2>1 DEF Read
  <2>3. p \in senseHigh' <=> p \notin irq.pins
    BY <1>10 DEF IrqHandle, SenseToggled, TransitionPins
  <2>4. Due(p)' => Due(p) \/ p \in UserPins(irq.pins)
    BY <1>10 DEF IrqHandle, UserHandler, Restarted, Refused, Overlooked, NoPins, Due
  <2>5. Pending' = Pending BY <2>1 DEF Pending
  <2>6. /\ p \in Active(Read)' <=> p \in Active(high)
        /\ p \in Active(high)' <=> p \in Active(high)
    BY <2>1, <2>2 DEF Active
  <2>7. ASSUME p \in Pending \/ S # senseHigh', NEW T \in Bits,
               p \in Pending \/ T = S
        PROVE  ToCome(p, S)' <= ToCome(p, T)
    <3>1. p \in Seen(S)' <=> p \in Seen(T)
      <4>1. CASE p \in Pending BY <2>1, <2>5, <4>1 DEF Seen
      <4>2. CASE p \notin Pending BY <2>1, <2>5, <2>7, <4>2 DEF Seen
      <4>3. QED BY <4>1, <4>2
    <3>2. p \in Active(Seen(S))' <=> p \in Active(Seen(T)) BY <3>1 DEF Active
    <3>3. QED BY <2>1, <2>6, <3>2 DEF ToCome, One
  <2>8. ASSUME p \notin Pending, S = senseHigh'
        PROVE  /\ ToCome(p, S)' = One(p \in Active(high) /\ p \notin Active(Read))
               /\ ToCome(p, senseHigh) = ToCome(p, S)'
                     + One(p \in Active(Read) /\ p \notin Active(Seen(senseHigh)))
    <3>1. p \in Seen(S)' <=> p \in Read BY <2>1, <2>2, <2>3, <2>5, <2>8 DEF Seen
    <3>2. p \in Active(Seen(S))' <=> p \in Active(Read) BY <3>1 DEF Active
    <3>3. QED BY <2>1, <2>6, <3>2 DEF ToCome, One
  <2>9. CASE Enabling
    <3>1. credit'[p] = credit[p] + One(p \in UserPins(irq.pins))
      BY <1>1, <1>10, <2>9 DEF Count, IrqHandle, Types, One
    <3>2. One(Due(p))' <= One(Due(p)) + One(p \in UserPins(irq.pins)) BY <2>4 DEF One
    <3>3. PICK T \in Bits : ToCome(p, S)' <= ToCome(p, T)
      <4>1. CASE S = senseHigh' /\ p \notin Pending
        <5>1. ToCome(p, S)' <= ToCome(p, senseHigh) BY <2>8, <4>1 DEF One
        <5>2. QED BY <5>1 DEF Bits
      <4>2. CASE S = senseHigh' /\ p \in Pending
        <5>1. senseHigh \in Bits BY DEF Bits
        <5>2. QED BY <2>7, <4>2, <5>1
      <4>3. CASE S # senseHigh'
        <5>1. S \in Bits BY <2>1, <4>3 DEF Bits
        <5>2. QED BY <2>7, <4>3, <5>1
      <4>4. QED BY <4>1, <4>2, <4>3
    <3>4. One(p \in UserPins(irq.pins)) \in Int /\ ToCome(p, T) \in Int BY <1>2 DEF One
    <3>5. QED BY <1>1, <1>2, <1>3, <2>1, <3>1, <3>2, <3>3, <3>4
  <2>10. CASE ~Enabling
    <3>1. S = senseHigh' /\ senseHigh \in Bits /\ p \notin Pending
      BY <2>1, <2>10 DEF Bits, Enabling, Pending, NoPins, Types
    <3>2. p \in UserPins(irq.pins) => p \in Active(Read) /\ p \notin Active(Seen(senseHigh))
      <4>1. p \in Seen(senseHigh) <=> p \notin senseHigh BY <3>1 DEF Seen
      <4>2. QED BY <2>2, <4>1 DEF UserPins, TransitionPins, Active
    <3>3. One(Due(p))' <= One(Due(p))
                          + One(p \in Active(Read) /\ p \notin Active(Seen(senseHigh)))
      BY <2>4, <3>2 DEF One
    <3>4. credit' = credit BY <1>10, <2>10 DEF IrqHandle
    <3>5. \A c : One(c) \in Int BY DEF One
    <3>6. ToCome(p, senseHigh) \in Int BY <1>2
    <3>7. ToCome(p, senseHigh) = ToCome(p, S)'
                     + One(p \in Active(Read) /\ p \notin Active(Seen(senseHigh)))
      BY <2>8, <3>1
    <3> HIDE DEF One, ToCome
    <3>8. QED BY <1>1, <1>2, <1>3, <2>1, <3>1, <3>3, <3>4, <3>5, <3>6, <3>7
  <2>11. QED BY <2>9, <2>10
<1>11. CASE RunTimeout
  <2>1. Queued(queued, p) = Queued(queued', p) + One(p \in queued[1])
    BY <1>11, QueuedTail DEF RunTimeout, Types
  <2>2. credit'[p] >= credit[p] - One(p \in queued[1])
    BY <1>1, <1>11 DEF Count, RunTimeout, One, Types
  <2>3. S \in Bits BY <1>11 DEF RunTimeout, Bits
  <2>4. /\ ToCome(p, S)' = ToCome(p, S) /\ One(Due(p))' = One(Due(p))
    BY <1>11 DEF RunTimeout, ToCome, One, Read, Seen, Pending, Active, Due
  <2>5. One(p \in queued[1]) \in Int BY DEF One
  <2>6. QED BY <1>1, <1>2, <1>3, <2>1, <2>2, <2>3, <2>4, <2>5
<1>12. CASE EnableStart
  <2>1. S = senseHigh /\ S \in Bits BY <1>12 DEF EnableStart, NoCall, Bits
  <2>2. ToCome(p, S)' = 0 /\ ToCome(p, S) = 0 BY <1>12 DEF EnableStart, ToCome
  <2>3. One(Due(p))' = One(Due(p)) BY <1>12 DEF EnableStart, Due, One
  <2>4. QED BY <1>2, <1>4, <1>12, <2>1, <2>2, <2>3 DEF EnableStart
<1>13. CASE EnableRead
  <2>1. /\ call'.op = "zero" /\ call'.todo = Pin /\ call'.pins = high
        /\ ~irq.busy /\ UNCHANGED <<high, irq, senseHigh, queued, credit, timer, runs>>
    BY <1>13 DEF EnableRead, Types, NoRead
  <2>2. S = senseHigh /\ senseHigh \in Bits BY <2>1 DEF Bits
  <2>3. p \in Seen(S)' <=> p \in high BY <2>1 DEF Seen, Pending
  <2>4. Read' = high BY <2>1 DEF Read
  <2>5. ToCome(p, S)' = 0
    <3>1. /\ p \in Active(Seen(S))' <=> p \in Active(high)
          /\ p \in Active(Read)' <=> p \in Active(high)
          /\ p \in Active(high)' <=> p \in Active(high)
      BY <2>1, <2>3, <2>4 DEF Active
    <3>2. QED BY <3>1 DEF ToCome, One
  <2>6. ToCome(p, S) >= 0 BY DEF ToCome, One
  <2>7. One(Due(p))' = One(Due(p)) BY <2>1 DEF Due, One
  <2>8. QED BY <1>2, <1>4, <2>1, <2>2, <2>5, <2>6, <2>7
<1>14. CASE EnableZero
  <2>1. /\ call.op = "zero" /\ call.todo = Pin /\ call'.op = "load" /\ call'.todo = Pin
        /\ call'.pins = call.pins
        /\ UNCHANGED <<high, irq, enabled, queued, credit, timer, runs>>
    BY <1>14 DEF EnableZero, Types, CallInv
  <2>2. p \in Pending /\ p \in Pending' BY <2>1 DEF Pending
  <2>3. p \in Seen(S)' <=> p \in Seen(senseHigh) BY <2>1, <2>2 DEF Seen
  <2>4. ToCome(p, S)' = ToCome(p, senseHigh) BY <2>1, <2>3 DEF ToCome, One, Read, Active
  <2>5. One(Due(p))' = One(Due(p)) /\ senseHigh \in Bits BY <2>1 DEF Due, One, Bits
  <2>6. QED BY <1>2, <1>4, <2>1, <2>4, <2>5
<1>15. CASE EnableLoad
  <2>1. /\ call.op = "load" /\ call'.op = "store" /\ call'.loaded = senseHigh
        /\ UNCHANGED <<high, irq, enabled, senseHigh, queued, credit, timer, runs>>
        /\ call'.pins = call.pins /\ call'.todo = call.todo
    BY <1>15 DEF EnableLoad, Types
  <2>2. S = senseHigh /\ senseHigh \in Bits BY <2>1 DEF Bits
  <2>3. Pending' = Pending BY <2>1 DEF Pending
  <2>4. ToCome(p, S)' = ToCome(p, senseHigh)
    BY <2>1, <2>2, <2>3 DEF ToCome, One, Read, Active, Seen
  <2>5. One(Due(p))' = One(Due(p)) BY <2>1 DEF Due, One
  <2>6. QED BY <1>2, <1>4, <2>1, <2>2, <2>4, <2>5
<1>16. CASE EnableStore
  <2> DEFINE f == First(call.todo)
  <2>1. /\ call.op = "store" /\ call'.op = "set" /\ call'.todo = call.todo
        /\ call'.pins = call.pins /\ call.loaded \in Bits /\ senseHigh \in Bits
        /\ ~irq.busy /\ UNCHANGED <<high, irq, enabled, queued, timer, runs>>
        /\ senseHigh' = IF f \notin call.pins THEN call.loaded \cup {f} ELSE senseHigh
        /\ credit'[p] = credit[p] + One(p = f /\ f \in call.pins /\ f \in senseHigh)
    BY <1>1, <1>16 DEF Count, EnableStore, Types, NoRead, LowBefore, Bits, One
  <2>2. f \in call.todo BY <2>1, FirstIn DEF CallInv, Types
  <2>3. S = senseHigh' BY <2>1 DEF Bits
  <2>4. Pending = call.todo /\ Pending' = call.todo \ {f} BY <2>1 DEF Pending
  <2> HIDE DEF f
  <2>5. Read = high /\ Read' = high BY <2>1 DEF Read
  <2>6. PICK T \in Bits :
          ToCome(p, S)' <= ToCome(p, T) + One(p = f /\ f \in call.pins /\ f \in senseHigh)
    <3>1. ASSUME NEW T \in Bits, p \in Seen(S)' <=> p \in Seen(T)
          PROVE  ToCome(p, S)' = ToCome(p, T)
      BY <2>1, <2>5, <3>1 DEF ToCome, One, Active
    <3>2. CASE f \notin call.pins
      <4>1. p \in Seen(S)' <=> p \in Seen(call.loaded)
        BY <2>1, <2>2, <2>3, <2>4, <3>2 DEF Seen
      <4>2. ToCome(p, S)' = ToCome(p, call.loaded) BY <2>1, <3>1, <4>1
      <4>3. QED BY <2>1, <3>2, <4>2, <1>2 DEF One
    <3>3. CASE f \in call.pins /\ ~(p = f /\ f \in senseHigh)
      <4>1. p \in Seen(S)' <=> p \in Seen(senseHigh)
        BY <2>1, <2>2, <2>3, <2>4, <3>3 DEF Seen
      <4>2. ToCome(p, S)' = ToCome(p, senseHigh) BY <2>1, <3>1, <4>1
      <4>3. QED BY <2>1, <3>3, <4>2, <1>2 DEF One
    <3>4. CASE p = f /\ f \in call.pins /\ f \in senseHigh
      <4>1. /\ p \in Active(high)' <=> p \in Active(high)
            /\ p \in Active(Read)' <=> p \in Active(high)
        BY <2>1, <2>5 DEF Active
      <4>2. ToCome(p, S)' <= 1 BY <4>1 DEF ToCome, One
      <4>3. ToCome(p, senseHigh) >= 0 /\ One(p = f /\ f \in call.pins /\ f \in senseHigh) = 1
        BY <3>4 DEF ToCome, One
      <4>4. QED BY <1>2, <2>1, <4>2, <4>3
    <3>5. QED BY <3>2, <3>3, <3>4
  <2>7. One(Due(p))' = One(Due(p)) BY <2>1 DEF Due, One
  <2>8. One(p = f /\ f \in call.pins /\ f \in senseHigh) \in Int /\ ToCome(p, T) \in Int
    BY <1>2 DEF One
  <2>9. QED BY <1>1, <1>2, <1>3, <2>1, <2>6, <2>7, <2>8
<1>17. CASE EnableSet
  <2> DEFINE f == First(call.todo)
  <2>1. /\ call.op = "set" /\ call'.op = "load" /\ call'.todo = call.todo \ {f}
        /\ call'.pins = call.pins
        /\ UNCHANGED <<high, irq, enabled, senseHigh, queued, credit, timer, runs>>
    BY <1>17 DEF EnableSet, Types
  <2>2. Pending' = Pending BY <2>1 DEF Pending
  <2>3. S = senseHigh /\ senseHigh \in Bits BY <2>1 DEF Bits
  <2>4. ToCome(p, S)' = ToCome(p, senseHigh)
    BY <2>1, <2>2, <2>3 DEF ToCome, One, Read, Active, Seen
  <2>5. One(Due(p))' = One(Due(p)) BY <2>1 DEF Due, One
  <2>6. QED BY <1>2, <1>4, <2>1, <2>3, <2>4, <2>5
\* Disabling: no bit is written any more.
<1>18. ASSUME call.op # "store", call'.op # "store", Pending = NoPins, Pending' = NoPins,
              UNCHANGED <<high, senseHigh, irq, queued, runs, credit>>,
              enabled' => enabled, timer' \in {timer, NoPins}
       PROVE  CoveredBy(p, S)'
  <2>1. S = senseHigh /\ senseHigh \in Bits BY <1>18 DEF Bits
  <2>2. /\ p \in Seen(S)' <=> p \in Seen(senseHigh)
        /\ Read' = Read /\ high' = high
    BY <1>18, <2>1 DEF Seen, Read, NoPins
  <2>3. /\ p \in Active(Seen(S))' <=> p \in Active(Seen(senseHigh))
        /\ p \in Active(Read)' <=> p \in Active(Read)
        /\ p \in Active(high)' <=> p \in Active(high)
    BY <2>2 DEF Active
  <2>4. ToCome(p, S)' <= ToCome(p, senseHigh) BY <1>18, <2>3 DEF ToCome, One
  <2>5. One(Due(p))' <= One(Due(p)) BY <1>18 DEF Due, One, NoPins
  <2>6. QED BY <1>2, <1>4, <1>18, <2>1, <2>4, <2>5
<1>19. CASE DisableStart
  BY <1>18, <1>19 DEF DisableStart, NoCall, Pending
<1>20. CASE DisablePin
  <2>1. call.op = "disable" /\ call'.op = "disable" BY <1>20 DEF DisablePin, Types
  <2>2. QED BY <1>18, <1>20, <2>1 DEF DisablePin, Pending
<1>21. CASE CallEnd
  <2>1. /\ call.op \in {"load", "disable"} /\ call.todo = NoPins /\ call'.op = "none"
        /\ enabled' => enabled /\ timer' \in {timer, NoPins}
    BY <1>21 DEF CallEnd, NoCall
  <2>2. Pending = NoPins /\ Pending' = NoPins BY <2>1 DEF Pending
  <2>3. QED BY <1>18, <1>21, <2>1, <2>2 DEF CallEnd
<1>22. QED
  BY <1>5, <1>6, <1>7, <1>8, <1>9, <1>10, <1>11, <1>12, <1>13, <1>14, <1>15, <1>16, <1>17,
     <1>19, <1>20, <1>21
  DEF Next, Irq, InCall

-----------------------------------------------------------------------------
(* A press that nothing disturbs *)

\* The press of p is with an interrupt that will find its transition; or the
\* transition has been taken, there is no other one to take its place, and p
\* is with the detection timer or in the scheduler.
Underway(p) ==
  \/ (event \/ irq.busy) /\ p \in TransitionPins(high)
  \/ /\ TransitionPins(high) = NoPins
     /\ p \in timer \/ \E i \in 1..Len(queued) : p \in queued[i]

OwedInv == \A p \in owed : /\ p \in Active(high) /\ enabled /\ call = NoCall
                           /\ irq.busy => irq.pins = high
                           /\ Underway(p)

\* A pin that raises DETECT, where its SENSE field is known, is in transition.
LEMMA RisingPin ==
  ASSUME NEW p \in Pin, PinChange(p), Agrees(p), Rises
  PROVE  p \in TransitionPins(high)'
<1>1. PICK q \in Pin : AtSense(q, high', sense) /\ ~AtSense(q, high, sense)
  BY DEF PinChange, Rises, Detect
<1>2. q = p BY <1>1 DEF PinChange, AtSense
<1>3. senseHigh' = senseHigh BY DEF PinChange, module
<1>4. p \in high' <=> p \in senseHigh BY <1>1, <1>2, <1>3 DEF Agrees, AtSense
<1>5. QED BY <1>3, <1>4 DEF TransitionPins

LEMMA OwedStep ==
  ASSUME Types, RunsInv, OwedInv, [Next]_vars
  PROVE  OwedInv'
<1>1. SUFFICES ASSUME NEW p \in owed'
               PROVE  (/\ p \in Active(high) /\ enabled /\ call = NoCall
                       /\ irq.busy => irq.pins = high
                       /\ Underway(p))'
  BY DEF OwedInv
<1> USE DEF history, module, port, timing, MayRun, Idle
<1>2. p \in owed => /\ p \in Active(high) /\ enabled /\ call = NoCall
                    /\ irq.busy => irq.pins = high
                    /\ Underway(p)
  BY DEF OwedInv
<1>3. CASE UNCHANGED vars BY <1>1, <1>2, <1>3 DEF vars, Underway, TransitionPins, Active
<1>4. ASSUME NEW q \in Pin, PinChange(q) PROVE OwedInv'
  <2>1. /\ q \in Active(high') /\ enabled /\ call = NoCall /\ irq = NoRead /\ Rises
        /\ Agrees(q)
        /\ p = q
    BY <1>1, <1>4 DEF PinChange, NoPins
  <2>2. event' /\ UNCHANGED <<enabled, call, irq>> BY <1>4, <2>1 DEF PinChange
  <2>3. q \in TransitionPins(high)' BY <1>4, <2>1, RisingPin
  <2>4. owed' = {q} BY <1>4, <2>1 DEF PinChange
  <2>5. Underway(q)' BY <2>2, <2>3 DEF Underway
  <2>6. Active(high)' = Active(high') BY DEF Active
  <2>7. QED BY <2>1, <2>2, <2>4, <2>5, <2>6 DEF OwedInv, NoRead
<1>5. CASE TimerExpiry
  <2>1. /\ p \in owed /\ UNCHANGED <<high, event, enabled, senseHigh, irq, call>>
        /\ queued' = Append(queued, timer)
    BY <1>1, <1>5 DEF TimerExpiry
  <2>2. Active(high)' = Active(high) /\ TransitionPins(high)' = TransitionPins(high)
    BY <2>1 DEF Active, TransitionPins
  <2>3. /\ Len(queued) \in Nat /\ Len(queued') = Len(queued) + 1
        /\ queued'[Len(queued) + 1] = timer
        /\ \A i \in 1..Len(queued) : queued'[i] = queued[i]
    BY <2>1 DEF Types
  <2>4. p \in timer \/ (\E i \in 1..Len(queued) : p \in queued[i])
          => \E i \in 1..Len(queued') : p \in queued'[i]
    BY <2>3
  <2>5. Underway(p)' BY <1>2, <2>1, <2>2, <2>4 DEF Underway
  <2>6. QED BY <1>2, <2>1, <2>2, <2>5
<1>6. CASE TimerRemoved
  <2>1. /\ p \in owed /\ UNCHANGED <<high, event, enabled, senseHigh, irq, call, queued>>
        /\ runs > 0
    BY <1>1, <1>6 DEF TimerRemoved
  <2>2. Active(high)' = Active(high) /\ TransitionPins(high)' = TransitionPins(high)
    BY <2>1 DEF Active, TransitionPins
  <2>3. p \in timer => \E i \in 1..Len(queued) : p \in queued[i] BY <2>1 DEF RunsInv
  <2>4. Underway(p)' BY <1>2, <2>1, <2>2, <2>3 DEF Underway
  <2>5. QED BY <1>2, <2>1, <2>2, <2>4
<1>7. CASE IrqRead
  <2>1. /\ p \in owed /\ UNCHANGED <<high, event, enabled, senseHigh, timer, queued, call>>
        /\ irq'.pins = high /\ event
    BY <1>1, <1>7 DEF IrqRead
  <2>2. Active(high)' = Active(high) /\ TransitionPins(high)' = TransitionPins(high)
    BY <2>1 DEF Active, TransitionPins
  <2>3. Underway(p)' BY <1>2, <2>1, <2>2 DEF Underway
  <2>4. QED BY <1>2, <2>1, <2>2, <2>3
<1>8. CASE IrqHandle
  <2>1. p \in owed BY <1>1, <1>8 DEF IrqHandle, UserHandler, Restarted, Refused, Overlooked, NoPins
  <2>2. /\ irq.pins = high /\ irq' = NoRead /\ UNCHANGED <<high, enabled, queued, call>>
        /\ senseHigh' = SenseToggled(TransitionPins(high))
        /\ UserHandler(UserPins(high))
    BY <1>2, <1>8, <2>1 DEF IrqHandle
  <2>3. Active(high)' = Active(high) BY <2>2 DEF Active
  <2>4. TransitionPins(high)' = NoPins BY <2>2 DEF TransitionPins, SenseToggled, NoPins
  <2>5. CASE p \in TransitionPins(high)
    <3>1. p \in UserPins(high) BY <1>2, <2>1, <2>5 DEF UserPins
    <3>2. p \in timer'
      BY <1>1, <2>2, <3>1 DEF UserHandler, Restarted, Refused, Overlooked, NoPins
    <3>3. Underway(p)' BY <2>4, <3>2 DEF Underway
    <3>4. QED BY <1>2, <2>1, <2>2, <2>3, <3>3 DEF NoRead
  <2>6. CASE p \notin TransitionPins(high)
    <3>1. TransitionPins(high) = NoPins /\ (p \in timer \/ \E i \in 1..Len(queued) : p \in queued[i])
      BY <1>2, <2>1, <2>6 DEF Underway
    <3>2. timer' = timer BY <2>2, <3>1 DEF UserHandler, UserPins, NoPins
    <3>3. Underway(p)' BY <2>2, <2>4, <3>1, <3>2 DEF Underway
    <3>4. QED BY <1>2, <2>1, <2>2, <2>3, <3>3 DEF NoRead
  <2>7. QED BY <2>5, <2>6
<1>9. CASE RunTimeout
  <2>1. /\ p \in owed /\ p \notin queued[1] \cap Active(high)
        /\ UNCHANGED <<high, event, enabled, senseHigh, irq, timer, call>>
        /\ queued # <<>> /\ queued' = Tail(queued)
    BY <1>1, <1>9 DEF RunTimeout
  <2>2. Active(high)' = Active(high) /\ TransitionPins(high)' = TransitionPins(high)
    BY <2>1 DEF Active, TransitionPins
  <2>3. ASSUME NEW i \in 1..Len(queued), p \in queued[i]
        PROVE  \E j \in 1..Len(queued') : p \in queued'[j]
    <3>1. Len(queued) \in Nat /\ i # 1 BY <1>2, <2>1, <2>3 DEF Types
    <3>2. Len(queued') = Len(queued) - 1 /\ queued'[i - 1] = queued[i]
      BY <2>1, <3>1 DEF Types
    <3>3. i - 1 \in 1..Len(queued') BY <3>1, <3>2
    <3>4. QED BY <2>3, <3>2, <3>3
  <2>4. Underway(p)' BY <1>2, <2>1, <2>2, <2>3 DEF Underway
  <2>5. QED BY <1>2, <2>1, <2>2, <2>4
<1>10. CASE EnableStart BY <1>1, <1>2, <1>10 DEF EnableStart
<1>11. CASE DisableStart BY <1>1, <1>11 DEF DisableStart, NoPins
<1>12. CASE InCall
  <2> USE DEF InCall, EnableRead, EnableZero, EnableLoad, EnableStore, EnableSet,
              DisablePin, CallEnd
  <2>1. call # NoCall BY <1>12 DEF NoCall
  <2>2. p \in owed BY <1>1, <1>12
  <2>3. QED BY <1>2, <2>1, <2>2
<1>13. QED
  BY <1>1, <1>3, <1>4, <1>5, <1>6, <1>7, <1>8, <1>9, <1>10, <1>11, <1>12
  DEF Next, Irq, OwedInv

-----------------------------------------------------------------------------
(* Theorems *)

\* What the invariant says is so at the start and kept by every step.
THEOREM Inductive == Spec => []IInv
<1>1. Init => IInv
  <2>1. SUFFICES ASSUME Init PROVE IInv OBVIOUS
  <2>2. Types
    <3>1. high \subseteq Pin /\ senseHigh \subseteq Pin /\ timer \subseteq Pin
      BY <2>1 DEF Init, NoPins
    <3>2. queued \in Seq(SUBSET Pin) /\ runs \in Nat BY <2>1 DEF Init
    <3>3. /\ sense \in [Pin -> {"off", "high", "low"}]
          /\ event \in BOOLEAN /\ enabled \in BOOLEAN
      BY <2>1 DEF Init
    <3>4. presses \in Nat /\ credit \in [Pin -> Int] BY <2>1 DEF Init
    <3>5. irq = NoRead /\ call = NoCall BY <2>1 DEF Init
    <3>6. irq \in [busy : BOOLEAN, pins : SUBSET Pin] BY <3>5 DEF NoRead, NoPins
    <3>7. call \in [op : {"none", "read", "zero", "load", "store", "set", "disable"},
                   todo : SUBSET Pin, pins : SUBSET Pin, loaded : SUBSET Pin]
      BY <3>5 DEF NoCall, NoPins
    <3>8. QED BY <3>1, <3>2, <3>3, <3>4, <3>5, <3>6, <3>7 DEF Types
  <2>3. CallInv /\ RunsInv BY <2>1 DEF Init, CallInv, RunsInv, Enabling, NoRead, NoCall
  <2>4. ASSUME NEW p \in Pin, NEW S \in Bits PROVE CoveredBy(p, S)
    BY <2>1, QueuedEmpty DEF Init, CoveredBy, ToCome, Due, One, NoPins
  <2>5. QED BY <2>2, <2>3, <2>4 DEF IInv, ReportInv
<1>2. IInv /\ [Next]_vars => IInv'
  <2>1. SUFFICES ASSUME IInv, [Next]_vars PROVE IInv' OBVIOUS
  <2>2. Types' /\ CallInv' /\ RunsInv' BY <2>1, TypesStep, CallStep, RunsStep DEF IInv
  <2>3. ASSUME NEW p \in Pin, NEW S \in Bits' PROVE CoveredBy(p, S)'
    BY <2>1, ReportStep DEF IInv
  <2>4. ReportInv' BY <2>3 DEF ReportInv
  <2>5. QED BY <2>2, <2>4 DEF IInv
<1>3. QED BY <1>1, <1>2, PTL DEF Spec

\* detection_delay_timeout_handler reports a pin no more often than it was
\* pressed, whatever bounces, restarts the timer or waits in the scheduler, but
\* for a second run of one expiry and for the edges met during an enabling.
THEOREM PressReportedOnce == Spec => []OneReportPerPress
<1>1. IInv => OneReportPerPress
  <2>1. SUFFICES ASSUME IInv, NEW p \in Pin PROVE credit[p] >= 0
    BY DEF OneReportPerPress
  <2>2. CoveredBy(p, senseHigh) /\ Types BY <2>1 DEF IInv, ReportInv, Bits
  <2>3. credit[p] \in Int /\ Queued(queued, p) \in Nat BY <2>2, QueuedType DEF Types
  <2>4. ToCome(p, senseHigh) \in Nat /\ One(Due(p)) \in Nat BY DEF ToCome, One
  <2>5. QED BY <2>2, <2>3, <2>4 DEF CoveredBy
<1>2. QED BY <1>1, Inductive, PTL

\* The press of a button that raises DETECT while the handler is idle and knows
\* its SENSE field, and is held with no other pin changing, is always on its way
\* to the user: an interrupt will find it, or the detection timer or the
\* scheduler holds it.  HeldPressReported needs nothing beyond this but that
\* each of them goes on.
THEOREM HeldPressUnderway == Spec => [](\A p \in owed : Underway(p))
<1>1. Init => OwedInv BY DEF Init, OwedInv, NoPins
<1>2. IInv /\ OwedInv /\ [Next]_vars => OwedInv' BY OwedStep DEF IInv
<1>3. OwedInv => \A p \in owed : Underway(p) BY DEF OwedInv
<1>4. QED BY <1>1, <1>2, <1>3, Inductive, PTL DEF Spec
=============================================================================
