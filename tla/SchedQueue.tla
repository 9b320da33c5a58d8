----------------------------- MODULE SchedQueue -----------------------------
(***************************************************************************)
(* What the scheduler promises its callers, without its ring buffer: a     *)
(* bounded first-in first-out queue served by one consumer.  An event      *)
(* whose put succeeded is handed to its handler exactly once, in the order *)
(* of the successful puts; a put fails for lack of room only when the      *)
(* queue really is full; the handler keeps the same event until it         *)
(* returns.                                                                *)
(***************************************************************************)
EXTENDS Naturals, Sequences

CONSTANTS Event,      \* events (handler and data) that fit a queue entry
          Capacity,   \* number of events that can wait
          NoEvent     \* no handler is running

VARIABLES pending,    \* accepted events, oldest first
          current,    \* event whose handler is running, or NoEvent
          outcome     \* what the last put was answered

vars == <<pending, current, outcome>>

Init == /\ pending = <<>>
        /\ current = NoEvent
        /\ outcome = "SUCCESS"

Accept(e) == /\ Len(pending) < Capacity
             /\ pending' = Append(pending, e)
             /\ outcome' = "SUCCESS"
             /\ UNCHANGED current

Refuse == /\ Len(pending) = Capacity
          /\ outcome' = "NO_MEM"
          /\ UNCHANGED <<pending, current>>

Reject == /\ outcome' = "INVALID_LENGTH"
          /\ UNCHANGED <<pending, current>>

Serve == /\ current = NoEvent
         /\ pending # <<>>
         /\ current' = Head(pending)
         /\ pending' = Tail(pending)
         /\ UNCHANGED outcome

Finish == /\ current # NoEvent
          /\ current' = NoEvent
          /\ UNCHANGED <<pending, outcome>>

Next == (\E e \in Event : Accept(e)) \/ Refuse \/ Reject \/ Serve \/ Finish

Spec == Init /\ [][Next]_vars
=============================================================================
