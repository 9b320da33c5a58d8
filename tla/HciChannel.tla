----------------------------- MODULE HciChannel -----------------------------
(***************************************************************************)
(* What the HCI transport promises its users, per direction: one packet at *)
(* a time, handed to the peer at most once, and reported as a success only *)
(* when the peer has taken a packet.  A failure is inconclusive: the peer  *)
(* may have taken the packet already, or may take it later.  The next      *)
(* write passes for a repetition of the failed one, so a caller that       *)
(* writes something else after a failure may be told that it has arrived   *)
(* when in truth the failed packet has.                                    *)
(***************************************************************************)
CONSTANTS Peers,         \* the two chips
          Packet,        \* what can be written
          NoPacket       \* nothing is being sent; nothing was received yet

VARIABLES pending,       \* the packet of the write in progress, or NoPacket
          underway,      \* packets the other peer may still take: the pending
                         \* one, and failed ones of which a copy is about
          taken,         \* the other peer has taken a packet since the last success
          inbox          \* the last packet handed to this peer

vars == <<pending, underway, taken, inbox>>

Init == /\ pending = [p \in Peers |-> NoPacket]
        /\ underway = [p \in Peers |-> {}]
        /\ taken = [p \in Peers |-> FALSE]
        /\ inbox = [p \in Peers |-> NoPacket]

Write(p, m) ==
  /\ UNCHANGED <<inbox, taken>>
  /\ pending[p] = NoPacket
  /\ pending' = [pending EXCEPT ![p] = m]
  /\ underway' = [underway EXCEPT ![p] = IF taken[p] THEN {} ELSE @ \cup {m}]

\* q takes a packet of p, and no other one before p has succeeded.
Hand(p, q, m) ==
  /\ ~taken[p]
  /\ m \in underway[p]
  /\ inbox' = [inbox EXCEPT ![q] = m]
  /\ taken' = [taken EXCEPT ![p] = TRUE]
  /\ underway' = [underway EXCEPT ![p] = {}]
  /\ UNCHANGED pending

Succeed(p) ==
  /\ UNCHANGED inbox
  /\ taken[p]
  /\ taken' = [taken EXCEPT ![p] = FALSE]
  /\ pending[p] # NoPacket
  /\ pending' = [pending EXCEPT ![p] = NoPacket]
  /\ UNCHANGED underway

Fail(p) ==
  /\ UNCHANGED <<inbox, taken>>
  /\ pending[p] # NoPacket
  /\ pending' = [pending EXCEPT ![p] = NoPacket]
  /\ \E rest \in SUBSET underway[p] : underway' = [underway EXCEPT ![p] = rest]

\* The copies of a failed packet get lost.
Lose(p) ==
  /\ UNCHANGED <<inbox, taken, pending>>
  /\ \E rest \in SUBSET underway[p] :
       /\ underway[p] \cap {pending[p]} \subseteq rest
       /\ underway' = [underway EXCEPT ![p] = rest]

Next == \E p \in Peers : \/ Lose(p)
                         \/ \E m \in Packet : Write(p, m)
                         \/ \E q \in Peers \ {p}, m \in underway[p] : Hand(p, q, m)
                         \/ Succeed(p)
                         \/ Fail(p)

Spec == Init /\ [][Next]_vars
=============================================================================
