--------------------------- MODULE MCHciTransport ---------------------------
(***************************************************************************)
(* Instances of HciTransport for TLC: the first chip writes two different  *)
(* packets, the second one.                                                *)
(***************************************************************************)
EXTENDS HciTransport, TLC

CONSTANTS first, second, m1, m2, m3

ThreePackets == [p \in {first, second} |-> IF p = first THEN {m1, m2} ELSE {m3}]

\* No property tells the two packets of the first chip apart.
Interchangeable == Permutations({m1, m2})

\* The packet of an idle transmitter is never read, and the retry counter is
\* cleared when ACTIVE is entered.
Unread == [p \in Peers |->
             IF ~Writing(p) THEN [tx[p] EXCEPT !.packet = NoPacket, !.retries = 0]
             ELSE IF tx[p].state # "ACTIVE" THEN [tx[p] EXCEPT !.retries = 0]
             ELSE tx[p]]
Normal == <<Unread, writing, expected, used, buffer, callVars, slip>>

=============================================================================
