----------------------------- MODULE MCAppTimer -----------------------------
(***************************************************************************)
(* Instances of AppTimer for TLC, and a view for the runs of safety        *)
(* properties.  Every counter value is used only in a difference modulo    *)
(* CounterMod, so adding one constant to all of them maps behaviours to    *)
(* behaviours: Rotated identifies the states that differ by such a         *)
(* constant, by what a node that is not running still holds (Insert        *)
(* overwrites it before it is read), or by a history variable that no step *)
(* reads and only SingleShotOnce and StopHonoured mention.                 *)
(***************************************************************************)
EXTENDS AppTimer

Since(x) == Diff(x, latest)
SinceOp(op) == IF op.type = "start" THEN [op EXCEPT !.at = Since(@)] ELSE op

InUse(t) == running[t] \/ t \in ToSet(low.restart)

Rotated ==
  <<Since(counter), Since(cc), sure, event, rtcOn, rtcPend, late, swiPend,
    [u \in User |-> [i \in DOMAIN ops[u] |-> SinceOp(ops[u][i])]],
    call.pc, SinceOp(call.op),
    [low EXCEPT !.pre = IF low.pc = "compare" THEN Since(@) ELSE @],
    list, running, queued,
    [t \in Timer |-> IF InUse(t) THEN <<interval[t], Since(startAt[t])>> ELSE <<0, 0>>]>>
=============================================================================
