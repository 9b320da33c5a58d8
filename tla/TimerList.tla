----------------------------- MODULE TimerList -----------------------------
(***************************************************************************)
(* The list of running timers of app_timer.c.  A list L holds the timers   *)
(* in the order of their expiry (order) and, for each timer, its           *)
(* ticks_to_expire (ticks), counted from the expiry of the timer before    *)
(* it; the head's is counted from m_ticks_latest.                          *)
(***************************************************************************)
EXTENDS Naturals, SequencesExt

IsEmptyList(L) == L.order = <<>>
HeadOf(L)      == IF L.order = <<>> THEN 0 ELSE L.order[1]   \* 0: TIMER_NULL
Listed(L)      == ToSet(L.order)

\* Ticks from m_ticks_latest to the expiry of the first i timers of the list.
DueAt(L, i) ==
  LET due[j \in 0..Len(L.order)] == IF j = 0 THEN 0 ELSE due[j - 1] + L.ticks[L.order[j]]
  IN  due[i]

Position(L, t) == CHOOSE i \in DOMAIN L.order : L.order[i] = t
Due(L, t)      == DueAt(L, Position(L, t))

\* The number of timers at the front of the list that expire within e ticks.
ExpiredCount(L, e) == Cardinality({i \in DOMAIN L.order : DueAt(L, i) <= e})

Expired(L, e)      == SubSeq(L.order, 1, ExpiredCount(L, e))
ExpiredTicks(L, e) == DueAt(L, ExpiredCount(L, e))

\* timer_list_insert: before the first timer that does not expire earlier.
Inserted(L, t, e) ==
  LET before == {i \in DOMAIN L.order : DueAt(L, i) < e}
      pos    == Cardinality(before) + 1
      rest   == e - DueAt(L, pos - 1)
  IN  [order |-> InsertAt(L.order, pos, t),
       ticks |-> [u \in DOMAIN L.ticks |->
                    IF u = t THEN rest
                    ELSE IF pos <= Len(L.order) /\ u = L.order[pos] THEN L.ticks[u] - rest
                    ELSE L.ticks[u]]]

\* Mutant: the next timer does not inherit the ticks of the removed one.
RemovedOnly(L, t) ==
  IF t \notin Listed(L) THEN L
  ELSE [order |-> RemoveAt(L.order, Position(L, t)), ticks |-> [L.ticks EXCEPT ![t] = 0]]

\* timer_list_remove, where the ticks of a timer out of the list, which are
\* never read, are 0: the next timer inherits the ticks of the removed one.
Removed(L, t) ==
  IF t \notin Listed(L) THEN L
  ELSE LET pos == Position(L, t)
       IN  [order |-> RemoveAt(L.order, pos),
            ticks |-> [u \in DOMAIN L.ticks |->
                         IF u = t THEN 0
                         ELSE IF pos < Len(L.order) /\ u = L.order[pos + 1]
                         THEN L.ticks[u] + L.ticks[t] ELSE L.ticks[u]]]

\* The end of list_deletions_handler for a stop of all timers.
Emptied(L) == [order |-> <<>>, ticks |-> [u \in DOMAIN L.ticks |-> 0]]

\* The list part of expired_timers_handler: the expired timers leave the list
\* and the new head expires e - ExpiredTicks(L, e) ticks sooner.
Advanced(L, e) ==
  LET n == ExpiredCount(L, e)
      gone == ToSet(Expired(L, e))
  IN  [order |-> SubSeq(L.order, n + 1, Len(L.order)),
       ticks |-> [u \in DOMAIN L.ticks |->
                    IF u \in gone THEN 0
                    ELSE IF n < Len(L.order) /\ u = L.order[n + 1]
                    THEN L.ticks[u] - (e - DueAt(L, n)) ELSE L.ticks[u]]]
=============================================================================
