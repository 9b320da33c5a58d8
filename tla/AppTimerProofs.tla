--------------------------- MODULE AppTimerProofs ---------------------------
(***************************************************************************)
(* Proofs about app_timer.c, for every number of timers, size of the       *)
(* queues, width of the counter and set of callers: the list of timers is  *)
(* right (ListRight, DeadlineRight), handlers are never early              *)
(* (HandlersInTime), a COMPARE event is certain to come (CompareRight) and *)
(* no operation is stranded (NoOpStranded).                                *)
(*                                                                         *)
(* The list comes first, by itself: what its operations do to the timers   *)
(* listed and to the time each is due.  DueAt and the two loops over the   *)
(* queues are recursive functions, so that what they compute is found from *)
(* the equations they satisfy and by least counterexample.  Then come the  *)
(* differences of counter values modulo the range of the counter, and then *)
(* the steps of the module.                                                *)
(***************************************************************************)
EXTENDS AppTimer, TLAPS,
        WellFoundedInduction, FiniteSetTheorems, SequenceTheorems

\* A set of naturals has a least element: what the proofs use for induction.
LEMMA Minimum ==
  ASSUME NEW T, T \subseteq Nat, T # {}
  PROVE  \E x \in T : \A y \in T : x <= y
<1> DEFINE R == OpToRel(<, Nat)
<1>1. IsWellFoundedOn(R, Nat) BY NatLessThanWellFounded
<1>2. \A x, y \in Nat : y < x => <<y, x>> \in R BY DEF OpToRel
<1> HIDE DEF R
<1>3. PICK x \in T : \A y \in T : ~(<<y, x>> \in R) BY <1>1, WFMin
<1>4. \A y \in T : ~(y < x) BY <1>2, <1>3
<1>5. QED BY <1>4

-----------------------------------------------------------------------------
(* Recursive functions, and the list.                                      *)

Lists == {L \in [order : Seq(Timer), ticks : [Timer -> Nat]] : IsInjective(L.order)}

\* The function f on 0..N defined by recursion from base, the n-th step being F[n].
Iterates(f, N, base, F) == f[0] = base /\ \A n \in 1..N : f[n] = F[n][f[n - 1]]

LEMMA Recursion ==
  ASSUME NEW N \in Nat, NEW S, NEW base \in S, NEW F \in [1..N -> [S -> S]]
  PROVE  \E f \in [0..N -> S] : Iterates(f, N, base, F)
<1> DEFINE Fits(K, f) == f[0] = base /\ \A n \in 1..K : f[n] = F[n][f[n - 1]]
           Bad == {K \in 0..N : ~ \E f \in [0..K -> S] : Fits(K, f)}
<1> HIDE DEF Bad
<1>1. Bad = {}
  <2>1. SUFFICES ASSUME Bad # {} PROVE FALSE OBVIOUS
  <2>2. Bad \subseteq Nat BY DEF Bad
  <2>3. PICK K \in Bad : \A k \in Bad : K <= k BY <2>1, <2>2, Minimum
  <2>4. K \in 0..N BY DEF Bad
  <2>5. \A k \in 0..N : k < K => k \notin Bad BY <2>3, <2>4
  <2>6. \A k \in 0..N : k < K => \E f \in [0..k -> S] : Fits(k, f) BY <2>5 DEF Bad
  <2>7. CASE K = 0
    <3> DEFINE f == [n \in 0..0 |-> base]
    <3>1. f \in [0..K -> S] /\ Fits(K, f) BY <2>7
    <3> HIDE DEF f
    <3>2. QED BY <3>1 DEF Bad
  <2>8. CASE K # 0
    <3>1. K - 1 \in 0..N /\ K - 1 < K BY <2>4, <2>8
    <3>2. PICK g \in [0..K - 1 -> S] : Fits(K - 1, g) BY <2>6, <3>1
    <3> DEFINE f == [n \in 0..K |-> IF n = K THEN F[K][g[K - 1]] ELSE g[n]]
    <3>3. K - 1 \in 0..K - 1 /\ K \in 1..N BY <2>4, <2>8
    <3>4. F[K][g[K - 1]] \in S BY <3>3
    <3>5. f \in [0..K -> S] BY <3>4, <2>4
    <3>6. f[0] = base BY <3>2, <3>3, <2>4, <2>8
    <3> HIDE DEF Fits
    <3>7. ASSUME NEW n \in 1..K PROVE f[n] = F[n][f[n - 1]]
      <4>1. CASE n # K
        <5>1. n \in 1..K - 1 /\ n - 1 \in 0..K /\ n - 1 # K BY <4>1, <2>4
        <5>2. g[n] = F[n][g[n - 1]] BY <3>2, <5>1 DEF Fits
        <5>3. f[n] = g[n] /\ f[n - 1] = g[n - 1] BY <4>1, <5>1
        <5>4. QED BY <5>2, <5>3
      <4>2. CASE n = K
        <5>1. K - 1 \in 0..K /\ K - 1 # K BY <2>4, <2>8
        <5>2. f[K] = F[K][g[K - 1]] /\ f[K - 1] = g[K - 1] BY <5>1, <2>4
        <5>3. QED BY <4>2, <5>2
      <4>3. QED BY <4>1, <4>2
    <3> HIDE DEF f
    <3>8. QED BY <3>5, <3>6, <3>7 DEF Bad, Fits
  <2>9. QED BY <2>7, <2>8
<1>2. N \in 0..N /\ N \notin Bad BY <1>1
<1>3. \E f \in [0..N -> S] : Fits(N, f) BY <1>2 DEF Bad
<1>4. QED BY <1>3 DEF Iterates

\* The due times of the timers of a list, one after the other.
LEMMA DueFacts ==
  ASSUME NEW L \in Lists
  PROVE  /\ DueAt(L, 0) = 0
         /\ \A i \in 1..Len(L.order) : DueAt(L, i) = DueAt(L, i - 1) + L.ticks[L.order[i]]
         /\ \A i \in 0..Len(L.order) : DueAt(L, i) \in Nat
<1> DEFINE N == Len(L.order)
           F == [n \in 1..N |-> [x \in Nat |-> x + L.ticks[L.order[n]]]]
           Fits(f) == f = [j \in 0..N |-> IF j = 0 THEN 0 ELSE f[j - 1] + L.ticks[L.order[j]]]
           due == CHOOSE f : Fits(f)
<1>1. N \in Nat /\ \A i \in 1..N : L.order[i] \in Timer BY DEF Lists
<1>2. \A i \in 1..N : L.ticks[L.order[i]] \in Nat BY <1>1 DEF Lists
<1>3. F \in [1..N -> [Nat -> Nat]] BY <1>2
<1>4. PICK f \in [0..N -> Nat] : f[0] = 0 /\ \A n \in 1..N : f[n] = F[n][f[n - 1]]
  <2> HIDE DEF F
  <2> DEFINE S == Nat
  <2>1. N \in Nat /\ 0 \in S /\ F \in [1..N -> [S -> S]] BY <1>1, <1>3
  <2> HIDE DEF N, S
  <2>2. \E f \in [0..N -> S] : Iterates(f, N, 0, F) BY <2>1, Recursion
  <2>3. QED BY <2>2 DEF S, Iterates
<1>5. \A n \in 1..N : F[n][f[n - 1]] = f[n - 1] + L.ticks[L.order[n]]
  <2> SUFFICES ASSUME NEW n \in 1..N PROVE F[n][f[n - 1]] = f[n - 1] + L.ticks[L.order[n]]
    OBVIOUS
  <2>1. n \in 1..N /\ n - 1 \in 0..N BY <1>1
  <2>2. f[n - 1] \in Nat BY <2>1
  <2>3. QED BY <2>1, <2>2
<1>6. Fits(f)
  <2> HIDE DEF F
  <2>1. \A n \in 0..N : n = 0 \/ n \in 1..N BY <1>1
  <2> HIDE DEF N
  <2>2. \A n \in 0..N : f[n] = IF n = 0 THEN 0 ELSE f[n - 1] + L.ticks[L.order[n]]
    BY <1>4, <1>5, <2>1
  <2>3. QED BY <2>2 DEF N
<1>7. Fits(due) BY <1>6
<1>8. \A i : DueAt(L, i) = due[i] BY DEF DueAt
<1>9. \A g : Fits(g) => /\ g[0] = 0 /\ \A i \in 1..N : g[i] = g[i - 1] + L.ticks[L.order[i]]
  <2> SUFFICES ASSUME NEW g, Fits(g)
               PROVE  g[0] = 0 /\ \A i \in 1..N : g[i] = g[i - 1] + L.ticks[L.order[i]]
    OBVIOUS
  <2>1. 0 \in 0..N /\ \A i \in 1..N : i \in 0..N /\ i # 0 BY <1>1
  <2> HIDE DEF N
  <2>2. \A j \in 0..N : g[j] = IF j = 0 THEN 0 ELSE g[j - 1] + L.ticks[L.order[j]] OBVIOUS
  <2> HIDE DEF Fits
  <2>3. QED BY <2>1, <2>2
<1>10. \A i \in 0..N : due[i] \in Nat
  <2> DEFINE Bad == {i \in 0..N : due[i] \notin Nat}
  <2> HIDE DEF due
  <2>1. SUFFICES ASSUME Bad # {} PROVE FALSE OBVIOUS
  <2>2. Bad \subseteq Nat BY <1>1
  <2> HIDE DEF Bad
  <2>3. PICK k \in Bad : \A j \in Bad : k <= j BY <2>1, <2>2, Minimum
  <2>4. k \in 0..N /\ k # 0 BY <1>7, <1>9 DEF Bad
  <2>5. k \in 1..N /\ k - 1 \in 0..N /\ k - 1 \notin Bad BY <1>1, <2>3, <2>4
  <2>6. due[k] = due[k - 1] + L.ticks[L.order[k]] BY <1>7, <1>9, <2>5
  <2>7. QED BY <2>5, <2>6, <1>2 DEF Bad
<1> HIDE DEF due
<1>11. /\ due[0] = 0 /\ \A i \in 1..N : due[i] = due[i - 1] + L.ticks[L.order[i]]
  BY <1>7, <1>9
<1> HIDE DEF Fits
<1>12. QED BY <1>8, <1>10, <1>11

\* Any numbers that add up in the same way are the due times.
LEMMA DueUnique ==
  ASSUME NEW L \in Lists, NEW D, D[0] = 0,
         \A i \in 1..Len(L.order) : D[i] = D[i - 1] + L.ticks[L.order[i]]
  PROVE  \A i \in 0..Len(L.order) : DueAt(L, i) = D[i]
<1> DEFINE N == Len(L.order)
           Bad == {i \in 0..N : DueAt(L, i) # D[i]}
<1>1. N \in Nat BY DEF Lists
<1>2. SUFFICES ASSUME Bad # {} PROVE FALSE OBVIOUS
<1>3. Bad \subseteq Nat BY <1>1
<1> HIDE DEF Bad
<1>4. PICK k \in Bad : \A j \in Bad : k <= j BY <1>2, <1>3, Minimum
<1>5. k \in 0..N /\ k # 0 BY DueFacts DEF Bad
<1>6. k \in 1..N /\ k - 1 \in 0..N /\ k - 1 \notin Bad BY <1>1, <1>4, <1>5
<1>7. DueAt(L, k) = DueAt(L, k - 1) + L.ticks[L.order[k]] BY <1>6, DueFacts
<1>8. QED BY <1>6, <1>7 DEF Bad

LEMMA DueGrows ==
  ASSUME NEW L \in Lists
  PROVE  \A i, j \in 0..Len(L.order) : i <= j => DueAt(L, i) <= DueAt(L, j)
<1> DEFINE N == Len(L.order)
<1>1. N \in Nat BY DEF Lists
<1> SUFFICES ASSUME NEW i \in 0..N
             PROVE  \A j \in 0..N : i <= j => DueAt(L, i) <= DueAt(L, j)
  OBVIOUS
<1> DEFINE Bad == {j \in 0..N : i <= j /\ ~(DueAt(L, i) <= DueAt(L, j))}
<1>2. SUFFICES ASSUME Bad # {} PROVE FALSE OBVIOUS
<1>3. Bad \subseteq Nat BY <1>1
<1> HIDE DEF Bad
<1>4. PICK k \in Bad : \A j \in Bad : k <= j BY <1>2, <1>3, Minimum
<1>5. \A j \in 0..N : DueAt(L, j) \in Nat BY DueFacts
<1>6. k \in 0..N /\ i <= k /\ k # i BY <1>5 DEF Bad
<1>7. k \in 1..N /\ k - 1 \in 0..N /\ i <= k - 1 /\ k - 1 \notin Bad BY <1>1, <1>4, <1>6
<1>8. DueAt(L, k) = DueAt(L, k - 1) + L.ticks[L.order[k]] BY <1>7, DueFacts
<1>9. L.ticks[L.order[k]] \in Nat BY <1>7 DEF Lists
<1>10. DueAt(L, i) <= DueAt(L, k - 1) BY <1>7 DEF Bad
<1>11. DueAt(L, i) \in Nat /\ DueAt(L, k) \in Nat /\ DueAt(L, k - 1) \in Nat
  BY <1>5, <1>6, <1>7
<1>12. ~(DueAt(L, i) <= DueAt(L, k)) BY DEF Bad
<1> HIDE DEF N
<1>13. QED BY <1>8, <1>9, <1>10, <1>11, <1>12

\* The timer at place i of a list is due when DueAt says.
LEMMA DueOf ==
  ASSUME NEW L \in Lists, NEW i \in 1..Len(L.order)
  PROVE  /\ Position(L, L.order[i]) = i
         /\ Due(L, L.order[i]) = DueAt(L, i)
<1>1. DOMAIN L.order = 1..Len(L.order) BY DEF Lists
<1>2. Position(L, L.order[i]) = i BY <1>1 DEF Position, Lists, IsInjective
<1>3. QED BY <1>2 DEF Due

LEMMA ListedAt ==
  ASSUME NEW L \in Lists, NEW t \in Listed(L)
  PROVE  /\ t \in Timer /\ Position(L, t) \in 1..Len(L.order)
         /\ L.order[Position(L, t)] = t /\ Due(L, t) = DueAt(L, Position(L, t)) /\ Due(L, t) \in Nat
<1>1. DOMAIN L.order = 1..Len(L.order) /\ Len(L.order) \in Nat BY DEF Lists
<1>2. PICK i \in 1..Len(L.order) : L.order[i] = t BY <1>1 DEF Listed, ToSet
<1>3. Position(L, t) = i BY <1>2, DueOf
<1>4. t \in Timer BY <1>2 DEF Lists
<1>5. DueAt(L, i) \in Nat BY DueFacts, <1>1
<1>6. QED BY <1>2, <1>3, <1>4, <1>5 DEF Due

\* An initial segment is as long as it has members.
LEMMA Prefix ==
  ASSUME NEW N \in Nat, NEW T \in SUBSET (1..N),
         \A i, j \in 1..N : i <= j /\ j \in T => i \in T
  PROVE  Cardinality(T) \in 0..N /\ T = 1..Cardinality(T)
<1> DEFINE Out == {i \in 1..N + 1 : i \notin T}
<1>1. N + 1 \in Out OBVIOUS
<1>2. Out \subseteq Nat OBVIOUS
<1> HIDE DEF Out
<1>3. PICK k \in Out : \A j \in Out : k <= j BY <1>1, <1>2, Minimum
<1>4. k \in 1..N + 1 /\ k \notin T /\ \A j \in 1..N : j < k => j \in T BY <1>3 DEF Out
<1>5. T = 1..k - 1
  <2>1. ASSUME NEW i \in 1..k - 1 PROVE i \in T BY <1>4
  <2>2. ASSUME NEW i \in T PROVE i \in 1..k - 1
    <3>1. CASE i >= k
      <4>1. k \in 1..N BY <3>1, <1>4
      <4>2. QED BY <3>1, <4>1, <1>4
    <3>2. QED BY <3>1, <1>4
  <2>3. QED BY <2>1, <2>2
<1>6. Cardinality(1..k - 1) = k - 1
  <2>1. \A a, b \in Int : Cardinality(a..b) = IF a > b THEN 0 ELSE b - a + 1 BY FS_Interval
  <2>2. Cardinality(1..k - 1) = IF 1 > k - 1 THEN 0 ELSE (k - 1) - 1 + 1
    BY <2>1, <1>4
  <2>3. QED BY <2>2, <1>4
<1>7. QED BY <1>4, <1>5, <1>6

\* Timers expire from the front of the list.
LEMMA ExpiredFront ==
  ASSUME NEW L \in Lists, NEW e \in Int
  PROVE  /\ ExpiredCount(L, e) \in 0..Len(L.order)
         /\ \A i \in 1..Len(L.order) : (DueAt(L, i) <= e) <=> (i <= ExpiredCount(L, e))
<1> DEFINE N == Len(L.order)
           T == {i \in 1..N : DueAt(L, i) <= e}
<1>1. N \in Nat /\ DOMAIN L.order = 1..N BY DEF Lists
<1>2. \A i \in 1..N : DueAt(L, i) \in Nat BY DueFacts, <1>1
<1>3. \A i, j \in 1..N : i <= j => DueAt(L, i) <= DueAt(L, j) BY DueGrows, <1>1
<1>4. \A i, j \in 1..N : i <= j /\ j \in T => i \in T BY <1>2, <1>3
<1>5. ExpiredCount(L, e) = Cardinality(T) BY <1>1 DEF ExpiredCount
<1>6. T \in SUBSET (1..N) /\ \A i \in 1..N : i \in T <=> DueAt(L, i) <= e OBVIOUS
<1> HIDE DEF T, N
<1>7. Cardinality(T) \in 0..N /\ T = 1..Cardinality(T) BY <1>1, <1>4, <1>6, Prefix
<1>8. \A i \in 1..N : (DueAt(L, i) <= e) <=> (i <= Cardinality(T)) BY <1>1, <1>6, <1>7
<1>9. QED BY <1>5, <1>7, <1>8 DEF N

\* Where timer_list_insert stops: after the timers that are due before e.
Sooner(L, e) == {i \in DOMAIN L.order : DueAt(L, i) < e}

LEMMA SoonerFront ==
  ASSUME NEW L \in Lists, NEW e \in Int
  PROVE  /\ Cardinality(Sooner(L, e)) \in 0..Len(L.order)
         /\ \A i \in 1..Len(L.order) : (DueAt(L, i) < e) <=> (i <= Cardinality(Sooner(L, e)))
<1> DEFINE N == Len(L.order)
           T == Sooner(L, e)
<1>1. N \in Nat /\ DOMAIN L.order = 1..N BY DEF Lists
<1>2. \A i \in 1..N : DueAt(L, i) \in Nat BY DueFacts, <1>1
<1>3. \A i, j \in 1..N : i <= j => DueAt(L, i) <= DueAt(L, j) BY DueGrows, <1>1
<1>4. T \in SUBSET (1..N) /\ \A i \in 1..N : i \in T <=> DueAt(L, i) < e BY <1>1 DEF Sooner
<1>5. \A i, j \in 1..N : i <= j /\ j \in T => i \in T BY <1>2, <1>3, <1>4
<1> HIDE DEF T, N
<1>6. Cardinality(T) \in 0..N /\ T = 1..Cardinality(T) BY <1>1, <1>4, <1>5, Prefix
<1>7. \A i \in 1..N : (DueAt(L, i) < e) <=> (i <= Cardinality(T)) BY <1>1, <1>4, <1>6
<1>8. QED BY <1>6, <1>7 DEF N, T

LEMMA InsertAtFacts ==
  ASSUME NEW S, NEW s \in Seq(S), NEW i \in 1..Len(s) + 1, NEW e \in S
  PROVE  /\ InsertAt(s, i, e) \in Seq(S) /\ Len(InsertAt(s, i, e)) = Len(s) + 1
         /\ \A j \in 1..Len(s) + 1 :
              InsertAt(s, i, e)[j] = IF j < i THEN s[j] ELSE IF j = i THEN e ELSE s[j - 1]
<1> DEFINE a == SubSeq(s, 1, i - 1)
           b == SubSeq(s, i, Len(s))
           ae == a \o <<e>>
<1>1. Len(s) \in Nat OBVIOUS
<1>2. /\ a \in Seq(S) /\ Len(a) = i - 1
      /\ \A j \in 1..i - 1 : a[j] = s[j]
  <2>1. i - 1 \in Nat /\ i - 1 <= Len(s) BY <1>1
  <2>2. \A j \in 1..i - 1 : s[j] \in S BY <2>1
  <2>3. QED BY <2>1, <2>2, SubSeqProperties
<1>3. /\ b \in Seq(S) /\ Len(b) = Len(s) + 1 - i
      /\ \A j \in 1..Len(s) + 1 - i : b[j] = s[i + j - 1]
  <2>1. \A j \in i..Len(s) : s[j] \in S BY <1>1
  <2>2. QED BY <1>1, <2>1, SubSeqProperties
<1>4. <<e>> \in Seq(S) /\ Len(<<e>>) = 1 /\ <<e>>[1] = e OBVIOUS
<1> HIDE DEF a, b
<1>5. /\ ae \in Seq(S) /\ Len(ae) = i
      /\ \A j \in 1..i : ae[j] = IF j < i THEN s[j] ELSE e
  <2> DEFINE u == <<e>>
  <2>1. u \in Seq(S) /\ Len(u) = 1 /\ u[1] = e BY <1>4
  <2> HIDE DEF u
  <2>2. /\ a \o u \in Seq(S) /\ Len(a \o u) = Len(a) + Len(u)
        /\ \A j \in 1..Len(a) + Len(u) : (a \o u)[j] = IF j <= Len(a) THEN a[j] ELSE u[j - Len(a)]
    BY <1>2, <2>1, ConcatProperties
  <2>3. \A j \in 1..i : (a \o u)[j] = IF j < i THEN s[j] ELSE e BY <1>1, <1>2, <2>1, <2>2
  <2>4. Len(a) + Len(u) = i BY <1>1, <1>2, <2>1
  <2>5. QED BY <2>2, <2>3, <2>4 DEF u
<1> HIDE DEF ae
<1>6. /\ ae \o b \in Seq(S) /\ Len(ae \o b) = Len(ae) + Len(b)
      /\ \A j \in 1..Len(ae) + Len(b) :
           (ae \o b)[j] = IF j <= Len(ae) THEN ae[j] ELSE b[j - Len(ae)]
  BY <1>3, <1>5, ConcatProperties
<1>7. InsertAt(s, i, e) = ae \o b BY DEF InsertAt, a, b, ae
<1>8. Len(ae) + Len(b) = Len(s) + 1 BY <1>1, <1>3, <1>5
<1>9. \A j \in 1..Len(s) + 1 :
        (ae \o b)[j] = IF j < i THEN s[j] ELSE IF j = i THEN e ELSE s[j - 1]
  <2> SUFFICES ASSUME NEW j \in 1..Len(s) + 1
               PROVE (ae \o b)[j] = IF j < i THEN s[j] ELSE IF j = i THEN e ELSE s[j - 1]
    OBVIOUS
  <2>1. CASE j <= i BY <2>1, <1>1, <1>5, <1>6, <1>8
  <2>2. CASE j > i
    <3>1. (ae \o b)[j] = b[j - i] BY <2>2, <1>1, <1>5, <1>6, <1>8
    <3>2. j - i \in 1..Len(s) + 1 - i BY <2>2, <1>1
    <3>3. b[j - i] = s[i + (j - i) - 1] BY <3>2, <1>3
    <3>4. i + (j - i) - 1 = j - 1 OBVIOUS
    <3>5. QED BY <2>2, <3>1, <3>3, <3>4
  <2>3. j <= i \/ j > i BY <1>1
  <2>4. QED BY <2>1, <2>2, <2>3, Zenon
<1>10. QED BY <1>6, <1>7, <1>8, <1>9

LEMMA RemoveAtFacts ==
  ASSUME NEW S, NEW s \in Seq(S), NEW i \in 1..Len(s)
  PROVE  /\ RemoveAt(s, i) \in Seq(S) /\ Len(RemoveAt(s, i)) = Len(s) - 1
         /\ \A j \in 1..Len(s) - 1 : RemoveAt(s, i)[j] = IF j < i THEN s[j] ELSE s[j + 1]
<1> DEFINE a == SubSeq(s, 1, i - 1)
           b == SubSeq(s, i + 1, Len(s))
<1>1. Len(s) \in Nat OBVIOUS
<1>2. /\ a \in Seq(S) /\ Len(a) = i - 1
      /\ \A j \in 1..i - 1 : a[j] = s[j]
  <2>1. i - 1 \in Nat /\ i - 1 <= Len(s) BY <1>1
  <2>2. \A j \in 1..i - 1 : s[j] \in S BY <2>1
  <2>3. QED BY <2>1, <2>2, SubSeqProperties
<1>3. /\ b \in Seq(S) /\ Len(b) = Len(s) - i
      /\ \A j \in 1..Len(s) - i : b[j] = s[i + j]
  <2>1. \A j \in i + 1..Len(s) : s[j] \in S BY <1>1
  <2>2. i + 1 \in 1..Len(s) + 1 BY <1>1
  <2>3. /\ b \in Seq(S) /\ Len(b) = IF i + 1 <= Len(s) THEN Len(s) - (i + 1) + 1 ELSE 0
        /\ \A j \in 1..Len(s) - (i + 1) + 1 : b[j] = s[(i + 1) + j - 1]
    BY <1>1, <2>1, <2>2, SubSeqProperties
  <2>4. \A j \in Int : (i + 1) + j - 1 = i + j OBVIOUS
  <2> HIDE DEF b
  <2>5. Len(b) = Len(s) - i BY <1>1, <2>3
  <2>6. \A j \in 1..Len(s) - i : b[j] = s[i + j]
    <3>1. \A j \in 1..Len(s) - i : b[j] = s[(i + 1) + j - 1] BY <1>1, <2>3
    <3>2. ASSUME NEW j \in 1..Len(s) - i PROVE b[j] = s[i + j]
      <4>1. j \in Int BY <1>1
      <4>2. (i + 1) + j - 1 = i + j BY <2>4, <4>1
      <4>3. b[j] = s[(i + 1) + j - 1] BY <3>1
      <4>4. QED BY <4>2, <4>3
    <3>3. QED BY <3>2
  <2>7. QED BY <2>3, <2>5, <2>6
<1> HIDE DEF a, b
<1>4. /\ a \o b \in Seq(S) /\ Len(a \o b) = Len(a) + Len(b)
      /\ \A j \in 1..Len(a) + Len(b) : (a \o b)[j] = IF j <= Len(a) THEN a[j] ELSE b[j - Len(a)]
  BY <1>2, <1>3, ConcatProperties
<1>5. RemoveAt(s, i) = a \o b BY DEF RemoveAt, a, b
<1>6. Len(a) + Len(b) = Len(s) - 1 BY <1>1, <1>2, <1>3
<1>7. \A j \in 1..Len(s) - 1 : (a \o b)[j] = IF j < i THEN s[j] ELSE s[j + 1]
  <2> SUFFICES ASSUME NEW j \in 1..Len(s) - 1
               PROVE (a \o b)[j] = IF j < i THEN s[j] ELSE s[j + 1]
    OBVIOUS
  <2>1. CASE j < i BY <2>1, <1>1, <1>2, <1>4, <1>6
  <2>2. CASE j >= i
    <3>1. (a \o b)[j] = b[j - (i - 1)] BY <2>2, <1>1, <1>2, <1>4, <1>6
    <3>2. j - (i - 1) \in 1..Len(s) - i BY <2>2, <1>1
    <3>3. b[j - (i - 1)] = s[i + (j - (i - 1))] BY <3>2, <1>3
    <3>4. i + (j - (i - 1)) = j + 1 OBVIOUS
    <3>5. QED BY <2>2, <3>1, <3>3, <3>4
  <2>3. j < i \/ j >= i BY <1>1
  <2>4. QED BY <2>1, <2>2, <2>3, Zenon
<1>8. QED BY <1>4, <1>5, <1>6, <1>7

LEMMA Made ==
  ASSUME NEW o \in Seq(Timer), NEW k \in [Timer -> Nat],
         \A i, j \in 1..Len(o) : o[i] = o[j] => i = j
  PROVE  /\ [order |-> o, ticks |-> k] \in Lists
         /\ [order |-> o, ticks |-> k].order = o /\ [order |-> o, ticks |-> k].ticks = k
BY DEF Lists, IsInjective

LEMMA Parts ==
  ASSUME NEW L \in Lists
  PROVE  /\ L.order \in Seq(Timer) /\ L.ticks \in [Timer -> Nat] /\ DOMAIN L.ticks = Timer
         /\ Len(L.order) \in Nat /\ DOMAIN L.order = 1..Len(L.order)
         /\ \A i \in 1..Len(L.order) : L.order[i] \in Timer /\ L.ticks[L.order[i]] \in Nat
         /\ \A i, j \in 1..Len(L.order) : L.order[i] = L.order[j] => i = j
         /\ \A t : t \in Listed(L) <=> \E i \in 1..Len(L.order) : L.order[i] = t
BY DEF Lists, IsInjective, Listed, ToSet

\* timer_list_insert adds the timer at its time and leaves the times of the others.
LEMMA InsertedFacts ==
  ASSUME NEW L \in Lists, NEW t \in Timer, t \notin Listed(L), NEW e \in Nat
  PROVE  /\ Inserted(L, t, e) \in Lists
         /\ Listed(Inserted(L, t, e)) = Listed(L) \cup {t}
         /\ Due(Inserted(L, t, e), t) = e
         /\ \A u \in Listed(L) : Due(Inserted(L, t, e), u) = Due(L, u)
<1> DEFINE N == Len(L.order)
           pos == Cardinality(Sooner(L, e)) + 1
           rest == e - DueAt(L, pos - 1)
           o == InsertAt(L.order, pos, t)
           k == [u \in Timer |-> IF u = t THEN rest
                                 ELSE IF pos <= N /\ u = L.order[pos] THEN L.ticks[u] - rest
                                 ELSE L.ticks[u]]
           R == [order |-> o, ticks |-> k]
           D == [i \in 0..N + 1 |-> IF i < pos THEN DueAt(L, i) ELSE IF i = pos THEN e
                                    ELSE DueAt(L, i - 1)]
<1>1. Inserted(L, t, e) = R BY Parts DEF Inserted, Sooner
<1>2. N \in Nat /\ \A i \in 0..N : DueAt(L, i) \in Nat BY Parts, DueFacts
<1>3. pos \in 1..N + 1 /\ \A i \in 1..N : (DueAt(L, i) < e) <=> (i < pos)
  <2> DEFINE m == Cardinality(Sooner(L, e))
  <2>1. m \in 0..N /\ \A i \in 1..N : (DueAt(L, i) < e) <=> (i <= m) BY SoonerFront
  <2>2. pos = m + 1 OBVIOUS
  <2> HIDE DEF m, pos, N
  <2>3. QED BY <1>2, <2>1, <2>2
<1> HIDE DEF pos
<1>4. rest \in Nat
  <2>1. pos - 1 \in 0..N BY <1>2, <1>3
  <2>2. CASE pos = 1 BY <2>2, DueFacts
  <2>3. CASE pos # 1
    <3>1. pos - 1 \in 1..N /\ pos - 1 < pos BY <1>2, <1>3, <2>3
    <3>2. DueAt(L, pos - 1) < e BY <1>3, <3>1
    <3>3. DueAt(L, pos - 1) \in Nat BY <1>2, <2>1
    <3>4. QED BY <3>2, <3>3
  <2>4. QED BY <2>2, <2>3
<1>5. /\ o \in Seq(Timer) /\ Len(o) = N + 1
      /\ \A j \in 1..N + 1 :
           o[j] = IF j < pos THEN L.order[j] ELSE IF j = pos THEN t ELSE L.order[j - 1]
  BY <1>3, Parts, InsertAtFacts
<1>6. pos <= N => L.ticks[L.order[pos]] - rest \in Nat
  <2> SUFFICES ASSUME pos <= N PROVE L.ticks[L.order[pos]] - rest \in Nat OBVIOUS
  <2>1. pos \in 1..N /\ pos - 1 \in 0..N BY <1>2, <1>3
  <2>2. DueAt(L, pos) = DueAt(L, pos - 1) + L.ticks[L.order[pos]] BY <2>1, DueFacts
  <2>3. DueAt(L, pos) >= e
    <3>1. ~(DueAt(L, pos) < e) BY <1>3, <2>1
    <3>2. DueAt(L, pos) \in Nat BY <1>2, <2>1
    <3>3. QED BY <3>1, <3>2
  <2>4. L.ticks[L.order[pos]] \in Nat /\ DueAt(L, pos - 1) \in Nat BY <1>2, <2>1, Parts
  <2>5. QED BY <2>2, <2>3, <2>4
<1> HIDE DEF rest
<1>7. k \in [Timer -> Nat]
  <2>1. \A u \in Timer : L.ticks[u] \in Nat BY Parts
  <2> HIDE DEF N
  <2>2. QED BY <1>4, <1>6, <2>1
<1>8. ASSUME NEW i \in 1..N + 1, NEW j \in 1..N + 1, o[i] = o[j] PROVE i = j
  <2>1. \A x \in 1..N : L.order[x] # t BY Parts
  <2>2. \A x, y \in 1..N : L.order[x] = L.order[y] => x = y BY Parts
  <2> HIDE DEF o, N
  <2>3. \A x \in 1..N + 1 :
          /\ x < pos => x \in 1..N /\ o[x] = L.order[x]
          /\ x = pos => o[x] = t
          /\ x > pos => x - 1 \in 1..N /\ o[x] = L.order[x - 1]
    BY <1>2, <1>3, <1>5
  <2>4. CASE i < pos BY <2>4, <1>2, <1>3, <1>8, <2>1, <2>2, <2>3
  <2>5. CASE i = pos BY <2>5, <1>2, <1>3, <1>8, <2>1, <2>2, <2>3
  <2>6. CASE i > pos BY <2>6, <1>2, <1>3, <1>8, <2>1, <2>2, <2>3
  <2>7. QED BY <1>2, <1>3, <2>4, <2>5, <2>6
<1>9. R \in Lists /\ R.order = o /\ R.ticks = k
  <2> HIDE DEF o, k, N
  <2>1. \A i, j \in 1..Len(o) : o[i] = o[j] => i = j BY <1>5, <1>8
  <2>2. QED BY <1>5, <1>7, <2>1, Made
<1> HIDE DEF o, R
<1>10. Listed(R) = Listed(L) \cup {t}
  <2>1. Len(R.order) = N + 1 BY <1>5, <1>9
  <2>2. \A u : u \in Listed(R) <=> \E i \in 1..N + 1 : o[i] = u BY <2>1, <1>9, Parts
  <2>3. \A u : u \in Listed(L) <=> \E i \in 1..N : L.order[i] = u BY Parts
  <2> HIDE DEF N
  <2>4. ASSUME NEW u \in Listed(L) PROVE u \in Listed(R)
    <3>1. PICK i \in 1..N : L.order[i] = u BY <2>3
    <3>2. CASE i < pos
      <4>1. i \in 1..N + 1 /\ o[i] = u BY <1>2, <1>5, <3>1, <3>2
      <4>2. QED BY <2>2, <4>1
    <3>3. CASE i >= pos
      <4>1. i + 1 \in 1..N + 1 /\ ~(i + 1 < pos) /\ i + 1 # pos /\ (i + 1) - 1 = i
        BY <1>2, <1>3, <3>3
      <4>2. o[i + 1] = u BY <1>5, <3>1, <4>1
      <4>3. QED BY <2>2, <4>1, <4>2
    <3>4. QED BY <1>3, <3>2, <3>3
  <2>5. t \in Listed(R) BY <1>3, <1>5, <2>2
  <2>6. ASSUME NEW u \in Listed(R) PROVE u \in Listed(L) \cup {t}
    <3>1. PICK i \in 1..N + 1 : o[i] = u BY <2>2
    <3>2. i < pos => i \in 1..N /\ o[i] = L.order[i] BY <1>2, <1>3, <1>5
    <3>3. i = pos => u = t BY <1>5, <3>1
    <3>4. i > pos => i - 1 \in 1..N /\ o[i] = L.order[i - 1] BY <1>2, <1>3, <1>5
    <3>5. QED BY <1>3, <2>3, <3>1, <3>2, <3>3, <3>4
  <2>7. QED BY <2>4, <2>5, <2>6
<1>11. ASSUME NEW i \in 1..N + 1 PROVE D[i] = D[i - 1] + k[o[i]]
  <2>1. \A x \in 1..N : L.order[x] # t /\ L.order[x] \in Timer BY Parts
  <2>2. \A x, y \in 1..N : L.order[x] = L.order[y] => x = y BY Parts
  <2>3. \A x \in 1..N : DueAt(L, x) = DueAt(L, x - 1) + L.ticks[L.order[x]] BY DueFacts
  <2>4. \A x \in 1..N : L.ticks[L.order[x]] \in Nat BY Parts
  <2>5. i - 1 \in 0..N + 1 BY <1>2
  <2> HIDE DEF N
  <2>6. CASE i < pos
    <3>1. i \in 1..N BY <2>6, <1>2, <1>3
    <3>2. o[i] = L.order[i] BY <1>5, <2>6
    <3>3. k[o[i]] = L.ticks[L.order[i]] BY <2>1, <2>2, <2>6, <3>1, <3>2, <1>2, <1>3
    <3>4. D[i] = DueAt(L, i) /\ D[i - 1] = DueAt(L, i - 1) BY <2>6, <2>5, <1>2, <1>3
    <3>5. QED BY <2>3, <3>1, <3>3, <3>4
  <2>7. CASE i = pos
    <3>1. o[i] = t /\ k[t] = rest BY <1>5, <2>7
    <3>2. D[i] = e /\ D[i - 1] = DueAt(L, i - 1) BY <2>7, <2>5, <1>2, <1>3
    <3>3. rest = e - DueAt(L, i - 1) BY <2>7 DEF rest
    <3>4. DueAt(L, i - 1) \in Nat BY <2>7, <1>2, <1>3
    <3>5. QED BY <3>1, <3>2, <3>3, <3>4
  <2>8. CASE i = pos + 1
    <3>1. pos \in 1..N /\ i - 1 = pos BY <2>8, <1>2, <1>3
    <3>2. o[i] = L.order[pos] BY <1>5, <2>8, <3>1
    <3>3. k[o[i]] = L.ticks[L.order[pos]] - rest BY <2>1, <3>1, <3>2
    <3>4. D[i] = DueAt(L, pos) /\ D[i - 1] = e BY <2>8, <2>5, <3>1, <1>2, <1>3
    <3>5. DueAt(L, pos) = DueAt(L, pos - 1) + L.ticks[L.order[pos]] BY <2>3, <3>1
    <3>6. rest = e - DueAt(L, pos - 1) BY DEF rest
    <3>7. DueAt(L, pos) \in Nat /\ DueAt(L, pos - 1) \in Nat /\ L.ticks[L.order[pos]] \in Nat
      BY <1>2, <2>4, <3>1
    <3>8. QED BY <3>3, <3>4, <3>5, <3>6, <3>7
  <2>9. CASE i > pos + 1
    <3>1. i - 1 \in 1..N /\ i - 1 # pos /\ (i - 1) - 1 = i - 2 BY <2>9, <1>2, <1>3
    <3>2. ~(i < pos) /\ i # pos BY <1>2, <1>3, <2>9
    <3>3. o[i] = L.order[i - 1] BY <1>5, <3>2
    <3>4. pos \in 1..N BY <2>9, <1>2, <1>3
    <3>5. k[o[i]] = L.ticks[L.order[i - 1]] BY <2>1, <2>2, <3>1, <3>3, <3>4
    <3>6. D[i] = DueAt(L, i - 1) /\ D[i - 1] = DueAt(L, i - 2)
      BY <2>9, <2>5, <3>1, <1>2, <1>3
    <3>7. QED BY <2>3, <3>1, <3>5, <3>6
  <2>10. QED BY <2>6, <2>7, <2>8, <2>9, <1>3
<1>12. \A i \in 0..N + 1 : DueAt(R, i) = D[i]
  <2>1. D[0] = 0 BY <1>2, <1>3, DueFacts
  <2>2. Len(R.order) = N + 1 BY <1>5, <1>9
  <2> HIDE DEF D, N, k
  <2>3. \A i \in 1..Len(R.order) : D[i] = D[i - 1] + R.ticks[R.order[i]]
    BY <1>9, <1>11, <2>2
  <2>4. QED BY <1>9, <2>1, <2>2, <2>3, DueUnique
<1>13. \A i \in 1..N + 1 : Due(R, o[i]) = DueAt(R, i)
  <2> HIDE DEF N
  <2>1. QED BY <1>5, <1>9, DueOf
<1>14. Due(R, t) = e
  <2>1. pos \in 0..N + 1 /\ pos \in 1..N + 1 BY <1>2, <1>3
  <2>2. D[pos] = e /\ o[pos] = t BY <2>1, <1>2, <1>3, <1>5
  <2> HIDE DEF D, N
  <2>3. Due(R, o[pos]) = D[pos] BY <2>1, <1>12, <1>13
  <2>4. QED BY <2>2, <2>3
<1>15. ASSUME NEW u \in Listed(L) PROVE Due(R, u) = Due(L, u)
  <2> DEFINE i == Position(L, u)
  <2>1. i \in 1..N /\ L.order[i] = u /\ Due(L, u) = DueAt(L, i) BY ListedAt
  <2> HIDE DEF i, N
  <2>2. CASE i < pos
    <3>1. o[i] = u /\ D[i] = DueAt(L, i) /\ i \in 1..N + 1 BY <1>2, <1>5, <2>1, <2>2
    <3>2. QED BY <1>2, <1>12, <1>13, <2>1, <3>1
  <2>3. CASE i >= pos
    <3>1. i + 1 \in 1..N + 1 /\ ~(i + 1 < pos) /\ i + 1 # pos /\ (i + 1) - 1 = i
      BY <1>2, <1>3, <2>1, <2>3
    <3>2. o[i + 1] = u BY <1>5, <2>1, <3>1
    <3>3. D[i + 1] = DueAt(L, i) BY <3>1, <1>2
    <3>4. i + 1 \in 0..N + 1 BY <3>1
    <3>5. QED BY <1>12, <1>13, <2>1, <3>1, <3>2, <3>3, <3>4
  <2>4. QED BY <1>3, <2>1, <2>2, <2>3
<1>16. QED BY <1>1, <1>9, <1>10, <1>14, <1>15

\* timer_list_remove takes the timer out and leaves the times of the others.
LEMMA RemovedFacts ==
  ASSUME NEW L \in Lists, NEW t \in Timer
  PROVE  /\ Removed(L, t) \in Lists
         /\ Listed(Removed(L, t)) = Listed(L) \ {t}
         /\ \A u \in Listed(Removed(L, t)) : Due(Removed(L, t), u) = Due(L, u)
<1>1. CASE t \notin Listed(L)
  <2>1. Removed(L, t) = L BY <1>1 DEF Removed
  <2>2. QED BY <1>1, <2>1
<1>2. CASE t \in Listed(L)
  <2> DEFINE N == Len(L.order)
             pos == Position(L, t)
             o == RemoveAt(L.order, pos)
             k == [u \in Timer |-> IF u = t THEN 0
                                   ELSE IF pos < N /\ u = L.order[pos + 1]
                                   THEN L.ticks[u] + L.ticks[t] ELSE L.ticks[u]]
             R == [order |-> o, ticks |-> k]
             D == [i \in 0..N - 1 |-> IF i < pos THEN DueAt(L, i) ELSE DueAt(L, i + 1)]
  <2>1. Removed(L, t) = R BY <1>2, Parts DEF Removed
  <2>2. N \in Nat /\ \A i \in 0..N : DueAt(L, i) \in Nat BY Parts, DueFacts
  <2>3. pos \in 1..N /\ L.order[pos] = t BY <1>2, ListedAt
  <2> HIDE DEF pos
  <2>4. /\ \A x \in 1..N : L.order[x] \in Timer /\ L.ticks[L.order[x]] \in Nat
        /\ \A x, y \in 1..N : L.order[x] = L.order[y] => x = y
        /\ \A x \in 1..N : DueAt(L, x) = DueAt(L, x - 1) + L.ticks[L.order[x]]
    BY Parts, DueFacts
  <2>5. /\ o \in Seq(Timer) /\ Len(o) = N - 1
        /\ \A j \in 1..N - 1 : o[j] = IF j < pos THEN L.order[j] ELSE L.order[j + 1]
    <3> DEFINE q == L.order
    <3>1. q \in Seq(Timer) /\ pos \in 1..Len(q) BY <2>3, Parts
    <3> HIDE DEF q
    <3>2. /\ RemoveAt(q, pos) \in Seq(Timer) /\ Len(RemoveAt(q, pos)) = Len(q) - 1
          /\ \A j \in 1..Len(q) - 1 : RemoveAt(q, pos)[j] = IF j < pos THEN q[j] ELSE q[j + 1]
      BY <3>1, RemoveAtFacts
    <3>3. QED BY <3>2 DEF q
  <2>6. k \in [Timer -> Nat]
    <3>1. \A u \in Timer : L.ticks[u] \in Nat BY Parts
    <3> HIDE DEF N
    <3>2. QED BY <3>1
  <2> HIDE DEF o, N
  <2>7. \A x \in 1..N - 1 : /\ x < pos => x \in 1..N /\ o[x] = L.order[x]
                            /\ x >= pos => x + 1 \in 1..N /\ o[x] = L.order[x + 1]
    BY <2>2, <2>3, <2>5
  <2>8. ASSUME NEW i \in 1..N - 1, NEW j \in 1..N - 1, o[i] = o[j] PROVE i = j
    <3>1. CASE i < pos BY <3>1, <2>2, <2>3, <2>4, <2>7, <2>8
    <3>2. CASE i >= pos BY <3>2, <2>2, <2>3, <2>4, <2>7, <2>8
    <3>3. QED BY <2>2, <2>3, <3>1, <3>2
  <2>9. R \in Lists /\ R.order = o /\ R.ticks = k
    <3> HIDE DEF k
    <3>1. \A i, j \in 1..Len(o) : o[i] = o[j] => i = j BY <2>5, <2>8
    <3>2. QED BY <2>5, <2>6, <3>1, Made
  <2> HIDE DEF R
  <2>10. Listed(R) = Listed(L) \ {t}
    <3>1. Len(R.order) = N - 1 BY <2>5, <2>9
    <3>2. \A u : u \in Listed(R) <=> \E i \in 1..N - 1 : o[i] = u BY <3>1, <2>9, Parts
    <3>3. \A u : u \in Listed(L) <=> \E i \in 1..N : L.order[i] = u BY Parts DEF N
    <3>4. ASSUME NEW u \in Listed(R) PROVE u \in Listed(L) /\ u # t
      <4>1. PICK i \in 1..N - 1 : o[i] = u BY <3>2
      <4>2. CASE i < pos BY <4>1, <4>2, <2>2, <2>3, <2>4, <2>7, <3>3
      <4>3. CASE i >= pos BY <4>1, <4>3, <2>2, <2>3, <2>4, <2>7, <3>3
      <4>4. QED BY <2>2, <2>3, <4>2, <4>3
    <3>5. ASSUME NEW u \in Listed(L), u # t PROVE u \in Listed(R)
      <4>1. PICK i \in 1..N : L.order[i] = u BY <3>3
      <4>2. CASE i < pos
        <5>1. i \in 1..N - 1 /\ o[i] = u BY <4>1, <4>2, <2>2, <2>3, <2>5
        <5>2. QED BY <3>2, <5>1
      <4>3. CASE i > pos
        <5>1. i - 1 \in 1..N - 1 /\ ~(i - 1 < pos) /\ (i - 1) + 1 = i BY <4>3, <2>2, <2>3
        <5>2. o[i - 1] = u BY <2>5, <4>1, <5>1
        <5>3. QED BY <3>2, <5>1, <5>2
      <4>4. i # pos BY <3>5, <2>3, <4>1
      <4>5. QED BY <2>2, <2>3, <4>2, <4>3, <4>4
    <3>6. QED BY <3>4, <3>5
  <2>11. ASSUME NEW i \in 1..N - 1 PROVE D[i] = D[i - 1] + k[o[i]]
    <3>1. i - 1 \in 0..N - 1 /\ i \in 0..N - 1 BY <2>2
    <3>2. CASE i < pos
      <4>1. i \in 1..N /\ o[i] = L.order[i] BY <3>2, <2>7
      <4>2. o[i] # t /\ (pos < N => o[i] # L.order[pos + 1])
        BY <4>1, <3>2, <2>2, <2>3, <2>4
      <4>3. k[o[i]] = L.ticks[L.order[i]] BY <4>1, <4>2, <2>4
      <4>4. D[i] = DueAt(L, i) /\ D[i - 1] = DueAt(L, i - 1) BY <3>1, <3>2, <2>2, <2>3
      <4>5. QED BY <2>4, <4>1, <4>3, <4>4
    <3>3. CASE i = pos
      <4>1. pos < N /\ pos + 1 \in 1..N /\ o[i] = L.order[pos + 1] /\ (pos + 1) - 1 = pos
        BY <3>3, <2>2, <2>3, <2>7
      <4>2. o[i] # t BY <4>1, <2>2, <2>3, <2>4
      <4>3. k[o[i]] = L.ticks[L.order[pos + 1]] + L.ticks[t] BY <4>1, <4>2, <2>4
      <4>4. D[i] = DueAt(L, pos + 1) /\ D[i - 1] = DueAt(L, pos - 1)
        BY <3>1, <3>3, <2>2, <2>3
      <4>5. DueAt(L, pos + 1) = DueAt(L, pos) + L.ticks[L.order[pos + 1]] BY <2>4, <4>1
      <4>6. DueAt(L, pos) = DueAt(L, pos - 1) + L.ticks[t] BY <2>3, <2>4
      <4>7. /\ DueAt(L, pos - 1) \in Nat /\ L.ticks[t] \in Nat
            /\ L.ticks[L.order[pos + 1]] \in Nat
        BY <2>2, <2>3, <2>4, <4>1
      <4>8. QED BY <4>3, <4>4, <4>5, <4>6, <4>7
    <3>4. CASE i > pos
      <4>1. i + 1 \in 1..N /\ o[i] = L.order[i + 1] /\ (i + 1) - 1 = i /\ (i - 1) + 1 = i
        BY <3>4, <2>2, <2>3, <2>7
      <4>2. o[i] # t /\ (pos < N => o[i] # L.order[pos + 1])
        BY <4>1, <3>4, <2>2, <2>3, <2>4
      <4>3. k[o[i]] = L.ticks[L.order[i + 1]] BY <4>1, <4>2, <2>4
      <4>4. D[i] = DueAt(L, i + 1) /\ D[i - 1] = DueAt(L, i)
        BY <3>1, <3>4, <4>1, <2>2, <2>3
      <4>5. QED BY <2>4, <4>1, <4>3, <4>4
    <3>5. QED BY <2>2, <2>3, <3>2, <3>3, <3>4
  <2>12. \A i \in 0..N - 1 : DueAt(R, i) = D[i]
    <3>1. D[0] = 0 BY <2>2, <2>3, DueFacts
    <3>2. Len(R.order) = N - 1 BY <2>5, <2>9
    <3> HIDE DEF D, k
    <3>3. \A i \in 1..Len(R.order) : D[i] = D[i - 1] + R.ticks[R.order[i]]
      BY <2>9, <2>11, <3>2
    <3>4. QED BY <2>9, <3>1, <3>2, <3>3, DueUnique
  <2>13. \A i \in 1..N - 1 : Due(R, o[i]) = DueAt(R, i)
    <3>1. Len(R.order) = N - 1 BY <2>5, <2>9
    <3>2. QED BY <2>9, <3>1, DueOf
  <2>14. ASSUME NEW u \in Listed(R) PROVE Due(R, u) = Due(L, u)
    <3>1. Len(R.order) = N - 1 BY <2>5, <2>9
    <3>2. PICK i \in 1..N - 1 : o[i] = u BY <2>9, <3>1, Parts
    <3>3. i \in 0..N - 1 BY <2>2
    <3>4. Due(R, u) = D[i] BY <2>12, <2>13, <3>2, <3>3
    <3>5. CASE i < pos
      <4>1. i \in 1..N /\ u = L.order[i] BY <2>7, <3>2, <3>5
      <4>2. D[i] = DueAt(L, i) BY <3>3, <3>5
      <4>3. QED BY <3>4, <4>1, <4>2, DueOf DEF N
    <3>6. CASE i >= pos
      <4>1. i + 1 \in 1..N /\ u = L.order[i + 1] BY <2>7, <3>2, <3>6
      <4>2. D[i] = DueAt(L, i + 1) BY <3>3, <3>6, <2>2, <2>3
      <4>3. QED BY <3>4, <4>1, <4>2, DueOf DEF N
    <3>7. QED BY <2>2, <2>3, <3>5, <3>6
  <2>15. QED BY <2>1, <2>9, <2>10, <2>14
<1>3. QED BY <1>1, <1>2

LEMMA EmptiedFacts ==
  ASSUME NEW L \in Lists
  PROVE  Emptied(L) \in Lists /\ Listed(Emptied(L)) = {}
<1>1. Emptied(L) = [order |-> <<>>, ticks |-> [u \in Timer |-> 0]] BY Parts DEF Emptied
<1>2. Emptied(L) \in Lists BY <1>1 DEF Lists, IsInjective
<1>3. QED BY <1>1, <1>2 DEF Listed, ToSet

\* The timers that expire within e ticks are those that expired_timers_handler
\* takes off the list; the others are due e ticks sooner.
LEMMA AdvancedFacts ==
  ASSUME NEW L \in Lists, NEW e \in Nat
  PROVE  /\ Advanced(L, e) \in Lists
         /\ ToSet(Expired(L, e)) = {t \in Listed(L) : Due(L, t) <= e}
         /\ Listed(Advanced(L, e)) = Listed(L) \ ToSet(Expired(L, e))
         /\ \A u \in Listed(Advanced(L, e)) : Due(Advanced(L, e), u) = Due(L, u) - e
<1> DEFINE N == Len(L.order)
           n == ExpiredCount(L, e)
           x == SubSeq(L.order, 1, n)
           gone == ToSet(x)
           o == SubSeq(L.order, n + 1, N)
           k == [u \in Timer |-> IF u \in gone THEN 0
                                 ELSE IF n < N /\ u = L.order[n + 1]
                                 THEN L.ticks[u] - (e - DueAt(L, n)) ELSE L.ticks[u]]
           R == [order |-> o, ticks |-> k]
           D == [i \in 0..N - n |-> IF i = 0 THEN 0 ELSE DueAt(L, n + i) - e]
<1>1. Advanced(L, e) = R /\ Expired(L, e) = x BY Parts DEF Advanced, Expired
<1>2. N \in Nat /\ \A i \in 0..N : DueAt(L, i) \in Nat BY Parts, DueFacts
<1>3. n \in 0..N /\ \A i \in 1..N : (DueAt(L, i) <= e) <=> (i <= n) BY ExpiredFront
<1> HIDE DEF n
<1>4. /\ \A y \in 1..N : L.order[y] \in Timer /\ L.ticks[L.order[y]] \in Nat
      /\ \A y, z \in 1..N : L.order[y] = L.order[z] => y = z
      /\ \A y \in 1..N : DueAt(L, y) = DueAt(L, y - 1) + L.ticks[L.order[y]]
  BY Parts, DueFacts
<1>5. Len(x) = n /\ \A j \in 1..n : x[j] = L.order[j]
  <2>1. \A j \in 1..n : L.order[j] \in Timer BY <1>2, <1>3, <1>4
  <2>2. n \in Nat /\ n <= N BY <1>2, <1>3
  <2>3. QED BY <2>1, <2>2, SubSeqProperties
<1>6. x \in Seq(Timer)
  <2>1. \A j \in 1..n : L.order[j] \in Timer BY <1>2, <1>3, <1>4
  <2>2. n \in Nat BY <1>2, <1>3
  <2>3. QED BY <2>1, <2>2, SubSeqProperties
<1>7. /\ o \in Seq(Timer) /\ Len(o) = N - n
      /\ \A j \in 1..N - n : o[j] = L.order[n + j]
  <2>1. \A j \in n + 1..N : L.order[j] \in Timer BY <1>2, <1>3, <1>4
  <2>2. n + 1 \in Int /\ N \in Int /\ n + 1 <= N + 1 BY <1>2, <1>3
  <2>3. /\ o \in Seq(Timer) /\ Len(o) = IF n + 1 <= N THEN N - (n + 1) + 1 ELSE 0
        /\ \A j \in 1..N - (n + 1) + 1 : o[j] = L.order[(n + 1) + j - 1]
    BY <2>1, <2>2, SubSeqProperties
  <2> HIDE DEF o, N
  <2>4. \A j \in 1..N - n : (n + 1) + j - 1 = n + j BY <1>2, <1>3
  <2>5. Len(o) = N - n BY <1>2, <1>3, <2>3
  <2>6. N - (n + 1) + 1 = N - n BY <1>2, <1>3
  <2>7. \A j \in 1..N - n : o[j] = L.order[(n + 1) + j - 1] BY <2>3, <2>6
  <2>8. \A j \in 1..N - n : o[j] = L.order[n + j]
    <3> TAKE j \in 1..N - n
    <3>1. (n + 1) + j - 1 = n + j BY <2>4
    <3>2. o[j] = L.order[(n + 1) + j - 1] BY <2>7
    <3>3. QED BY <3>1, <3>2, Zenon
  <2>9. QED BY <2>3, <2>5, <2>8
<1> HIDE DEF x, o, N
<1>8. \A u : u \in gone <=> \E i \in 1..n : L.order[i] = u
  <2>1. DOMAIN x = 1..n BY <1>5, <1>6
  <2>2. QED BY <1>5, <2>1 DEF ToSet
<1> HIDE DEF gone
<1>9. gone = {t \in Listed(L) : Due(L, t) <= e}
  <2>1. \A u : u \in Listed(L) <=> \E i \in 1..N : L.order[i] = u BY Parts DEF N
  <2>2. \A i \in 1..N : Due(L, L.order[i]) = DueAt(L, i) BY DueOf DEF N
  <2>3. ASSUME NEW u \in gone PROVE u \in Listed(L) /\ Due(L, u) <= e
    <3>1. PICK i \in 1..n : L.order[i] = u BY <1>8
    <3>2. i \in 1..N BY <1>2, <1>3
    <3>3. QED BY <1>2, <1>3, <2>1, <2>2, <3>1, <3>2
  <2>4. ASSUME NEW u \in Listed(L), Due(L, u) <= e PROVE u \in gone
    <3>1. PICK i \in 1..N : L.order[i] = u BY <2>1
    <3>2. i <= n BY <1>3, <2>2, <2>4, <3>1
    <3>3. i \in 1..n BY <1>2, <1>3, <3>2
    <3>4. QED BY <1>8, <3>1, <3>3
  <2>5. QED BY <2>3, <2>4
<1>10. n < N => L.ticks[L.order[n + 1]] - (e - DueAt(L, n)) \in Nat
  <2> SUFFICES ASSUME n < N PROVE L.ticks[L.order[n + 1]] - (e - DueAt(L, n)) \in Nat OBVIOUS
  <2>1. n + 1 \in 1..N /\ ~(n + 1 <= n) /\ (n + 1) - 1 = n BY <1>2, <1>3
  <2>2. DueAt(L, n + 1) = DueAt(L, n) + L.ticks[L.order[n + 1]] BY <1>4, <2>1
  <2>3. ~(DueAt(L, n + 1) <= e) BY <1>3, <2>1
  <2>4. DueAt(L, n) \in Nat /\ L.ticks[L.order[n + 1]] \in Nat BY <1>2, <1>3, <1>4, <2>1
  <2>5. QED BY <2>2, <2>3, <2>4
<1>11. k \in [Timer -> Nat]
  <2>1. \A u \in Timer : L.ticks[u] \in Nat BY Parts
  <2>2. QED BY <1>10, <2>1
<1>12. \A y \in 1..N - n : n + y \in 1..N /\ o[y] = L.order[n + y] /\ ~(n + y <= n)
  BY <1>2, <1>3, <1>7
<1>13. R \in Lists /\ R.order = o /\ R.ticks = k
  <2>1. ASSUME NEW i \in 1..N - n, NEW j \in 1..N - n, o[i] = o[j] PROVE i = j
    <3>1. n + i = n + j BY <1>4, <1>12, <2>1
    <3>2. QED BY <1>2, <1>3, <3>1
  <2> HIDE DEF k
  <2>2. \A i, j \in 1..Len(o) : o[i] = o[j] => i = j BY <1>7, <2>1
  <2>3. QED BY <1>7, <1>11, <2>2, Made
<1> HIDE DEF R
<1>14. \A y \in 1..N - n : o[y] \notin gone
  <2> SUFFICES ASSUME NEW y \in 1..N - n, o[y] \in gone PROVE FALSE OBVIOUS
  <2>1. PICK i \in 1..n : L.order[i] = o[y] BY <1>8
  <2>2. i \in 1..N BY <1>2, <1>3
  <2>3. i = n + y BY <1>4, <1>12, <2>1, <2>2
  <2>4. QED BY <1>12, <2>3
<1>15. Listed(R) = Listed(L) \ gone
  <2>1. \A u : u \in Listed(L) <=> \E i \in 1..N : L.order[i] = u BY Parts DEF N
  <2>2. Len(R.order) = N - n BY <1>7, <1>13
  <2>3. \A u : u \in Listed(R) <=> \E i \in 1..N - n : o[i] = u BY <2>2, <1>13, Parts
  <2>4. ASSUME NEW u \in Listed(R) PROVE u \in Listed(L) /\ u \notin gone
    <3>1. PICK i \in 1..N - n : o[i] = u BY <2>3
    <3>2. QED BY <1>12, <1>14, <2>1, <3>1
  <2>5. ASSUME NEW u \in Listed(L), u \notin gone PROVE u \in Listed(R)
    <3>1. PICK i \in 1..N : L.order[i] = u BY <2>1
    <3>2. i \notin 1..n BY <1>8, <2>5, <3>1
    <3>3. i - n \in 1..N - n /\ n + (i - n) = i BY <1>2, <1>3, <3>2
    <3>4. o[i - n] = u BY <1>12, <3>1, <3>3
    <3>5. QED BY <2>3, <3>3, <3>4
  <2>6. QED BY <2>4, <2>5
<1>16. ASSUME NEW i \in 1..N - n PROVE D[i] = D[i - 1] + k[o[i]]
  <2>1. /\ i - 1 \in 0..N - n /\ i \in 0..N - n /\ i # 0 /\ n + i \in 1..N /\ n + (i - 1) \in 0..N
        /\ n \in 0..N /\ (n + i) - 1 = n + (i - 1)
    BY <1>2, <1>3
  <2>2. o[i] = L.order[n + i] /\ o[i] \in Timer /\ o[i] \notin gone BY <1>4, <1>12, <1>14
  <2>3. DueAt(L, n + i) = DueAt(L, n + (i - 1)) + L.ticks[o[i]] BY <1>4, <2>1, <2>2
  <2>4. D[i] = DueAt(L, n + i) - e BY <2>1
  <2>5. /\ DueAt(L, n + i) \in Nat /\ DueAt(L, n + (i - 1)) \in Nat /\ DueAt(L, n) \in Nat
        /\ L.ticks[o[i]] \in Nat
    BY <1>2, <1>4, <2>1, <2>2
  <2>6. CASE i = 1
    <3>1. n < N /\ n + i = n + 1 /\ n + (i - 1) = n BY <1>2, <1>3, <2>1, <2>6
    <3>2. k[o[i]] = L.ticks[o[i]] - (e - DueAt(L, n)) BY <2>2, <3>1
    <3>3. D[i - 1] = 0 BY <2>1, <2>6
    <3> HIDE DEF D, k
    <3>4. QED BY <2>3, <2>4, <2>5, <3>1, <3>2, <3>3
  <2>7. CASE i # 1
    <3>1. i - 1 # 0 /\ n + i # n + 1 /\ (n < N => n + 1 \in 1..N) BY <1>2, <1>3, <2>7
    <3>2. n < N => o[i] # L.order[n + 1] BY <1>4, <2>1, <2>2, <3>1
    <3>3. k[o[i]] = L.ticks[o[i]] BY <2>2, <3>2
    <3>4. D[i - 1] = DueAt(L, n + (i - 1)) - e BY <2>1, <3>1
    <3> HIDE DEF D, k
    <3>5. QED BY <2>3, <2>4, <2>5, <3>3, <3>4
  <2>8. QED BY <2>6, <2>7
<1>17. \A i \in 0..N - n : DueAt(R, i) = D[i]
  <2>1. D[0] = 0 BY <1>2, <1>3
  <2>2. Len(R.order) = N - n BY <1>7, <1>13
  <2> HIDE DEF D, k
  <2>3. \A i \in 1..Len(R.order) : D[i] = D[i - 1] + R.ticks[R.order[i]]
    BY <1>13, <1>16, <2>2
  <2>4. R \in Lists BY <1>13
  <2> HIDE DEF R
  <2>5. \A i \in 0..Len(R.order) : DueAt(R, i) = D[i] BY <2>1, <2>3, <2>4, DueUnique
  <2>6. QED BY <2>2, <2>5
<1>18. ASSUME NEW u \in Listed(R) PROVE Due(R, u) = Due(L, u) - e
  <2>1. Len(R.order) = N - n BY <1>7, <1>13
  <2>2. PICK i \in 1..N - n : o[i] = u BY <1>13, <2>1, Parts
  <2>3. i \in 0..N - n /\ i # 0 BY <1>2, <1>3
  <2>4. Due(R, u) = DueAt(R, i) BY <1>13, <2>1, <2>2, DueOf
  <2>5. D[i] = DueAt(L, n + i) - e BY <2>3
  <2>6. Due(L, u) = DueAt(L, n + i) BY <1>12, <2>2, DueOf DEF N
  <2>7. QED BY <1>17, <2>3, <2>4, <2>5, <2>6
<1>19. QED BY <1>1, <1>9, <1>13, <1>15, <1>18 DEF gone

LowPc  == {"idle", "rtc", "insert", "compare"}
CallPc == {"idle", "enque", "pend"}

\* The operations that a queue may hold.
Ops == {op \in [type : {"none", "start", "stop", "stop_all"}, timer : Timer \cup {None},
                at : Tick, timeout : Timeout \cup {0}] :
          /\ op.type \in {"start", "stop"} => op.timer \in Timer
          /\ op.type = "start" => op.timeout \in Timeout}

\* A list with some of the timers of L, due when they are in L.
Within(L) == {M \in Lists : /\ Listed(M) \subseteq Listed(L)
                            /\ \A u \in Listed(M) : Due(M, u) = Due(L, u)}

\* Such a list with the flags that belong to it.
Nodes(L) == {d \in [list : Lists, running : [Timer -> BOOLEAN]] :
               d.list \in Within(L) /\ Listed(d.list) = {t \in Timer : d.running[t]}}

LEMMA NodesMade ==
  ASSUME NEW L \in Lists, NEW M \in Within(L), NEW r \in [Timer -> BOOLEAN],
         Listed(M) = {t \in Timer : r[t]}
  PROVE  [list |-> M, running |-> r] \in Nodes(L)
BY DEF Within, Nodes

\* One operation takes a timer off the list exactly when it clears its flag.
LEMMA DeletionWithin ==
  ASSUME NEW L \in Lists, NEW d \in Nodes(L), NEW op \in Ops
  PROVE  Deletion(d, op) \in Nodes(L)
<1>1. /\ d.list \in Within(L) /\ d.list \in Lists /\ d.running \in [Timer -> BOOLEAN]
      /\ Listed(d.list) = {t \in Timer : d.running[t]}
  BY DEF Nodes
<1>2. CASE op.type = "stop" /\ d.running[op.timer]
  <2> DEFINE M == Removed(d.list, op.timer)
             r == [d.running EXCEPT ![op.timer] = FALSE]
  <2>1. op.timer \in Timer BY <1>2 DEF Ops
  <2>2. M \in Within(L) /\ Listed(M) = Listed(d.list) \ {op.timer}
    BY <1>1, <2>1, RemovedFacts DEF Within
  <2>3. r \in [Timer -> BOOLEAN] /\ Listed(M) = {t \in Timer : r[t]} BY <1>1, <2>1, <2>2
  <2>4. Deletion(d, op) = [list |-> M, running |-> r] BY <1>2 DEF Deletion
  <2> HIDE DEF M, r
  <2>5. QED BY <2>2, <2>3, <2>4, NodesMade
<1>3. CASE op.type = "stop_all"
  <2> DEFINE M == Emptied(d.list)
             r == [t \in Timer |-> d.running[t] /\ t \notin Listed(d.list)]
  <2>1. M \in Within(L) /\ Listed(M) = {} BY <1>1, EmptiedFacts DEF Within
  <2>2. r \in [Timer -> BOOLEAN] /\ {t \in Timer : r[t]} = {} BY <1>1
  <2>3. Deletion(d, op) = [list |-> M, running |-> r] BY <1>3 DEF Deletion
  <2> HIDE DEF M, r
  <2>4. QED BY <2>1, <2>2, <2>3, NodesMade
<1>4. CASE ~(op.type = "stop" /\ d.running[op.timer]) /\ op.type # "stop_all"
  BY <1>4 DEF Deletion
<1>5. QED BY <1>2, <1>3, <1>4

\* list_deletions_handler leaves the times of the timers it leaves in the list, and
\* clears the flags of those it takes off.
LEMMA DeletedWithin ==
  ASSUME NEW L \in Lists, NEW start \in Nodes(L), NEW batch \in Seq(Ops)
  PROVE  Deleted(start, batch) \in Nodes(L)
<1> DEFINE N == Len(batch)
           S == Nodes(L)
           Step(n, d) == Deletion(d, batch[n])
           F == [n \in 1..N |-> [d \in S |-> Step(n, d)]]
           Fits(f) == f = [n \in 0..N |->
                             IF n = 0 THEN start ELSE Deletion(f[n - 1], batch[n])]
           after == CHOOSE f : Fits(f)
<1>1. N \in Nat /\ \A n \in 1..N : batch[n] \in Ops OBVIOUS
<1>2. start \in S OBVIOUS
<1>3. \A n \in 1..N : \A d \in S : Step(n, d) \in S BY <1>1, DeletionWithin
<1>4. \A f : Fits(f) <=> f = [n \in 0..N |-> IF n = 0 THEN start ELSE Step(n, f[n - 1])] OBVIOUS
<1> HIDE DEF Fits, S, Step
<1>5. PICK f \in [0..N -> S] : Iterates(f, N, start, F)
  <2>1. F \in [1..N -> [S -> S]] BY <1>3
  <2> HIDE DEF F, N
  <2>2. QED BY <1>1, <1>2, <2>1, Recursion
<1>6. f[0] = start /\ \A n \in 1..N : f[n] = Step(n, f[n - 1])
  <2>1. \A n \in 1..N : f[n - 1] \in S BY <1>1
  <2>2. \A n \in 1..N : F[n][f[n - 1]] = Step(n, f[n - 1]) BY <2>1
  <2>3. QED BY <1>5, <2>2 DEF Iterates
<1>7. Fits(f)
  <2>1. \A n \in 0..N : n = 0 \/ n \in 1..N BY <1>1
  <2>2. \A n \in 0..N : f[n] = IF n = 0 THEN start ELSE Step(n, f[n - 1]) BY <1>6, <2>1
  <2>3. f = [n \in 0..N |-> IF n = 0 THEN start ELSE Step(n, f[n - 1])] BY <2>2
  <2>4. QED BY <1>4, <2>3
<1>8. Fits(after) BY <1>7
<1>9. Deleted(start, batch) = after[N] BY DEF Deleted, Fits
<1> HIDE DEF after
<1>10. after[0] = start /\ \A n \in 1..N : after[n] = Step(n, after[n - 1])
  <2>1. after = [n \in 0..N |-> IF n = 0 THEN start ELSE Step(n, after[n - 1])] BY <1>4, <1>8
  <2>2. \A n \in 0..N : after[n] = IF n = 0 THEN start ELSE Step(n, after[n - 1]) BY <2>1
  <2>3. 0 \in 0..N /\ \A n \in 1..N : n \in 0..N /\ n # 0 BY <1>1
  <2>4. QED BY <2>2, <2>3
<1> DEFINE Bad == {n \in 0..N : after[n] \notin S}
<1>11. Bad = {}
  <2>1. SUFFICES ASSUME Bad # {} PROVE FALSE OBVIOUS
  <2>2. Bad \subseteq Nat BY <1>1
  <2> HIDE DEF Bad
  <2>3. PICK n \in Bad : \A m \in Bad : n <= m BY <2>1, <2>2, Minimum
  <2>4. n \in 0..N /\ n # 0 BY <1>2, <1>10 DEF Bad
  <2>5. n \in 1..N /\ n - 1 \in 0..N /\ n - 1 \notin Bad BY <1>1, <2>3, <2>4
  <2>6. after[n - 1] \in S BY <2>5 DEF Bad
  <2>7. QED BY <1>3, <1>10, <2>5, <2>6 DEF Bad
<1>12. N \in 0..N BY <1>1
<1>13. QED BY <1>9, <1>11, <1>12 DEF S

\* The restart list holds the repeating timers among the expired ones.
LEMMA RestartFacts ==
  ASSUME NEW gone \in Seq(Timer), IsInjective(gone)
  PROVE  /\ RestartList(gone) \in Seq(Timer) /\ IsInjective(RestartList(gone))
         /\ ToSet(RestartList(gone)) = ToSet(gone) \cap Periodic
<1> DEFINE N == Len(gone)
           Step(n, s) == IF gone[n] \in Periodic THEN <<gone[n]>> \o s ELSE s
           Fits(f) == f = [n \in 0..N |->
                             IF n = 0 THEN <<>>
                             ELSE IF gone[n] \in Periodic THEN <<gone[n]>> \o f[n - 1]
                             ELSE f[n - 1]]
           pushed == CHOOSE f : Fits(f)
           So(n) == {gone[i] : i \in 1..n} \cap Periodic
           Good(n, s) == s \in Seq(Timer) /\ IsInjective(s) /\ ToSet(s) = So(n)
           S == Seq(Timer)
           F == [n \in 1..N |-> [s \in S |-> Step(n, s)]]
<1>1. N \in Nat /\ DOMAIN gone = 1..N /\ \A n \in 1..N : gone[n] \in Timer OBVIOUS
<1>2. \A i, j \in 1..N : gone[i] = gone[j] => i = j BY <1>1 DEF IsInjective
<1>3. ASSUME NEW t \in Timer, NEW s \in Seq(Timer)
      PROVE  /\ <<t>> \o s \in Seq(Timer) /\ ToSet(<<t>> \o s) = {t} \cup ToSet(s)
             /\ IsInjective(s) /\ t \notin ToSet(s) => IsInjective(<<t>> \o s)
  <2> DEFINE u == <<t>>
             c == u \o s
  <2>1. u \in Seq(Timer) /\ Len(u) = 1 /\ u[1] = t OBVIOUS
  <2> HIDE DEF u
  <2>2. /\ c \in Seq(Timer) /\ Len(c) = Len(u) + Len(s)
        /\ \A i \in 1..Len(u) + Len(s) : c[i] = IF i <= Len(u) THEN u[i] ELSE s[i - Len(u)]
    BY <2>1, ConcatProperties
  <2> HIDE DEF c
  <2> DEFINE K == Len(s)
  <2>3. K \in Nat /\ DOMAIN s = 1..K /\ DOMAIN c = 1..K + 1 BY <2>1, <2>2
  <2>4. c[1] = t /\ \A i \in 1..K : c[i + 1] = s[i]
    <3>1. \A i \in 1..K : i + 1 \in 1..1 + K /\ ~(i + 1 <= 1) /\ (i + 1) - 1 = i /\ 1 \in 1..1 + K
      BY <2>3
    <3>2. 1 \in 1..1 + K BY <2>3
    <3>3. QED BY <2>1, <2>2, <3>1, <3>2
  <2>5. \A j \in 1..K + 1 : j = 1 \/ (j - 1 \in 1..K /\ c[j] = s[j - 1])
    <3> SUFFICES ASSUME NEW j \in 1..K + 1, j # 1 PROVE j - 1 \in 1..K /\ c[j] = s[j - 1]
      OBVIOUS
    <3>1. j - 1 \in 1..K /\ (j - 1) + 1 = j BY <2>3
    <3>2. QED BY <2>4, <3>1
  <2>6. ToSet(c) = {t} \cup ToSet(s)
    <3>1. \A x : x \in ToSet(c) <=> \E i \in 1..K + 1 : c[i] = x BY <2>3 DEF ToSet
    <3>2. \A x : x \in ToSet(s) <=> \E i \in 1..K : s[i] = x BY <2>3 DEF ToSet
    <3>3. \A i \in 1..K : i + 1 \in 1..K + 1 BY <2>3
    <3>4. 1 \in 1..K + 1 BY <2>3
    <3> HIDE DEF K
    <3>5. \A x \in ToSet(c) : x \in {t} \cup ToSet(s) BY <2>4, <2>5, <3>1, <3>2
    <3>6. t \in ToSet(c) BY <2>4, <3>1, <3>4
    <3>7. \A x \in ToSet(s) : x \in ToSet(c) BY <2>4, <3>1, <3>2, <3>3
    <3>8. QED BY <3>5, <3>6, <3>7
  <2>7. ASSUME IsInjective(s), t \notin ToSet(s) PROVE IsInjective(c)
    <3>1. \A i \in 1..K : s[i] # t BY <2>3, <2>7 DEF ToSet
    <3>2. \A i, j \in 1..K : s[i] = s[j] => i = j BY <2>3, <2>7 DEF IsInjective
    <3>3. ASSUME NEW i \in 1..K + 1, NEW j \in 1..K + 1, c[i] = c[j] PROVE i = j
      <4>1. CASE i = 1 BY <4>1, <2>4, <2>5, <3>1, <3>3
      <4>2. CASE j = 1 BY <4>2, <2>4, <2>5, <3>1, <3>3
      <4>3. CASE i # 1 /\ j # 1
        <5>1. i - 1 \in 1..K /\ j - 1 \in 1..K /\ s[i - 1] = s[j - 1] BY <4>3, <2>5, <3>3
        <5>2. i - 1 = j - 1 BY <3>2, <5>1
        <5>3. QED BY <2>3, <5>2
      <4>4. QED BY <4>1, <4>2, <4>3
    <3>4. QED BY <2>3, <3>3 DEF IsInjective
  <2>8. QED BY <2>2, <2>6, <2>7 DEF c, u
<1>4. \A n \in 1..N : \A s \in Seq(Timer) : Good(n - 1, s) => Good(n, Step(n, s))
  <2> SUFFICES ASSUME NEW n \in 1..N, NEW s \in Seq(Timer), Good(n - 1, s)
               PROVE  Good(n, Step(n, s))
    OBVIOUS
  <2>1. \A i : i \in 1..n <=> (i \in 1..n - 1 \/ i = n) BY <1>1
  <2>2. {gone[i] : i \in 1..n} = {gone[i] : i \in 1..n - 1} \cup {gone[n]}
    <3>1. \A x : (\E i \in 1..n : x = gone[i]) <=> (\E i \in 1..n - 1 : x = gone[i]) \/ x = gone[n]
      BY <2>1
    <3>2. QED BY <3>1
  <2>3. CASE gone[n] \in Periodic
    <3>1. gone[n] \notin {gone[i] : i \in 1..n - 1}
      <4> SUFFICES ASSUME NEW i \in 1..n - 1, gone[n] = gone[i] PROVE FALSE OBVIOUS
      <4>1. i \in 1..N BY <1>1
      <4>2. i = n BY <1>2, <4>1
      <4>3. QED BY <1>1, <4>2
    <3>2. gone[n] \notin ToSet(s) BY <3>1
    <3>3. So(n) = {gone[n]} \cup So(n - 1) BY <2>2, <2>3
    <3>4. gone[n] \in Timer BY <1>1
    <3> HIDE DEF So
    <3> DEFINE c == <<gone[n]>> \o s
    <3>5. c \in Seq(Timer) /\ IsInjective(c) /\ ToSet(c) = {gone[n]} \cup ToSet(s)
      BY <1>3, <3>2, <3>4
    <3>6. Step(n, s) = c BY <2>3
    <3> HIDE DEF c, Step
    <3>7. QED BY <3>3, <3>5, <3>6
  <2>4. CASE gone[n] \notin Periodic
    <3>1. So(n) = So(n - 1) BY <2>2, <2>4
    <3>2. Step(n, s) = s BY <2>4
    <3> HIDE DEF So, Step
    <3>3. QED BY <3>1, <3>2
  <2>5. QED BY <2>3, <2>4
<1>5. Good(0, <<>>) BY DEF IsInjective, ToSet
<1>6. \A n \in 1..N : \A s \in S : Step(n, s) \in S BY <1>1, <1>3
<1>7. \A f : Fits(f) <=> f = [n \in 0..N |-> IF n = 0 THEN <<>> ELSE Step(n, f[n - 1])] OBVIOUS
<1> HIDE DEF Fits, S, Step, So
<1>8. PICK f \in [0..N -> S] : Iterates(f, N, <<>>, F)
  <2>1. F \in [1..N -> [S -> S]] BY <1>6
  <2>2. <<>> \in S BY DEF S
  <2> HIDE DEF F, N
  <2>3. QED BY <1>1, <2>1, <2>2, Recursion
<1>9. f[0] = <<>> /\ \A n \in 1..N : f[n] = Step(n, f[n - 1])
  <2>1. \A n \in 1..N : f[n - 1] \in S BY <1>1
  <2>2. \A n \in 1..N : F[n][f[n - 1]] = Step(n, f[n - 1]) BY <2>1
  <2>3. QED BY <1>8, <2>2 DEF Iterates
<1>10. Fits(f)
  <2>1. \A n \in 0..N : n = 0 \/ n \in 1..N BY <1>1
  <2>2. \A n \in 0..N : f[n] = IF n = 0 THEN <<>> ELSE Step(n, f[n - 1]) BY <1>9, <2>1
  <2>3. f = [n \in 0..N |-> IF n = 0 THEN <<>> ELSE Step(n, f[n - 1])] BY <2>2
  <2>4. QED BY <1>7, <2>3
<1>11. Fits(pushed) BY <1>10
<1>12. RestartList(gone) = pushed[N] BY DEF RestartList, Fits
<1> HIDE DEF pushed
<1>13. pushed[0] = <<>> /\ \A n \in 1..N : pushed[n] = Step(n, pushed[n - 1])
  <2>1. pushed = [n \in 0..N |-> IF n = 0 THEN <<>> ELSE Step(n, pushed[n - 1])] BY <1>7, <1>11
  <2>2. \A n \in 0..N : pushed[n] = IF n = 0 THEN <<>> ELSE Step(n, pushed[n - 1]) BY <2>1
  <2>3. 0 \in 0..N /\ \A n \in 1..N : n \in 0..N /\ n # 0 BY <1>1
  <2>4. QED BY <2>2, <2>3
<1> DEFINE Bad == {n \in 0..N : ~Good(n, pushed[n])}
<1>14. Bad = {}
  <2>1. SUFFICES ASSUME Bad # {} PROVE FALSE OBVIOUS
  <2>2. Bad \subseteq Nat BY <1>1
  <2> HIDE DEF Bad
  <2>3. PICK n \in Bad : \A m \in Bad : n <= m BY <2>1, <2>2, Minimum
  <2>4. n \in 0..N /\ ~Good(n, pushed[n]) BY DEF Bad
  <2>5. n # 0 BY <1>5, <1>13, <2>4
  <2>6. n \in 1..N /\ n - 1 \in 0..N /\ n - 1 \notin Bad BY <1>1, <2>3, <2>4, <2>5
  <2>7. Good(n - 1, pushed[n - 1]) BY <2>6 DEF Bad
  <2>8. QED BY <1>4, <1>13, <2>4, <2>6, <2>7
<1>15. Good(N, pushed[N])
  <2>1. N \in 0..N BY <1>1
  <2> HIDE DEF Good
  <2>2. QED BY <1>14, <2>1
<1>16. So(N) = ToSet(gone) \cap Periodic BY <1>1 DEF So, ToSet
<1>17. QED BY <1>12, <1>15, <1>16

-----------------------------------------------------------------------------
(* The counter.                                                            *)

LEMMA ModRange ==
  ASSUME NEW M \in Nat \ {0}, NEW a \in Int
  PROVE  a % M \in 0..M - 1
OBVIOUS

LEMMA ModIs ==
  ASSUME NEW M \in Nat \ {0}, NEW k \in Int, NEW r \in 0..M - 1
  PROVE  (k * M + r) % M = r
OBVIOUS

LEMMA ModParts ==
  ASSUME NEW M \in Nat \ {0}, NEW a \in Int
  PROVE  \E k \in Int : a = k * M + (a % M)
<1> DEFINE k == a \div M
<1>1. k \in Int OBVIOUS
<1>2. a = k * M + (a % M) OBVIOUS
<1>3. QED BY <1>1, <1>2

LEMMA ModSame ==
  ASSUME NEW M \in Nat \ {0}, NEW a \in Int, NEW k \in Int
  PROVE  (a + k * M) % M = a % M
<1>1. PICK j \in Int : a = j * M + (a % M) BY ModParts
<1>2. a % M \in 0..M - 1 BY ModRange
<1>3. (j + k) * M = j * M + k * M OBVIOUS
<1>4. a + k * M = (j + k) * M + (a % M) BY <1>1, <1>2, <1>3
<1>5. j + k \in Int OBVIOUS
<1>6. QED BY <1>2, <1>4, <1>5, ModIs

LEMMA ModAdd ==
  ASSUME NEW M \in Nat \ {0}, NEW a \in Int, NEW b \in Int
  PROVE  ((a % M) + b) % M = (a + b) % M
<1> DEFINE r == a % M
<1>1. PICK k \in Int : a = k * M + r BY ModParts
<1>2. r \in Int BY ModRange
<1> HIDE DEF r
<1> DEFINE m == k * M
<1>3. m \in Int BY <1>1
<1> HIDE DEF m
<1>4. a = m + r BY <1>1 DEF m
<1>5. a + b = (r + b) + m BY <1>2, <1>3, <1>4
<1>6. a + b = (r + b) + k * M BY <1>5 DEF m
<1>7. r + b \in Int BY <1>2
<1>8. ((r + b) + k * M) % M = (r + b) % M BY <1>7, ModSame
<1>9. QED BY <1>6, <1>8 DEF r

LEMMA ModSub ==
  ASSUME NEW M \in Nat \ {0}, NEW a \in Int, NEW b \in Int
  PROVE  (b - (a % M)) % M = (b - a) % M
<1> DEFINE r == a % M
<1>1. PICK k \in Int : a = k * M + r BY ModParts
<1>2. r \in Int BY ModRange
<1> HIDE DEF r
<1> DEFINE m == k * M
<1>3. m \in Int BY <1>1
<1> HIDE DEF m
<1>4. a = m + r BY <1>1 DEF m
<1>5. b - r = (b - a) + m BY <1>2, <1>3, <1>4
<1>6. b - r = (b - a) + k * M BY <1>5 DEF m
<1>7. b - a \in Int OBVIOUS
<1>8. ((b - a) + k * M) % M = (b - a) % M BY <1>7, ModSame
<1>9. QED BY <1>6, <1>8 DEF r

LEMMA ModSmall ==
  ASSUME NEW M \in Nat \ {0}, NEW a \in 0..M - 1
  PROVE  a % M = a
OBVIOUS

LEMMA ModTurn ==
  ASSUME NEW M \in Nat \ {0}, NEW a \in Int, a % M # 0
  PROVE  (-a) % M = M - (a % M)
<1>1. PICK k \in Int : a = k * M + (a % M) BY ModParts
<1>2. a % M \in 1..M - 1 BY ModRange
<1> DEFINE r == a % M
<1> HIDE DEF r
<1>3. -a = (-k - 1) * M + (M - r) BY <1>1, <1>2 DEF r
<1>4. M - r \in 0..M - 1 BY <1>2 DEF r
<1>5. -k - 1 \in Int OBVIOUS
<1>6. ((-k - 1) * M + (M - r)) % M = M - r BY <1>4, <1>5, ModIs
<1>7. QED BY <1>3, <1>6 DEF r

USE TimerAssumption, CounterAssumption, TimeoutAssumption

\* Differences of counter values, as ticks_diff_get takes them.
LEMMA DiffIn == \A a, b \in Int : Diff(a, b) \in Tick /\ Diff(a, b) \in Nat
<1> SUFFICES ASSUME NEW a \in Int, NEW b \in Int PROVE Diff(a, b) \in 0..CounterMod - 1
  BY DEF Tick
<1> DEFINE c == a - b
<1>1. c \in Int OBVIOUS
<1> HIDE DEF c
<1>2. c % CounterMod \in 0..CounterMod - 1 BY <1>1, ModRange
<1>3. QED BY <1>2 DEF Diff, c

LEMMA DiffPlus ==
  ASSUME NEW a \in Int, NEW b \in Int, NEW k \in Int
  PROVE  /\ Diff(a + k, b) = (Diff(a, b) + k) % CounterMod
         /\ Diff(a, b) + k \in Tick => Diff(a + k, b) = Diff(a, b) + k
<1> DEFINE c == a - b
<1>1. c \in Int /\ (a + k) - b = c + k OBVIOUS
<1>2. ((c % CounterMod) + k) % CounterMod = (c + k) % CounterMod
  <2> HIDE DEF c
  <2>1. QED BY <1>1, ModAdd
<1>3. Diff(a + k, b) = (Diff(a, b) + k) % CounterMod BY <1>1, <1>2 DEF Diff
<1>4. ASSUME Diff(a, b) + k \in Tick PROVE Diff(a + k, b) = Diff(a, b) + k
  <2> DEFINE r == Diff(a, b) + k
  <2>1. r \in 0..CounterMod - 1 BY <1>4 DEF Tick
  <2> HIDE DEF r
  <2>2. r % CounterMod = r BY <2>1, ModSmall
  <2>3. QED BY <1>3, <2>2 DEF r
<1>5. QED BY <1>3, <1>4

LEMMA DiffSame ==
  ASSUME NEW a \in Int
  PROVE  Diff(a, a) = 0 /\ \A k \in Tick : Diff(a + k, a) = k
<1>1. Diff(a, a) = 0
  <2>1. a - a = 0 OBVIOUS
  <2>2. 0 % CounterMod = 0 BY ModSmall
  <2>3. QED BY <2>1, <2>2 DEF Diff
<1>2. ASSUME NEW k \in Tick PROVE Diff(a + k, a) = k
  <2>1. k \in Int /\ Diff(a, a) + k = k BY <1>1 DEF Tick
  <2>2. QED BY <2>1, DiffPlus
<1>3. QED BY <1>1, <1>2

\* Differences of values kept modulo CounterMod are those of the values themselves.
LEMMA DiffMod ==
  ASSUME NEW a \in Int, NEW b \in Int
  PROVE  /\ \A k \in Int : Diff((a % CounterMod) + k, b) = Diff(a + k, b)
         /\ Diff(a % CounterMod, b) = Diff(a, b)
         /\ Diff(a, b % CounterMod) = Diff(a, b)
<1>1. ASSUME NEW k \in Int PROVE Diff((a % CounterMod) + k, b) = Diff(a + k, b)
  <2> DEFINE c == k - b
             r == a % CounterMod
  <2>1. c \in Int /\ (a + k) - b = a + c OBVIOUS
  <2>2. r \in Int BY ModRange
  <2> HIDE DEF r
  <2>3. (r + k) - b = r + c BY <2>2
  <2>4. (r + c) % CounterMod = (a + c) % CounterMod
    <3> HIDE DEF c
    <3>1. QED BY <2>1, ModAdd DEF r
  <2>5. QED BY <2>1, <2>3, <2>4 DEF Diff, r
<1>2. Diff(a % CounterMod, b) = Diff(a, b)
  <2> DEFINE r == a % CounterMod
  <2>1. r \in Int BY ModRange
  <2>2. Diff(r + 0, b) = Diff(a + 0, b) BY <1>1
  <2> HIDE DEF r
  <2>3. r + 0 = r /\ a + 0 = a BY <2>1
  <2>4. QED BY <2>2, <2>3 DEF r
<1>3. Diff(a, b % CounterMod) = Diff(a, b) BY ModSub DEF Diff
<1>4. QED BY <1>1, <1>2, <1>3

\* a is Diff(a, l) ticks after l.
LEMMA DiffBack ==
  ASSUME NEW a \in Int, NEW b \in Int, NEW l \in Int, NEW k \in Int
  PROVE  Diff(l + Diff(a, l) + k, b) = Diff(a + k, b)
<1> DEFINE c == a - l
           d == l + k - b
           r == c % CounterMod
<1>1. c \in Int /\ d \in Int /\ (a + k) - b = c + d OBVIOUS
<1> HIDE DEF c
<1>2. r \in Int BY <1>1, ModRange
<1> HIDE DEF r
<1>3. (l + r + k) - b = r + d BY <1>2
<1> HIDE DEF d
<1>4. (r + d) % CounterMod = (c + d) % CounterMod BY <1>1, ModAdd DEF r
<1>5. Diff(a, l) = r BY DEF Diff, r, c
<1>6. QED BY <1>1, <1>3, <1>4, <1>5 DEF Diff

LEMMA DiffVia ==
  ASSUME NEW a \in Int, NEW b \in Int, NEW l \in Int, Diff(a, l) >= Diff(b, l)
  PROVE  Diff(a, b) = Diff(a, l) - Diff(b, l)
<1> DEFINE x == Diff(a, l)
           y == Diff(b, l)
<1>1. x \in Tick /\ y \in Tick /\ x \in Int /\ y \in Int BY DiffIn
<1> HIDE DEF x, y
<1>2. x - y \in Tick BY <1>1 DEF Tick, x, y
<1>3. Diff(l + y + (x - y), b) = Diff(b + (x - y), b)
  <2> DEFINE d == x - y
  <2>1. d \in Int BY <1>1
  <2> HIDE DEF d
  <2>2. Diff(l + y + d, b) = Diff(b + d, b) BY <2>1, DiffBack DEF y
  <2>3. QED BY <2>2 DEF d
<1>4. l + y + (x - y) = l + x + 0 BY <1>1
<1>5. Diff(l + x + 0, b) = Diff(a + 0, b)
  <2>1. 0 \in Int OBVIOUS
  <2>2. QED BY <2>1, DiffBack DEF x
<1>6. a + 0 = a OBVIOUS
<1>7. Diff(b + (x - y), b) = x - y BY <1>2, DiffSame
<1>8. QED BY <1>3, <1>4, <1>5, <1>6, <1>7 DEF x, y

\* The same distance the other way round.
LEMMA DiffTurn ==
  ASSUME NEW a \in Int, NEW b \in Int, Diff(a, b) # 0
  PROVE  Diff(b, a) = CounterMod - Diff(a, b)
<1> DEFINE c == a - b
<1>1. c \in Int /\ b - a = -c OBVIOUS
<1>2. c % CounterMod # 0 BY DEF Diff
<1> HIDE DEF c
<1>3. (-c) % CounterMod = CounterMod - (c % CounterMod) BY <1>1, <1>2, ModTurn
<1>4. QED BY <1>1, <1>3 DEF Diff, c

Half == (CounterMod - 1) \div 2

LEMMA HalfFacts == Half \in Nat /\ 2 * Half <= CounterMod - 1
BY DEF Half

\* An interval that began at counter value at and is timeout ticks long ends when
\* TicksToExpire says, or is over.
LEMMA TicksFacts ==
  ASSUME latest \in Tick, NEW at \in Tick, NEW timeout \in Tick
  PROVE  LET e == TicksToExpire(at, timeout) IN
         /\ e \in Nat
         /\ \/ Diff(latest + e, at) = timeout
            \/ /\ e = 0 /\ Diff(latest + e, at) > timeout
               /\ Diff(latest + e, at) <= CounterMod - Half
         /\ e < Half + timeout \/ e <= timeout
<1> DEFINE x == Diff(at, latest)
           y == Diff(latest, at)
           e == TicksToExpire(at, timeout)
<1>1. latest \in Int /\ at \in Int /\ timeout \in Nat BY DEF Tick
<1>2. x \in Nat /\ y \in Nat BY <1>1, DiffIn
<1>3. e = IF x < Half THEN x + timeout ELSE IF timeout > y THEN timeout - y ELSE 0
  BY DEF TicksToExpire, Half
<1>4. CASE x < Half
  <2>1. e = x + timeout BY <1>3, <1>4
  <2>2. Diff(latest + x + timeout, at) = Diff(at + timeout, at) BY <1>1, DiffBack
  <2>3. Diff(at + timeout, at) = timeout BY <1>1, DiffSame
  <2> HIDE DEF x, y, e
  <2>4. latest + e = latest + x + timeout BY <1>1, <1>2, <2>1
  <2>5. Diff(latest + e, at) = timeout BY <2>2, <2>3, <2>4 DEF x
  <2>6. e \in Nat /\ e < Half + timeout BY <1>1, <1>2, <1>4, <2>1, HalfFacts
  <2>7. QED BY <2>5, <2>6 DEF e
<1>5. CASE ~(x < Half) /\ timeout > y
  <2>1. e = timeout - y BY <1>3, <1>5
  <2> HIDE DEF x, e
  <2>2. timeout - y \in Int /\ y + (timeout - y) = timeout BY <1>1, <1>2
  <2>3. Diff(latest + (timeout - y), at) = timeout BY <1>1, <2>2, DiffPlus
  <2> HIDE DEF y
  <2>4. e \in Nat /\ e <= timeout BY <1>1, <1>2, <1>5, <2>1
  <2>5. QED BY <2>1, <2>3, <2>4 DEF e
<1>6. CASE ~(x < Half) /\ ~(timeout > y)
  <2>1. e = 0 BY <1>3, <1>6
  <2>2. latest + 0 = latest BY <1>1
  <2>3. Diff(latest + 0, at) = y BY <2>2
  <2>4. y <= CounterMod - Half
    <3>1. CASE x = 0
      <4>1. Half = 0 BY <1>6, <3>1, HalfFacts
      <4>2. y < CounterMod BY <1>1, DiffIn DEF Tick
      <4> HIDE DEF y
      <4>3. QED BY <1>2, <4>1, <4>2
    <3>2. CASE x # 0
      <4>1. y = CounterMod - x BY <1>1, <3>2, DiffTurn
      <4> HIDE DEF x, y
      <4>2. QED BY <1>2, <1>6, <4>1, HalfFacts
    <3>3. QED BY <3>1, <3>2
  <2> HIDE DEF x, y, e
  <2>5. y = timeout \/ y > timeout BY <1>1, <1>2, <1>6
  <2>6. e \in Nat /\ e <= timeout BY <1>1, <2>1
  <2>7. QED BY <2>1, <2>3, <2>4, <2>5, <2>6 DEF e
<1>7. QED BY <1>4, <1>5, <1>6

-----------------------------------------------------------------------------
(* The list and the nodes of its timers.                                   *)

\* What every variable that the list and the handlers depend on may hold.
TypeInv ==
  /\ counter \in Tick /\ latest \in Tick /\ queued \in Nat \cup {NoTicks}
  /\ ops \in [User -> Seq(Ops)]
  /\ call \in [pc : CallPc, op : Ops]
  /\ low \in [pc : LowPc, update : BOOLEAN, oldHead : Timer \cup {None},
              midHead : Timer \cup {None}, restart : Seq(Timer), pre : Tick]
  /\ list \in Lists
  /\ running \in [Timer -> BOOLEAN]
  /\ interval \in [Timer -> Tick]
  /\ startAt \in [Timer -> Tick]

\* A timer to be restarted is in the restart list or in the list, never in both,
\* and in each once.
RestartInv ==
  /\ IsInjective(low.restart)
  /\ ToSet(low.restart) \cap Listed(list) = {}
  /\ low.pc # "insert" => low.restart = <<>>
  /\ \A t \in Listed(list) \cup ToSet(low.restart) : interval[t] \in Timeout

\* A listed timer is due at its deadline, or at once if it was late already when it
\* was inserted, and then late by no more than half the range of the counter.
DeadlineInv ==
  \A t \in Listed(list) :
    LET deadline == Diff(latest + Due(list, t), startAt[t])
    IN  \/ deadline = interval[t]
        \/ /\ Due(list, t) = 0 /\ deadline > interval[t]
           /\ deadline <= CounterMod - Half

NodeInv == TypeInv /\ RestartInv /\ Listed(list) = {t \in Timer : running[t]}

LEMMA Constants ==
  /\ 0 \in Tick /\ None \notin Timer /\ Timeout \subseteq Tick
  /\ \A t \in Timer : t \in Nat
<1>1. 0 \in Tick BY DEF Tick
<1>2. None \notin Timer /\ \A t \in Timer : t \in Nat BY DEF None, Timer
<1>3. Timeout \subseteq Tick BY DEF Tick
<1>4. QED BY <1>1, <1>2, <1>3

LEMMA IdleTyped ==
  /\ NoOp \in Ops /\ IdleCall \in [pc : CallPc, op : Ops] /\ IdleCall.pc = "idle"
  /\ IdleLow \in [pc : LowPc, update : BOOLEAN, oldHead : Timer \cup {None},
                  midHead : Timer \cup {None}, restart : Seq(Timer), pre : Tick]
  /\ IdleLow.pc = "idle" /\ IdleLow.restart = <<>> /\ ~IdleLow.update
<1>1. NoOp \in Ops BY Constants DEF NoOp, Ops
<1>2. IdleCall \in [pc : CallPc, op : Ops] BY <1>1 DEF IdleCall, CallPc
<1>3. <<>> \in Seq(Timer) OBVIOUS
<1>4. IdleLow \in [pc : LowPc, update : BOOLEAN, oldHead : Timer \cup {None},
                   midHead : Timer \cup {None}, restart : Seq(Timer), pre : Tick]
  BY <1>3, Constants DEF IdleLow, LowPc
<1>5. QED BY <1>1, <1>2, <1>4 DEF IdleCall, IdleLow

LEMMA OpTyped ==
  ASSUME TypeInv, NEW u \in User, NEW op \in Op(u)
  PROVE  op \in Ops
<1>1. counter \in Tick BY DEF TypeInv
<1>2. CASE op \in {[type |-> "start", timer |-> t, at |-> counter, timeout |-> k] :
                     t \in IF u \in Starter THEN Timer ELSE {},
                     k \in {k \in Timeout : k >= MinTimeout}}
  BY <1>1, <1>2 DEF Ops
<1>3. CASE op \in {[type |-> "stop", timer |-> t, at |-> 0, timeout |-> 0] :
                     t \in IF u \in Stopper THEN Timer ELSE {}}
  BY <1>3, Constants DEF Ops
<1>4. CASE op \in {[type |-> "stop_all", timer |-> None, at |-> 0, timeout |-> 0] :
                     t \in IF u \in AllStopper THEN {None} ELSE {}}
  BY <1>4, Constants DEF Ops
<1>5. QED BY <1>2, <1>3, <1>4 DEF Op

LEMMA InitNodes == Init => NodeInv /\ DeadlineInv
<1> SUFFICES ASSUME Init PROVE NodeInv /\ DeadlineInv OBVIOUS
<1>1. list \in Lists /\ Listed(list) = {}
  BY DEF Init, Lists, IsInjective, Listed, ToSet
<1>2. ops \in [User -> Seq(Ops)] BY DEF Init
<1>3. call = IdleCall /\ low = IdleLow BY DEF Init
<1>4. counter \in Tick /\ latest \in Tick /\ queued \in Nat \cup {NoTicks}
  BY Constants DEF Init
<1>5. running \in [Timer -> BOOLEAN] /\ interval \in [Timer -> Tick] /\ startAt \in [Timer -> Tick]
  BY Constants DEF Init
<1>6. TypeInv BY <1>1, <1>2, <1>3, <1>4, <1>5, IdleTyped DEF TypeInv
<1>7. RestartInv
  <2>1. low.restart = <<>> BY <1>3, IdleTyped
  <2>2. IsInjective(<<>>) /\ ToSet(<<>>) = {} BY DEF IsInjective, ToSet
  <2>3. QED BY <1>1, <2>1, <2>2 DEF RestartInv
<1>8. Listed(list) = {t \in Timer : running[t]} BY <1>1 DEF Init
<1>9. QED BY <1>1, <1>6, <1>7, <1>8 DEF NodeInv, DeadlineInv

\* Steps that leave the timers and m_ticks_latest alone.
LEMMA NodesKept ==
  ASSUME NodeInv, TypeInv', UNCHANGED <<list, running, interval, startAt, latest>>,
         low'.restart = low.restart, low'.pc # "insert" => low.restart = <<>>
  PROVE  NodeInv' /\ (DeadlineInv => DeadlineInv')
<1>1. RestartInv' BY DEF NodeInv, RestartInv
<1>2. Listed(list)' = {t \in Timer : running[t]}' BY DEF NodeInv
<1>3. DeadlineInv => DeadlineInv' BY DEF DeadlineInv
<1>4. QED BY <1>1, <1>2, <1>3 DEF NodeInv

LEMMA EnqueTyped ==
  ASSUME TypeInv, NEW u \in User, NEW op \in Ops, Enque(u, op)
  PROVE  ops' \in [User -> Seq(Ops)]
<1>1. ops \in [User -> Seq(Ops)] BY DEF TypeInv
<1>2. Append(ops[u], op) \in Seq(Ops) BY <1>1
<1>3. ops' = [ops EXCEPT ![u] = Append(ops[u], op)] BY DEF Enque
<1>4. QED BY <1>1, <1>2, <1>3

\* The calls.
LEMMA CallNodes ==
  ASSUME NodeInv, (\E u \in {HIGH, LOW} : IrqCall(u)) \/ ThreadCall \/ ThreadStep
  PROVE  NodeInv' /\ (DeadlineInv => DeadlineInv')
<1>1. TypeInv BY DEF NodeInv
<1>2. UNCHANGED <<list, running, interval, startAt, latest, low, counter, queued>>
  BY DEF IrqCall, ThreadCall, ThreadStep, ThreadEnque, ThreadPend, nodeVars, rtcVars
<1>3. ops' \in [User -> Seq(Ops)] /\ call' \in [pc : CallPc, op : Ops]
  <2>1. ASSUME NEW u \in {HIGH, LOW}, IrqCall(u)
        PROVE  ops' \in [User -> Seq(Ops)] /\ call' \in [pc : CallPc, op : Ops]
    <3>1. u \in User BY DEF User
    <3>2. PICK op \in Op(u) : Enque(u, op) BY <2>1 DEF IrqCall
    <3>3. ops' \in [User -> Seq(Ops)] BY <1>1, <3>1, <3>2, OpTyped, EnqueTyped
    <3>4. QED BY <1>1, <2>1, <3>3 DEF IrqCall, TypeInv
  <2>2. CASE ThreadCall
    <3>1. PICK op \in Op(THREAD) : call' = [pc |-> "enque", op |-> op] BY <2>2 DEF ThreadCall
    <3>2. op \in Ops BY <1>1, OpTyped DEF User
    <3>3. QED BY <1>1, <2>2, <3>1, <3>2 DEF ThreadCall, TypeInv, CallPc
  <2>3. CASE ThreadEnque
    <3>1. call \in [pc : CallPc, op : Ops] BY <1>1 DEF TypeInv
    <3>2. ops' \in [User -> Seq(Ops)]
      BY <1>1, <2>3, <3>1, EnqueTyped DEF ThreadEnque, User
    <3>3. call' = [call EXCEPT !.pc = "pend"] BY <2>3 DEF ThreadEnque
    <3>4. QED BY <3>1, <3>2, <3>3 DEF CallPc
  <2>4. CASE ThreadPend BY <1>1, <2>4, IdleTyped DEF ThreadPend, TypeInv
  <2>5. QED BY <2>1, <2>2, <2>3, <2>4 DEF ThreadStep
<1>4. TypeInv' BY <1>1, <1>2, <1>3 DEF TypeInv
<1>5. QED BY <1>2, <1>4, NodesKept DEF NodeInv, RestartInv

\* The counter, RTC1 and the compare register.
LEMMA RtcNodes ==
  ASSUME NodeInv, RtcTick \/ RtcStep \/ SwiCompare \/ SwiSetCompare
  PROVE  NodeInv' /\ (DeadlineInv => DeadlineInv')
<1> DEFINE LowType == [pc : LowPc, update : BOOLEAN, oldHead : Timer \cup {None},
                       midHead : Timer \cup {None}, restart : Seq(Timer), pre : Tick]
<1>1. TypeInv BY DEF NodeInv
<1>2. low \in LowType /\ counter \in Tick /\ latest \in Tick /\ list \in Lists
  BY <1>1 DEF TypeInv
<1>3. low.pc # "insert" => low.restart = <<>> BY DEF NodeInv, RestartInv
<1>4. UNCHANGED <<list, running, interval, startAt, latest, ops, call>>
  BY DEF RtcTick, RtcStep, RtcEnter, RtcCheck, SwiCompare, SwiSetCompare, nodeVars
<1>5. ASSUME NEW a \in Int PROVE a % CounterMod \in Tick BY ModRange DEF Tick
<1>6. CASE RtcTick
  <2>1. UNCHANGED <<low, queued>> /\ counter' = (counter + 1) % CounterMod
    BY <1>6 DEF RtcTick
  <2>2. counter + 1 \in Int BY <1>2 DEF Tick
  <2>3. counter' \in Tick BY <1>5, <2>1, <2>2
  <2>4. TypeInv' BY <1>1, <1>4, <2>1, <2>3 DEF TypeInv
  <2>5. QED BY <1>3, <1>4, <2>1, <2>4, NodesKept
<1>7. CASE RtcEnter
  <2>1. /\ UNCHANGED <<counter, queued>> /\ low.pc = "idle" /\ low' = [low EXCEPT !.pc = "rtc"]
    BY <1>7 DEF RtcEnter
  <2>2. low' \in LowType /\ low'.restart = low.restart BY <1>2, <2>1 DEF LowPc
  <2>3. TypeInv' BY <1>1, <1>4, <2>1, <2>2 DEF TypeInv
  <2>4. QED BY <1>3, <1>4, <2>1, <2>2, <2>3, NodesKept
<1>8. CASE RtcCheck
  <2>1. UNCHANGED counter /\ low.pc = "rtc" /\ low' = IdleLow
    BY <1>8 DEF RtcCheck, HandlerDone, rtcVars
  <2>2. queued' \in Nat \cup {NoTicks}
    <3>1. CASE UNCHANGED queued BY <1>1, <3>1 DEF TypeInv
    <3>2. CASE queued' = ExpiredTicks(list, Lag)
      <4>1. Lag \in Int BY <1>2, DiffIn DEF Lag, Tick
      <4>2. ExpiredTicks(list, Lag) \in Nat
        BY <1>2, <4>1, ExpiredFront, DueFacts DEF ExpiredTicks
      <4>3. QED BY <3>2, <4>2
    <3>3. QED BY <1>8, <3>1, <3>2 DEF RtcCheck
  <2>3. TypeInv' BY <1>1, <1>4, <2>1, <2>2, IdleTyped DEF TypeInv
  <2>4. low'.restart = low.restart BY <1>3, <2>1, IdleTyped
  <2>5. QED BY <1>3, <1>4, <2>1, <2>3, <2>4, NodesKept
<1>9. CASE SwiCompare
  <2> DEFINE Compare == [IdleLow EXCEPT !.pc = "compare", !.pre = counter]
  <2>1. UNCHANGED <<counter, queued>> /\ low.restart = <<>>
    BY <1>9 DEF SwiCompare, HandlerDone, rtcVars
  <2>2. low' = IdleLow \/ low' = Compare BY <1>9 DEF SwiCompare, HandlerDone
  <2>3. IdleLow \in LowType /\ IdleLow.restart = <<>> BY IdleTyped
  <2>4. Compare \in LowType /\ Compare.restart = <<>> BY <1>2, <2>3 DEF LowPc
  <2>5. low' \in LowType /\ low'.restart = low.restart BY <2>1, <2>2, <2>3, <2>4
  <2>6. TypeInv' BY <1>1, <1>4, <2>1, <2>5 DEF TypeInv
  <2>7. QED BY <1>4, <2>1, <2>5, <2>6, NodesKept
<1>10. CASE SwiSetCompare
  <2>1. UNCHANGED <<counter, queued>> /\ low.pc = "compare" /\ low' = IdleLow
    BY <1>10 DEF SwiSetCompare, HandlerDone
  <2>2. TypeInv' BY <1>1, <1>4, <2>1, IdleTyped DEF TypeInv
  <2>3. low'.restart = low.restart BY <1>3, <2>1, IdleTyped
  <2>4. QED BY <1>3, <1>4, <2>1, <2>2, <2>3, NodesKept
<1>11. QED BY <1>6, <1>7, <1>8, <1>9, <1>10 DEF RtcStep

LEMMA TailFacts ==
  ASSUME NEW S, NEW s \in Seq(S), s # <<>>
  PROVE  /\ Head(s) \in ToSet(s) /\ Head(s) \in S /\ Tail(s) \in Seq(S)
         /\ ToSet(Tail(s)) \subseteq ToSet(s)
         /\ IsInjective(s) => IsInjective(Tail(s)) /\ Head(s) \notin ToSet(Tail(s))
<1> DEFINE N == Len(s)
           r == Tail(s)
<1>1. N \in Nat /\ N # 0 /\ DOMAIN s = 1..N /\ Head(s) = s[1] BY EmptySeq, HeadTailProperties
<1>2. r \in Seq(S) /\ Len(r) = N - 1 /\ \A i \in 1..N - 1 : r[i] = s[i + 1]
  BY HeadTailProperties
<1> HIDE DEF r, N
<1>3. DOMAIN r = 1..N - 1 /\ 1 \in 1..N /\ \A i \in 1..N - 1 : i + 1 \in 1..N /\ i + 1 # 1
  BY <1>1, <1>2
<1>4. Head(s) \in ToSet(s) /\ Head(s) \in S BY <1>1, <1>3, ElementOfSeq DEF ToSet, N
<1>5. ToSet(r) \subseteq ToSet(s) BY <1>1, <1>2, <1>3 DEF ToSet
<1>6. ASSUME IsInjective(s) PROVE IsInjective(r) /\ Head(s) \notin ToSet(r)
  <2>1. \A i, j \in 1..N : s[i] = s[j] => i = j BY <1>1, <1>6 DEF IsInjective
  <2>2. \A i, j \in 1..N - 1 : r[i] = r[j] => i = j
    <3> SUFFICES ASSUME NEW i \in 1..N - 1, NEW j \in 1..N - 1, r[i] = r[j] PROVE i = j
      OBVIOUS
    <3>1. s[i + 1] = s[j + 1] BY <1>2
    <3>2. i + 1 = j + 1 BY <1>3, <2>1, <3>1
    <3>3. QED BY <1>1, <3>2
  <2>3. \A i \in 1..N - 1 : r[i] # s[1] BY <1>2, <1>3, <2>1
  <2>4. QED BY <1>1, <1>3, <2>2, <2>3 DEF IsInjective, ToSet
<1>7. QED BY <1>2, <1>4, <1>5, <1>6 DEF r

\* What inserting a timer does to the nodes.
LEMMA InsertNode ==
  ASSUME TypeInv, NEW t \in Timer, t \notin Listed(list), NEW at \in Tick,
         NEW timeout \in Timeout, Insert(t, at, timeout)
  PROVE  /\ list' \in Lists /\ Listed(list') = Listed(list) \cup {t}
         /\ TicksToExpire(at, timeout) \in Nat /\ Due(list', t) = TicksToExpire(at, timeout)
         /\ \A u \in Listed(list) : Due(list', u) = Due(list, u)
         /\ running' \in [Timer -> BOOLEAN] /\ interval' \in [Timer -> Tick]
         /\ startAt' \in [Timer -> Tick]
         /\ running'[t] /\ interval'[t] = timeout /\ startAt'[t] = at
         /\ \A u \in Timer \ {t} : /\ running'[u] = running[u]
                                   /\ interval'[u] = interval[u] /\ startAt'[u] = startAt[u]
<1> DEFINE e == TicksToExpire(at, timeout)
<1>1. list \in Lists /\ latest \in Tick /\ timeout \in Tick BY Constants DEF TypeInv
<1>2. e \in Nat BY <1>1, TicksFacts
<1>3. list' = Inserted(list, t, e) BY DEF Insert
<1> HIDE DEF e
<1>4. /\ list' \in Lists /\ Listed(list') = Listed(list) \cup {t} /\ Due(list', t) = e
      /\ \A u \in Listed(list) : Due(list', u) = Due(list, u)
  BY <1>1, <1>2, <1>3, InsertedFacts
<1>5. /\ running \in [Timer -> BOOLEAN] /\ interval \in [Timer -> Tick]
      /\ startAt \in [Timer -> Tick]
  BY DEF TypeInv
<1>6. /\ running' = [running EXCEPT ![t] = TRUE] /\ interval' = [interval EXCEPT ![t] = timeout]
      /\ startAt' = [startAt EXCEPT ![t] = at]
  BY DEF Insert
<1>7. /\ running' \in [Timer -> BOOLEAN] /\ running'[t] = TRUE
      /\ \A u \in Timer \ {t} : running'[u] = running[u]
  BY <1>5, <1>6
<1>8. /\ interval' \in [Timer -> Tick] /\ interval'[t] = timeout
      /\ \A u \in Timer \ {t} : interval'[u] = interval[u]
  BY <1>1, <1>5, <1>6
<1>9. /\ startAt' \in [Timer -> Tick] /\ startAt'[t] = at
      /\ \A u \in Timer \ {t} : startAt'[u] = startAt[u]
  BY <1>5, <1>6
<1>10. QED BY <1>2, <1>4, <1>7, <1>8, <1>9 DEF e

\* What is the same for all insertions.
LEMMA InsertKeeps ==
  ASSUME NodeInv, DeadlineInv, NEW t \in Timer, t \notin Listed(list), NEW at \in Tick,
         NEW timeout \in Timeout, Insert(t, at, timeout), UNCHANGED latest
  PROVE  /\ Listed(list)' = {u \in Timer : running[u]}'
         /\ DeadlineInv'
         /\ \A u \in Listed(list') : interval'[u] \in Timeout
<1>1. TypeInv /\ RestartInv BY DEF NodeInv
<1>2. /\ list' \in Lists /\ Listed(list') = Listed(list) \cup {t}
      /\ Due(list', t) = TicksToExpire(at, timeout)
      /\ \A u \in Listed(list) : Due(list', u) = Due(list, u)
      /\ running'[t] /\ interval'[t] = timeout /\ startAt'[t] = at
      /\ \A u \in Timer \ {t} : /\ running'[u] = running[u]
                                /\ interval'[u] = interval[u] /\ startAt'[u] = startAt[u]
  BY <1>1, InsertNode
<1>3. Listed(list) \subseteq Timer BY <1>1, ListedAt DEF TypeInv
<1>4. Listed(list)' = {u \in Timer : running[u]}' BY <1>2 DEF NodeInv
<1>5. \A u \in Listed(list') : interval'[u] \in Timeout BY <1>1, <1>2, <1>3 DEF RestartInv
<1>6. DeadlineInv'
  <2>1. SUFFICES ASSUME NEW u \in Listed(list')
        PROVE  LET deadline == Diff(latest + Due(list', u), startAt'[u])
               IN  \/ deadline = interval'[u]
                   \/ /\ Due(list', u) = 0 /\ deadline > interval'[u]
                      /\ deadline <= CounterMod - Half
    <3>1. latest' = latest OBVIOUS
    <3>2. QED BY <2>1, <3>1 DEF DeadlineInv, Diff
  <2>2. CASE u = t
    <3>1. timeout \in Tick /\ latest \in Tick BY <1>1, Constants DEF TypeInv
    <3>2. QED BY <1>2, <2>2, <3>1, TicksFacts
  <2>3. CASE u # t
    <3>1. u \in Listed(list) /\ u \in Timer \ {t} BY <1>2, <1>3, <2>3
    <3>2. QED BY <1>2, <3>1 DEF DeadlineInv
  <2>4. QED BY <2>2, <2>3
<1>7. QED BY <1>4, <1>5, <1>6

LEMMA RestartNodes ==
  ASSUME NodeInv, DeadlineInv, SwiRestart
  PROVE  NodeInv' /\ DeadlineInv'
<1> DEFINE t == Head(low.restart)
           at == startAt[t]
           timeout == interval[t]
<1>1. TypeInv /\ RestartInv BY DEF NodeInv
<1>2. low.restart \in Seq(Timer) /\ low.restart # <<>> BY <1>1 DEF TypeInv, SwiRestart
<1>3. /\ t \in ToSet(low.restart) /\ t \in Timer /\ Tail(low.restart) \in Seq(Timer)
      /\ ToSet(Tail(low.restart)) \subseteq ToSet(low.restart)
      /\ IsInjective(Tail(low.restart)) /\ t \notin ToSet(Tail(low.restart))
  BY <1>1, <1>2, TailFacts DEF RestartInv
<1>4. t \notin Listed(list) /\ timeout \in Timeout BY <1>1, <1>3 DEF RestartInv
<1>5. at \in Tick BY <1>1, <1>3 DEF TypeInv
<1>6. Insert(t, at, timeout) /\ UNCHANGED <<latest, ops, call, queued, counter>>
  BY DEF SwiRestart, rtcVars
<1>7. low' = [low EXCEPT !.restart = Tail(low.restart)] /\ low.pc = "insert" BY DEF SwiRestart
<1> HIDE DEF t, at, timeout
<1>8. /\ Listed(list)' = {u \in Timer : running[u]}' /\ DeadlineInv'
      /\ \A u \in Listed(list') : interval'[u] \in Timeout
  BY <1>3, <1>4, <1>5, <1>6, InsertKeeps
<1>9. /\ list' \in Lists /\ Listed(list') = Listed(list) \cup {t}
      /\ running' \in [Timer -> BOOLEAN] /\ interval' \in [Timer -> Tick]
      /\ startAt' \in [Timer -> Tick]
      /\ \A u \in Timer \ {t} : interval'[u] = interval[u]
  BY <1>1, <1>3, <1>4, <1>5, <1>6, InsertNode
<1>10. low' \in [pc : LowPc, update : BOOLEAN, oldHead : Timer \cup {None},
                 midHead : Timer \cup {None}, restart : Seq(Timer), pre : Tick]
  <2>1. low \in [pc : LowPc, update : BOOLEAN, oldHead : Timer \cup {None},
                 midHead : Timer \cup {None}, restart : Seq(Timer), pre : Tick]
    BY <1>1 DEF TypeInv
  <2>2. QED BY <1>3, <1>7, <2>1
<1>11. low'.restart = Tail(low.restart) /\ low'.pc = "insert"
  <2>1. low \in [pc : LowPc, update : BOOLEAN, oldHead : Timer \cup {None},
                 midHead : Timer \cup {None}, restart : Seq(Timer), pre : Tick]
    BY <1>1 DEF TypeInv
  <2>2. QED BY <1>7, <2>1
<1>12. TypeInv' BY <1>1, <1>6, <1>9, <1>10 DEF TypeInv
<1>13. RestartInv'
  <2>1. ToSet(low.restart) \subseteq Timer BY <1>2 DEF ToSet
  <2>2. ToSet(low'.restart) \cap Listed(list') = {} BY <1>1, <1>3, <1>9, <1>11 DEF RestartInv
  <2>3. \A u \in ToSet(low'.restart) : interval'[u] \in Timeout
    BY <1>1, <1>3, <1>9, <1>11, <2>1 DEF RestartInv
  <2>4. QED BY <1>3, <1>8, <1>11, <2>2, <2>3 DEF RestartInv
<1>14. QED BY <1>8, <1>12, <1>13 DEF NodeInv

LEMMA InsertNodes ==
  ASSUME NodeInv, DeadlineInv, NEW u \in User, SwiInsert(u)
  PROVE  NodeInv' /\ DeadlineInv'
<1> DEFINE op == Head(ops[u])
<1>1. TypeInv /\ RestartInv BY DEF NodeInv
<1>2. ops[u] \in Seq(Ops) /\ ops[u] # <<>> BY <1>1 DEF TypeInv, SwiInsert
<1>3. op \in Ops /\ Tail(ops[u]) \in Seq(Ops) BY <1>2, TailFacts
<1>4. /\ UNCHANGED <<latest, call, queued, counter, low>> /\ ops' = [ops EXCEPT ![u] = Tail(ops[u])]
      /\ low.restart = <<>> /\ low.pc = "insert"
  BY DEF SwiInsert, rtcVars
<1>5. ops' \in [User -> Seq(Ops)]
  <2>1. ops \in [User -> Seq(Ops)] BY <1>1 DEF TypeInv
  <2>2. QED BY <1>3, <1>4, <2>1
<1>6. CASE Starts(op)
  <2>1. Insert(op.timer, op.at, op.timeout) BY <1>6 DEF SwiInsert
  <2>2. op.timer \in Timer /\ op.at \in Tick /\ op.timeout \in Timeout
    BY <1>3, <1>6 DEF Starts, Ops
  <2>3. op.timer \notin Listed(list) BY <1>6 DEF Starts, NodeInv
  <2> DEFINE t == op.timer
             at == op.at
             timeout == op.timeout
  <2>4. /\ t \in Timer /\ at \in Tick /\ timeout \in Timeout /\ t \notin Listed(list)
        /\ Insert(t, at, timeout)
    BY <2>1, <2>2, <2>3
  <2> HIDE DEF t, at, timeout, op
  <2>5. /\ Listed(list)' = {v \in Timer : running[v]}' /\ DeadlineInv'
        /\ \A v \in Listed(list') : interval'[v] \in Timeout
    BY <1>4, <2>4, InsertKeeps
  <2>6. /\ list' \in Lists /\ running' \in [Timer -> BOOLEAN] /\ interval' \in [Timer -> Tick]
        /\ startAt' \in [Timer -> Tick]
    BY <1>1, <2>4, InsertNode
  <2>7. TypeInv' BY <1>1, <1>4, <1>5, <2>6 DEF TypeInv
  <2>8. ToSet(low'.restart) = {} BY <1>4 DEF ToSet
  <2>9. RestartInv' BY <1>1, <1>4, <2>5, <2>8 DEF RestartInv
  <2>10. QED BY <2>5, <2>7, <2>9 DEF NodeInv
<1>7. CASE ~Starts(op)
  <2>1. UNCHANGED <<list, running, interval, startAt>> BY <1>7 DEF SwiInsert, nodeVars
  <2>2. TypeInv' BY <1>1, <1>4, <1>5, <2>1 DEF TypeInv
  <2>3. QED BY <1>4, <2>1, <2>2, NodesKept
<1>8. QED BY <1>6, <1>7

LEMMA ExpiredSeq ==
  ASSUME NEW L \in Lists, NEW e \in Int
  PROVE  Expired(L, e) \in Seq(Timer) /\ IsInjective(Expired(L, e))
<1> DEFINE n == ExpiredCount(L, e)
           x == SubSeq(L.order, 1, n)
           N == Len(L.order)
<1>1. /\ N \in Nat /\ \A i \in 1..N : L.order[i] \in Timer
      /\ \A i, j \in 1..N : L.order[i] = L.order[j] => i = j
  BY Parts
<1>2. n \in 0..N BY ExpiredFront
<1> HIDE DEF n
<1>3. n \in Nat /\ n <= N BY <1>1, <1>2
<1>4. \A i \in 1..n : i \in 1..N BY <1>1, <1>3
<1>5. x \in Seq(Timer) /\ Len(x) = n /\ \A i \in 1..n : x[i] = L.order[i]
  BY <1>1, <1>3, <1>4, SubSeqProperties
<1> HIDE DEF x, N
<1>6. DOMAIN x = 1..n BY <1>5
<1>7. IsInjective(x) BY <1>1, <1>4, <1>5, <1>6 DEF IsInjective
<1>8. QED BY <1>5, <1>7 DEF Expired, x, n

LEMMA HeadTyped ==
  ASSUME NEW L \in Lists
  PROVE  /\ HeadOf(L) \in Timer \cup {None}
         /\ IsEmptyList(L) <=> HeadOf(L) = None
         /\ IsEmptyList(L) <=> Listed(L) = {}
         /\ ~IsEmptyList(L) => HeadOf(L) \in Listed(L) /\ Due(L, HeadOf(L)) = DueAt(L, 1)
<1>1. CASE L.order = <<>>
  BY <1>1 DEF IsEmptyList, HeadOf, None, Listed, ToSet
<1>2. CASE L.order # <<>>
  <2>1. Len(L.order) \in Nat /\ Len(L.order) # 0 BY <1>2, Parts, EmptySeq
  <2>2. 1 \in 1..Len(L.order) BY <2>1
  <2>3. HeadOf(L) = L.order[1] BY <1>2 DEF HeadOf
  <2>4. HeadOf(L) \in Timer /\ HeadOf(L) \in Listed(L) BY <2>2, <2>3, Parts
  <2>5. Due(L, HeadOf(L)) = DueAt(L, 1) BY <2>2, <2>3, DueOf
  <2>6. QED BY <1>2, <2>4, <2>5, Constants DEF IsEmptyList
<1>3. QED BY <1>1, <1>2

LEMMA BatchTyped ==
  ASSUME TypeInv
  PROVE  Batch \in Seq(Ops)
<1>1. ops[THREAD] \in Seq(Ops) /\ ops[LOW] \in Seq(Ops) /\ ops[HIGH] \in Seq(Ops)
  BY DEF TypeInv, User
<1>2. ops[THREAD] \o ops[LOW] \in Seq(Ops) BY <1>1, ConcatProperties
<1>3. (ops[THREAD] \o ops[LOW]) \o ops[HIGH] \in Seq(Ops) BY <1>1, <1>2, ConcatProperties
<1>4. QED BY <1>3 DEF Batch

\* What the first half of timer_list_handler does to the list and the nodes.
LEMMA BeginNodes ==
  ASSUME NodeInv, SwiBegin
  PROVE  /\ TypeInv' /\ RestartInv' /\ Listed(list)' = {t \in Timer : running[t]}'
         /\ queued' = NoTicks /\ low'.pc = "insert"
         /\ Listed(list') \subseteq Listed(list)
         /\ \A t \in Listed(list') : startAt'[t] = startAt[t] /\ interval'[t] = interval[t]
         /\ queued = NoTicks =>
              /\ latest' = latest
              /\ \A t \in Listed(list') : Due(list', t) = Due(list, t)
         /\ queued # NoTicks =>
              /\ queued \in Nat /\ latest' = (latest + queued) % CounterMod
              /\ \A t \in Listed(list') : Due(list', t) = Due(list, t) - queued
         /\ low'.update = FALSE =>
              queued = NoTicks /\ HeadOf(list) = HeadOf(list') /\ low'.midHead = HeadOf(list')
<1> DEFINE deleted == Deleted([list |-> list, running |-> running], Batch)
           left == deleted.list
           elapsed == queued # NoTicks
           gone == IF elapsed THEN Expired(left, queued) ELSE <<>>
<1>1. TypeInv /\ RestartInv /\ list \in Lists BY DEF NodeInv, TypeInv
<1>2. deleted \in Nodes(list)
  <2>1. list \in Within(list) BY <1>1 DEF Within
  <2>2. [list |-> list, running |-> running] \in Nodes(list)
    BY <1>1, <2>1, NodesMade DEF NodeInv, TypeInv
  <2>3. QED BY <1>1, <2>2, BatchTyped, DeletedWithin
<1>3. /\ queued' = NoTicks
      /\ latest' = IF elapsed THEN (latest + queued) % CounterMod ELSE latest
      /\ list' = IF elapsed THEN Advanced(left, queued) ELSE left
      /\ running' = [t \in Timer |-> deleted.running[t] /\ t \notin ToSet(gone)]
      /\ startAt' = [t \in Timer |-> IF t \in ToSet(gone) \cap Periodic
                                     THEN (latest + Due(left, t)) % CounterMod
                                     ELSE IF running'[t] THEN startAt[t] ELSE 0]
      /\ UNCHANGED <<counter, ops, call, interval>>
  BY DEF SwiBegin, rtcVars
<1>4. low' = [pc |-> "insert", update |-> elapsed \/ HeadOf(left) # HeadOf(list),
              oldHead |-> HeadOf(list), midHead |-> HeadOf(list'),
              restart |-> RestartList(gone), pre |-> 0]
  BY DEF SwiBegin
<1>5. /\ left \in Lists /\ Listed(left) \subseteq Listed(list)
      /\ \A t \in Listed(left) : Due(left, t) = Due(list, t)
      /\ Listed(left) = {t \in Timer : deleted.running[t]}
      /\ deleted.running \in [Timer -> BOOLEAN]
  BY <1>2 DEF Within, Nodes
<1> HIDE DEF left, deleted
<1>6. queued # NoTicks => queued \in Nat BY <1>1 DEF TypeInv
<1>7. /\ gone \in Seq(Timer) /\ IsInjective(gone) /\ ToSet(gone) \subseteq Listed(left)
      /\ list' \in Lists /\ Listed(list') = Listed(left) \ ToSet(gone)
      /\ elapsed => \A t \in Listed(list') : Due(list', t) = Due(left, t) - queued
      /\ ~elapsed => list' = left
  <2>1. CASE elapsed
    <3>1. queued \in Nat /\ queued \in Int BY <1>6, <2>1
    <3>2. gone = Expired(left, queued) /\ list' = Advanced(left, queued) BY <1>3, <2>1
    <3>3. gone \in Seq(Timer) /\ IsInjective(gone) BY <1>5, <3>1, <3>2, ExpiredSeq
    <3>4. ToSet(gone) \subseteq Listed(left) BY <1>5, <3>1, <3>2, AdvancedFacts
    <3> HIDE DEF gone
    <3>5. QED BY <1>5, <2>1, <3>1, <3>2, <3>3, <3>4, AdvancedFacts
  <2>2. CASE ~elapsed
    <3>1. gone = <<>> /\ list' = left BY <1>3, <2>2
    <3>2. IsInjective(<<>>) /\ ToSet(<<>>) = {} BY DEF IsInjective, ToSet
    <3>3. QED BY <1>5, <2>2, <3>1, <3>2
  <2>3. QED BY <2>1, <2>2
<1> HIDE DEF gone
<1>8. /\ RestartList(gone) \in Seq(Timer) /\ IsInjective(RestartList(gone))
      /\ ToSet(RestartList(gone)) = ToSet(gone) \cap Periodic
  BY <1>7, RestartFacts
<1>9. low' \in [pc : LowPc, update : BOOLEAN, oldHead : Timer \cup {None},
                midHead : Timer \cup {None}, restart : Seq(Timer), pre : Tick]
  <2> DEFINE h == HeadOf(list)
             m == HeadOf(list')
             b == elapsed \/ HeadOf(left) # HeadOf(list)
             r == RestartList(gone)
  <2>1. h \in Timer \cup {None} /\ m \in Timer \cup {None} /\ b \in BOOLEAN /\ r \in Seq(Timer)
    BY <1>1, <1>7, <1>8, HeadTyped
  <2>2. low' = [pc |-> "insert", update |-> b, oldHead |-> h, midHead |-> m, restart |-> r,
                pre |-> 0]
    BY <1>4
  <2> HIDE DEF h, m, b, r
  <2>3. QED BY <2>1, <2>2, Constants DEF LowPc
<1>10. /\ low'.restart = RestartList(gone) /\ low'.pc = "insert" /\ low'.midHead = HeadOf(list')
       /\ low'.update = (elapsed \/ HeadOf(left) # HeadOf(list))
  BY <1>4
<1>11. running' \in [Timer -> BOOLEAN] BY <1>3, <1>5
<1>12. startAt' \in [Timer -> Tick]
  <2>1. ASSUME NEW t \in Timer, t \in ToSet(gone) PROVE (latest + Due(left, t)) % CounterMod \in Tick
    <3>1. Due(left, t) \in Nat BY <1>5, <1>7, <2>1, ListedAt
    <3>2. latest + Due(left, t) \in Int BY <1>1, <3>1 DEF TypeInv, Tick
    <3>3. QED BY <3>2, ModRange DEF Tick
  <2>2. startAt \in [Timer -> Tick] BY <1>1 DEF TypeInv
  <2>3. QED BY <1>3, <2>1, <2>2, Constants
<1>13. latest' \in Tick
  <2>1. CASE elapsed
    <3>1. latest + queued \in Int BY <1>1, <1>6, <2>1 DEF TypeInv, Tick
    <3>2. QED BY <1>3, <2>1, <3>1, ModRange DEF Tick
  <2>2. CASE ~elapsed BY <1>1, <1>3, <2>2 DEF TypeInv
  <2>3. QED BY <2>1, <2>2
<1>14. TypeInv' BY <1>1, <1>3, <1>7, <1>9, <1>11, <1>12, <1>13 DEF TypeInv
<1>15. Listed(list)' = {t \in Timer : running[t]}'
  <2>1. Listed(list') \subseteq Timer BY <1>7, ListedAt
  <2>2. QED BY <1>3, <1>5, <1>7, <2>1
<1>16. RestartInv'
  <2>1. ToSet(low'.restart) \cap Listed(list') = {} BY <1>7, <1>8, <1>10
  <2>2. Listed(list') \cup ToSet(low'.restart) \subseteq Listed(list) BY <1>5, <1>7, <1>8, <1>10
  <2>3. \A t \in Listed(list') \cup ToSet(low'.restart) : interval'[t] \in Timeout
    BY <1>1, <1>3, <2>2 DEF RestartInv
  <2>4. QED BY <1>8, <1>10, <2>1, <2>3 DEF RestartInv
<1>17. \A t \in Listed(list') : startAt'[t] = startAt[t] /\ interval'[t] = interval[t]
  <2> SUFFICES ASSUME NEW t \in Listed(list')
               PROVE  startAt'[t] = startAt[t] /\ interval'[t] = interval[t]
    OBVIOUS
  <2>1. t \in Timer BY <1>7, ListedAt
  <2>2. t \notin ToSet(gone) BY <1>7
  <2>3. running'[t] BY <1>3, <1>5, <1>7, <2>1, <2>2
  <2>4. QED BY <1>3, <2>1, <2>2, <2>3
<1>18. queued = NoTicks =>
         /\ latest' = latest
         /\ \A t \in Listed(list') : Due(list', t) = Due(list, t)
  BY <1>3, <1>5, <1>7
<1>19. queued # NoTicks =>
         /\ queued \in Nat /\ latest' = (latest + queued) % CounterMod
         /\ \A t \in Listed(list') : Due(list', t) = Due(list, t) - queued
  BY <1>3, <1>5, <1>6, <1>7
<1>20. low'.update = FALSE =>
         queued = NoTicks /\ HeadOf(list) = HeadOf(list') /\ low'.midHead = HeadOf(list')
  BY <1>7, <1>10
<1>21. QED BY <1>3, <1>5, <1>7, <1>10, <1>14, <1>15, <1>16, <1>17, <1>18, <1>19, <1>20

LEMMA BeginDeadline ==
  ASSUME NodeInv, DeadlineInv, SwiBegin
  PROVE  NodeInv' /\ DeadlineInv'
<1>1. NodeInv' BY BeginNodes DEF NodeInv
<1>2. list \in Lists /\ list' \in Lists /\ latest \in Int BY <1>1 DEF NodeInv, TypeInv, Tick
<1>3. SUFFICES ASSUME NEW t \in Listed(list')
      PROVE  LET deadline == Diff(latest' + Due(list', t), startAt'[t])
             IN  \/ deadline = interval'[t]
                 \/ /\ Due(list', t) = 0 /\ deadline > interval'[t]
                    /\ deadline <= CounterMod - Half
  BY <1>1, <1>3 DEF DeadlineInv, Diff
<1>4. /\ t \in Listed(list) /\ startAt'[t] = startAt[t] /\ interval'[t] = interval[t]
  BY BeginNodes
<1>5. /\ t \in Timer /\ Due(list, t) \in Nat /\ Due(list', t) \in Nat /\ startAt[t] \in Int
  <2>1. t \in Timer /\ Due(list, t) \in Nat /\ Due(list', t) \in Nat BY <1>2, <1>3, <1>4, ListedAt
  <2>2. QED BY <2>1 DEF NodeInv, TypeInv, Tick
<1>6. LET deadline == Diff(latest + Due(list, t), startAt[t])
      IN  \/ deadline = interval[t]
          \/ /\ Due(list, t) = 0 /\ deadline > interval[t]
             /\ deadline <= CounterMod - Half
  BY <1>4 DEF DeadlineInv
<1>7. CASE queued = NoTicks
  <2>1. latest' = latest /\ Due(list', t) = Due(list, t) BY <1>3, <1>7, BeginNodes
  <2>2. QED BY <1>4, <1>6, <2>1
<1>8. CASE queued # NoTicks
  <2> DEFINE d == Due(list, t)
             d1 == Due(list', t)
             l1 == latest'
             s == startAt[t]
  <2>1. /\ queued \in Nat /\ l1 = (latest + queued) % CounterMod /\ d1 = d - queued
    BY <1>3, <1>8, BeginNodes
  <2>2. d \in Nat /\ d1 \in Nat /\ s \in Int /\ latest + queued \in Int BY <1>2, <1>5, <2>1
  <2> HIDE DEF d, d1, l1, s
  <2>3. Diff(l1 + d1, s) = Diff((latest + queued) + d1, s)
    <3> DEFINE c == latest + queued
    <3>1. c \in Int /\ l1 = c % CounterMod BY <2>1, <2>2
    <3> HIDE DEF c
    <3>2. Diff((c % CounterMod) + d1, s) = Diff(c + d1, s)
      <4>1. d1 \in Int BY <2>2
      <4>2. QED BY <2>2, <3>1, <4>1, DiffMod
    <3>3. QED BY <3>1, <3>2 DEF c
  <2>4. (latest + queued) + d1 = latest + d BY <1>2, <2>1, <2>2
  <2>5. Diff(l1 + d1, s) = Diff(latest + d, s) BY <2>3, <2>4
  <2>6. d = 0 => d1 = 0 BY <2>1, <2>2
  <2>7. QED BY <1>4, <1>6, <2>5, <2>6 DEF d, d1, l1, s
<1>9. QED BY <1>7, <1>8

LEMMA NextNodes == NodeInv /\ DeadlineInv /\ [Next]_vars => NodeInv' /\ DeadlineInv'
<1> SUFFICES ASSUME NodeInv, DeadlineInv, [Next]_vars PROVE NodeInv' /\ DeadlineInv'
  OBVIOUS
<1>1. CASE RtcTick \/ RtcStep BY <1>1, RtcNodes
<1>2. CASE (\E u \in {HIGH, LOW} : IrqCall(u)) \/ ThreadCall \/ ThreadStep BY <1>2, CallNodes
<1>3. CASE SwiStep
  <2>1. CASE SwiBegin BY <2>1, BeginDeadline
  <2>2. CASE SwiRestart BY <2>2, RestartNodes
  <2>3. CASE \E u \in User : SwiInsert(u) BY <2>3, InsertNodes
  <2>4. CASE SwiCompare \/ SwiSetCompare BY <2>4, RtcNodes
  <2>5. QED BY <1>3, <2>1, <2>2, <2>3, <2>4 DEF SwiStep
<1>4. CASE UNCHANGED vars
  <2>1. UNCHANGED <<list, running, interval, startAt, latest, low, counter, queued, ops, call>>
    BY <1>4 DEF vars, nodeVars, rtcVars
  <2>2. TypeInv' BY <2>1 DEF NodeInv, TypeInv
  <2>3. QED BY <2>1, <2>2, NodesKept DEF NodeInv, RestartInv
<1>5. QED BY <1>1, <1>2, <1>3, <1>4 DEF Next

LEMMA NodesAlways == Spec => [](NodeInv /\ DeadlineInv)
<1>1. Init => NodeInv /\ DeadlineInv BY InitNodes
<1>2. QED BY <1>1, NextNodes, PTL DEF Spec

\* The list holds the running timers, each once (timer_list_insert,
\* timer_list_remove, expired_timers_handler), whatever is started and stopped.
THEOREM ListRight == Spec => []ListIsRunning
<1>1. NodeInv /\ DeadlineInv => ListIsRunning
  BY DEF NodeInv, TypeInv, Lists, ListIsRunning
<1>2. QED BY <1>1, NodesAlways, PTL

\* A listed timer is due at its deadline.
THEOREM DeadlineRight == Spec => []DeadlineKept
<1>1. NodeInv /\ DeadlineInv => DeadlineKept BY DEF DeadlineInv, DeadlineKept
<1>2. QED BY <1>1, NodesAlways, PTL

-----------------------------------------------------------------------------
(* The lag of m_ticks_latest, and the expiry of timers.                    *)

\* How far m_ticks_latest is behind, and that SWI0 will not move it past the counter.
LagInv == Lag <= MaxLag /\ (queued # NoTicks => queued <= Lag)

LEMMA LagTyped ==
  ASSUME TypeInv
  PROVE  /\ counter \in Int /\ latest \in Int /\ Lag \in Nat /\ Lag \in Tick
         /\ list \in Lists
<1>1. counter \in Int /\ latest \in Int /\ list \in Lists BY DEF TypeInv, Tick
<1>2. Diff(counter, latest) \in Tick /\ Diff(counter, latest) \in Nat BY <1>1, DiffIn
<1>3. QED BY <1>1, <1>2 DEF Lag

LEMMA ExpiredTicksFacts ==
  ASSUME TypeInv
  PROVE  ExpiredTicks(list, Lag) \in Nat /\ ExpiredTicks(list, Lag) <= Lag
<1> DEFINE n == ExpiredCount(list, Lag)
           N == Len(list.order)
<1>1. list \in Lists /\ Lag \in Nat /\ Lag \in Int BY LagTyped
<1>2. /\ n \in 0..N /\ \A i \in 1..N : (DueAt(list, i) <= Lag) <=> (i <= n)
  BY <1>1, ExpiredFront
<1>3. N \in Nat /\ DueAt(list, 0) = 0 /\ \A i \in 0..N : DueAt(list, i) \in Nat
  BY <1>1, DueFacts, Parts
<1>4. ExpiredTicks(list, Lag) = DueAt(list, n) BY DEF ExpiredTicks
<1> HIDE DEF n, N
<1>5. CASE n = 0 BY <1>1, <1>3, <1>4, <1>5
<1>6. CASE n # 0
  <2>1. n \in 1..N /\ n <= n BY <1>2, <1>3, <1>6
  <2>2. QED BY <1>2, <1>3, <1>4, <2>1
<1>7. QED BY <1>5, <1>6

LEMMA TickLag ==
  ASSUME MaxLag < CounterMod, TypeInv, LagInv, RtcTick
  PROVE  Lag' = Lag + 1
<1>1. counter' = (counter + 1) % CounterMod /\ latest' = latest /\ Lag < MaxLag BY DEF RtcTick
<1>2. counter \in Int /\ latest \in Int /\ Lag \in Nat BY LagTyped
<1>3. counter + 1 \in Int BY <1>2
<1>4. Lag' = Diff((counter + 1) % CounterMod, latest) BY <1>1 DEF Lag, Diff
<1>5. Lag' = Diff(counter + 1, latest) BY <1>2, <1>3, <1>4, DiffMod
<1>6. Lag + 1 \in Tick BY <1>1, <1>2 DEF Tick
<1>7. Diff(counter + 1, latest) = Lag + 1 BY <1>2, <1>6, DiffPlus DEF Lag
<1>8. QED BY <1>5, <1>7

LEMMA LagStep ==
  ASSUME MaxLag < CounterMod
  PROVE  NodeInv /\ LagInv /\ [Next]_vars => LagInv'
<1> SUFFICES ASSUME NodeInv, LagInv, [Next]_vars PROVE LagInv' OBVIOUS
<1>1. TypeInv BY DEF NodeInv
<1>2. counter \in Int /\ latest \in Int /\ Lag \in Nat /\ Lag \in Tick BY <1>1, LagTyped
<1>3. CASE UNCHANGED <<counter, latest, queued>> BY <1>3 DEF LagInv, Lag, Diff
<1>4. CASE RtcTick
  <2>1. Lag' = Lag + 1 /\ queued' = queued /\ Lag < MaxLag BY <1>1, <1>4, TickLag DEF RtcTick
  <2>2. queued \in Nat \cup {NoTicks} BY <1>1 DEF TypeInv
  <2>3. Lag' <= MaxLag BY <1>2, <2>1
  <2>4. queued' # NoTicks => queued' <= Lag' BY <1>2, <2>1, <2>2 DEF LagInv
  <2>5. QED BY <2>3, <2>4 DEF LagInv
<1>5. CASE (\E u \in {HIGH, LOW} : IrqCall(u)) \/ ThreadCall \/ ThreadStep
  BY <1>3, <1>5 DEF IrqCall, ThreadCall, ThreadStep, ThreadEnque, ThreadPend, rtcVars
<1>6. CASE RtcEnter BY <1>3, <1>6 DEF RtcEnter
<1>7. CASE RtcCheck
  <2>1. UNCHANGED <<counter, latest>> /\ Lag' = Lag BY <1>7 DEF RtcCheck, rtcVars, Lag, Diff
  <2>2. queued' = queued \/ queued' = ExpiredTicks(list, Lag) BY <1>7 DEF RtcCheck
  <2>3. ExpiredTicks(list, Lag) <= Lag BY <1>1, ExpiredTicksFacts
  <2>4. QED BY <2>1, <2>2, <2>3 DEF LagInv
<1>8. CASE SwiBegin
  <2>1. UNCHANGED counter /\ queued' = NoTicks BY <1>8, BeginNodes DEF SwiBegin, rtcVars
  <2>2. CASE queued = NoTicks
    <3>1. latest' = latest BY <1>8, <2>2, BeginNodes
    <3>2. Lag' = Lag BY <2>1, <3>1 DEF Lag, Diff
    <3>3. QED BY <2>1, <3>2 DEF LagInv
  <2>3. CASE queued # NoTicks
    <3> DEFINE b == latest + queued
    <3>1. queued \in Nat /\ latest' = b % CounterMod BY <1>8, <2>3, BeginNodes
    <3>2. queued <= Lag BY <2>3 DEF LagInv
    <3>3. queued \in Tick /\ b \in Int BY <1>2, <3>1, <3>2 DEF Tick
    <3>4. Diff(b, latest) = queued BY <1>2, <3>3, DiffSame
    <3> HIDE DEF b
    <3>5. Lag' = Diff(counter, b % CounterMod) BY <2>1, <3>1 DEF Lag, Diff
    <3>6. Diff(counter, b % CounterMod) = Diff(counter, b) BY <1>2, <3>3, DiffMod
    <3>7. Diff(counter, latest) >= Diff(b, latest) BY <1>2, <3>1, <3>2, <3>4 DEF Lag
    <3>8. Diff(counter, b) = Diff(counter, latest) - Diff(b, latest)
      BY <1>2, <3>3, <3>7, DiffVia
    <3>9. Lag' = Lag - queued BY <3>4, <3>5, <3>6, <3>8 DEF Lag
    <3>10. Lag' <= MaxLag BY <1>2, <3>1, <3>9 DEF LagInv
    <3>11. QED BY <2>1, <3>10 DEF LagInv
  <2>4. QED BY <2>2, <2>3
<1>9. CASE SwiRestart \/ (\E u \in User : SwiInsert(u)) \/ SwiCompare \/ SwiSetCompare
  BY <1>3, <1>9 DEF SwiRestart, SwiInsert, SwiCompare, SwiSetCompare, HandlerDone, rtcVars
<1>10. CASE UNCHANGED vars BY <1>3, <1>10 DEF vars, rtcVars
<1>11. QED BY <1>4, <1>5, <1>6, <1>7, <1>8, <1>9, <1>10 DEF Next, RtcStep, SwiStep

\* How far m_ticks_latest may fall behind for an expiry to tell past from future.
LagAssumption == MaxLag < Half /\ \A k \in Timeout : k + MaxLag < CounterMod

\* Expired timers have had their timeout.
LEMMA ExpiredInTime ==
  ASSUME LagAssumption, NodeInv, DeadlineInv, LagInv, NEW t \in ToSet(Expired(list, Lag))
  PROVE  Diff(counter, startAt[t]) >= interval[t]
<1> DEFINE d == Due(list, t)
           s == startAt[t]
           x == Diff(latest + d, s)
           k == Lag - d
<1>1. TypeInv BY DEF NodeInv
<1>2. counter \in Int /\ latest \in Int /\ Lag \in Nat /\ list \in Lists BY <1>1, LagTyped
<1>3. t \in Listed(list) /\ d <= Lag BY <1>2, AdvancedFacts
<1>4. t \in Timer /\ d \in Nat BY <1>2, <1>3, ListedAt
<1>5. s \in Int /\ interval[t] \in Nat BY <1>1, <1>4 DEF TypeInv, Tick
<1>6. x = interval[t] \/ (d = 0 /\ x > interval[t] /\ x <= CounterMod - Half)
  BY <1>3 DEF DeadlineInv
<1>7. interval[t] \in Timeout BY <1>3 DEF NodeInv, RestartInv
<1>8. MaxLag \in Nat /\ Lag <= MaxLag BY DEF LagInv
<1>9. latest + d \in Int BY <1>2, <1>4
<1>10. x \in Nat BY <1>5, <1>9, DiffIn
<1> HIDE DEF d, s, x
<1>11. k \in Nat /\ k <= Lag BY <1>2, <1>3, <1>4 DEF d
<1>12. x + k \in Tick
  <2>1. CASE x = interval[t]
    <3>1. interval[t] + MaxLag < CounterMod BY <1>7 DEF LagAssumption
    <3> HIDE DEF k
    <3>2. QED BY <1>2, <1>5, <1>8, <1>11, <2>1, <3>1 DEF Tick
  <2>2. CASE x <= CounterMod - Half
    <3> HIDE DEF k
    <3>1. QED BY <1>2, <1>8, <1>10, <1>11, <2>2, HalfFacts DEF Tick, LagAssumption
  <2>3. QED BY <1>6, <2>1, <2>2
<1>13. Diff((latest + d) + k, s) = x + k BY <1>5, <1>9, <1>11, <1>12, DiffPlus DEF x
<1>14. (latest + d) + k = latest + Lag + 0 BY <1>2, <1>4 DEF d
<1>15. Diff(latest + Lag + 0, s) = Diff(counter, s)
  <2>1. Diff(latest + Lag + 0, s) = Diff(counter + 0, s) BY <1>2, <1>5, DiffBack DEF Lag
  <2>2. counter + 0 = counter BY <1>2
  <2>3. QED BY <2>1, <2>2
<1>16. Diff(counter, s) = x + k BY <1>13, <1>14, <1>15
<1>17. x >= interval[t] BY <1>5, <1>6, <1>10
<1> HIDE DEF k
<1>18. QED BY <1>5, <1>10, <1>11, <1>16, <1>17 DEF s

LEMMA LagAlways ==
  ASSUME MaxLag < CounterMod
  PROVE  Spec => [](NodeInv /\ DeadlineInv /\ LagInv)
<1>1. Init => NodeInv /\ DeadlineInv /\ LagInv
  <2> SUFFICES ASSUME Init PROVE LagInv BY InitNodes
  <2>1. counter = latest /\ counter \in Int /\ queued = NoTicks BY DEF Init, Tick
  <2>2. Lag = 0 BY <2>1, DiffSame DEF Lag
  <2>3. QED BY <2>1, <2>2 DEF LagInv
<1>2. NodeInv /\ DeadlineInv /\ LagInv /\ [Next]_vars => (NodeInv /\ DeadlineInv /\ LagInv)'
  BY NextNodes, LagStep
<1>3. QED BY <1>1, <1>2, PTL DEF Spec

\* No handler is run early.
THEOREM HandlersInTime == LagAssumption => (Spec => NeverEarly)
<1> SUFFICES ASSUME LagAssumption PROVE Spec => NeverEarly OBVIOUS
<1>1. MaxLag < CounterMod BY HalfFacts DEF LagAssumption
<1> DEFINE P == low.pc = "rtc" /\ low'.pc = "idle" =>
                  \A t \in ToSet(Expired(list, Lag)) : Diff(counter, startAt[t]) >= interval[t]
<1>2. NodeInv /\ DeadlineInv /\ LagInv => P BY ExpiredInTime
<1>3. NodeInv /\ DeadlineInv /\ LagInv /\ [Next]_vars => [P]_vars BY <1>2
<1>4. Spec => [](NodeInv /\ DeadlineInv /\ LagInv) BY <1>1, LagAlways
<1> HIDE DEF P
<1>5. Spec => [][P]_vars BY <1>3, <1>4, PTL DEF Spec
<1>6. QED BY <1>5 DEF P, NeverEarly

-----------------------------------------------------------------------------
(* The compare register.                                                   *)

\* The settings under which the compare register keeps up: RTC_COMPARE_OFFSET_MIN is 3,
\* and neither a timeout nor the lag comes near the range of the counter.
ArmAssumption ==
  /\ CompareOffset >= 2 /\ MaxLag + CompareOffset < CounterMod
  /\ \A k \in Timeout : k <= CounterMod - Half

\* A COMPARE event is certain to come when due ticks from m_ticks_latest are over, or
\* within the offset after now.
Armed(due) ==
  /\ rtcOn /\ (sure \/ Diff(cc, counter) # 1)
  /\ Diff(cc, latest) > Lag
  /\ Diff(cc, latest) <= due \/ Diff(cc, counter) <= CompareOffset

\* What makes CompareArmed inductive: SWI0, which leaves the compare register alone when
\* the head of the list has not changed, relies on an event for the head it found.
ArmInv ==
  /\ cc \in Tick
  /\ queued # NoTicks => swiPend
  /\ low.pc \in {"insert", "compare"} => queued = NoTicks
  /\ \A t \in Listed(list) : Due(list, t) < CounterMod
  /\ low.pc = "idle" /\ ~IsEmptyList(list) /\ queued = NoTicks =>
       RtcReady \/ Armed(DueAt(list, 1))
  /\ low.pc = "insert" /\ ~low.update /\ low.midHead # None =>
       low.midHead \in Listed(list) /\ (RtcReady \/ Armed(Due(list, low.midHead)))
  /\ low.pc = "compare" => rtcOn /\ ~IsEmptyList(list) /\ Diff(low.pre, latest) <= Lag

LEMMA DiffZero ==
  ASSUME NEW a \in Tick, NEW b \in Tick, Diff(a, b) = 0
  PROVE  a = b
<1>1. a \in Int /\ b \in Int /\ b + 0 = b /\ 0 \in Tick /\ a + 0 = a BY DEF Tick
<1>2. CASE a >= b
  <2> DEFINE d == a - b
  <2>1. d \in 0..CounterMod - 1 BY <1>1, <1>2 DEF Tick
  <2>2. d % CounterMod = d
    <3> HIDE DEF d
    <3>1. QED BY <2>1, ModSmall
  <2>3. d = 0 BY <2>2 DEF Diff
  <2>4. QED BY <1>1, <2>3
<1>3. CASE a < b
  <2> DEFINE d == b - a
  <2>1. d \in 0..CounterMod - 1 BY <1>1, <1>3 DEF Tick
  <2>2. Diff(b, a) = d
    <3>1. d % CounterMod = d
      <4> HIDE DEF d
      <4>1. QED BY <2>1, ModSmall
    <3>2. QED BY <3>1 DEF Diff
  <2>3. Diff(a, b) # 0
    <3>1. d # 0 BY <1>1, <1>3
    <3>2. Diff(b, a) # 0 BY <2>2, <3>1
    <3>3. Diff(a, b) = CounterMod - Diff(b, a) BY <1>1, <3>2, DiffTurn
    <3>4. d < CounterMod BY <2>1
    <3> HIDE DEF d
    <3>5. QED BY <2>1, <2>2, <3>3, <3>4
  <2>4. QED BY <2>3
<1>4. QED BY <1>1, <1>2, <1>3

\* A tick brings the event, or leaves it certain to come.
LEMMA TickArmed ==
  ASSUME TypeInv, cc \in Tick, RtcTick, Lag' = Lag + 1, NEW due \in Nat,
         RtcReady \/ Armed(due)
  PROVE  RtcReady' \/ Armed(due)'
<1>1. /\ UNCHANGED <<cc, latest, rtcOn, rtcPend>> /\ sure' /\ rtcOn
      /\ counter' = (counter + 1) % CounterMod
      /\ event' \in IF counter' # cc THEN {event} ELSE IF sure THEN {TRUE} ELSE {TRUE, event}
  BY DEF RtcTick
<1>2. CASE RtcReady
  <2>1. event' = event \/ event' = TRUE BY <1>1
  <2>2. QED BY <1>1, <1>2, <2>1 DEF RtcReady
<1>3. CASE ~RtcReady
  <2> DEFINE x == Diff(cc, latest)
             y == Diff(cc, counter)
             g == Lag
  <2>1. cc \in Int /\ counter \in Int /\ latest \in Int /\ g \in Nat BY LagTyped DEF Tick
  <2>2. /\ x \in Nat /\ x > g /\ (x <= due \/ y <= CompareOffset) /\ (sure \/ y # 1)
    BY <1>3, <2>1, DiffIn DEF Armed
  <2>3. y = x - g
    <3>1. Diff(cc, latest) >= Diff(counter, latest) BY <2>1, <2>2 DEF Lag
    <3>2. QED BY <2>1, <3>1, DiffVia DEF Lag
  <2>4. counter' \in Tick
    <3>1. counter + 1 \in Int BY <2>1
    <3>2. QED BY <1>1, <3>1, ModRange DEF Tick
  <2>5. counter' \in Int BY <2>4 DEF Tick
  <2>6. x >= Lag' BY <2>1, <2>2
  <2>7. Diff(cc, counter') = x - g - 1
    <3>1. Lag' = Diff(counter', latest) BY <1>1 DEF Lag, Diff
    <3>2. Diff(cc, counter') = Diff(cc, latest) - Diff(counter', latest)
      BY <2>1, <2>5, <2>6, <3>1, DiffVia
    <3> HIDE DEF x, g
    <3>3. Lag' = g + 1 BY DEF g
    <3>4. QED BY <2>1, <2>2, <3>1, <3>2, <3>3 DEF x
  <2>8. Diff(cc, latest)' = x /\ Diff(cc, counter)' = Diff(cc, counter') BY <1>1 DEF Diff
  <2>9. CASE counter' = cc
    <3>1. Diff(cc, counter') = 0 BY <2>1, <2>9, DiffSame
    <3> HIDE DEF x, y, g
    <3>2. y = 1 BY <2>1, <2>2, <2>3, <2>7, <3>1
    <3>3. event' BY <1>1, <2>2, <2>9, <3>2
    <3>4. QED BY <1>1, <3>3 DEF RtcReady
  <2>10. CASE counter' # cc
    <3>1. Diff(cc, counter') # 0 BY <2>4, <2>10, DiffZero
    <3> HIDE DEF x, y, g
    <3>2. x > g + 1 BY <2>1, <2>2, <2>7, <3>1
    <3>3. x <= due \/ Diff(cc, counter') <= CompareOffset BY <2>1, <2>2, <2>3, <2>7
    <3>4. Lag' = g + 1 BY DEF g
    <3>5. QED BY <1>1, <2>8, <3>2, <3>3, <3>4 DEF Armed
  <2>11. QED BY <2>9, <2>10
<1>4. QED BY <1>2, <1>3

\* What CC[0] is set to.
LEMMA SetArmed ==
  ASSUME ArmAssumption, TypeInv, SwiSetCompare, Lag <= MaxLag, rtcOn,
         NEW due \in Nat, due = DueAt(list, 1), due < CounterMod,
         Diff(low.pre, latest) <= Lag
  PROVE  cc' \in Tick /\ (RtcReady' \/ Armed(due)')
<1> DEFINE P == Diff(low.pre, latest)
           g == Lag
           elapsed == P + CompareOffset
           d == IF elapsed < due THEN due ELSE elapsed
           b == latest + d
           next == b % CounterMod
<1>1. /\ cc' = next /\ sure' = (Diff(next, counter) > 1) /\ rtcOn' = rtcOn
      /\ rtcPend' = (rtcPend \/ MayMiss(next)) /\ UNCHANGED <<counter, latest>>
  BY DEF SwiSetCompare
<1>2. counter \in Int /\ latest \in Int /\ low.pre \in Int /\ g \in Nat
  BY LagTyped DEF TypeInv, Tick
<1>3. P \in Nat /\ P <= g BY <1>2, DiffIn
<1>4. CompareOffset >= 2 /\ MaxLag + CompareOffset < CounterMod BY DEF ArmAssumption
<1> HIDE DEF P, g
<1>5. d \in Tick /\ d \in Nat /\ d >= P /\ (d = due \/ d = P + CompareOffset) /\ d >= due
  <2>1. P + CompareOffset < CounterMod /\ g <= MaxLag BY <1>2, <1>3, <1>4 DEF g
  <2>2. QED BY <1>3, <1>4, <2>1 DEF Tick
<1> HIDE DEF d
<1>6. b \in Int BY <1>2, <1>5
<1>7. next \in Tick /\ next \in Int
  <2> HIDE DEF b
  <2>1. QED BY <1>6, ModRange DEF Tick
<1>8. Diff(next, latest) = d
  <2>1. Diff(b, latest) = d BY <1>2, <1>5, DiffSame
  <2> HIDE DEF b
  <2>2. QED BY <1>2, <1>6, <2>1, DiffMod
<1> HIDE DEF next
<1>9. cc' \in Tick BY <1>1, <1>7
<1>10. CASE MayMiss(next) BY <1>1, <1>9, <1>10 DEF RtcReady
<1>11. CASE ~MayMiss(next)
  <2>1. Diff(counter, low.pre) = g - P BY <1>2, <1>3, DiffVia DEF P, g, Lag
  <2>2. Diff(next, low.pre) = d - P BY <1>2, <1>5, <1>7, <1>8, DiffVia DEF P
  <2>3. ~(Diff(counter, low.pre) + CompareOffset > Diff(next, low.pre)) BY <1>11 DEF MayMiss
  <2>4. d >= g + CompareOffset BY <1>2, <1>3, <1>4, <1>5, <2>1, <2>2, <2>3
  <2>5. Diff(next, counter) = d - g
    <3>1. Diff(next, latest) >= Diff(counter, latest) BY <1>2, <1>4, <1>5, <1>8, <2>4 DEF g, Lag
    <3>2. QED BY <1>2, <1>7, <1>8, <3>1, DiffVia DEF g, Lag
  <2>6. Diff(next, counter) > 1 BY <1>2, <1>4, <1>5, <2>4, <2>5
  <2>7. d > g BY <1>2, <1>4, <1>5, <2>4
  <2>8. d <= due \/ Diff(next, counter) <= CompareOffset BY <1>2, <1>3, <1>4, <1>5, <2>5
  <2>9. Diff(cc, latest)' = d /\ Diff(cc, counter)' = Diff(next, counter) /\ Lag' = g
    BY <1>1, <1>8 DEF Diff, Lag, g
  <2>10. QED BY <1>1, <1>9, <2>6, <2>7, <2>8, <2>9 DEF Armed
<1>12. QED BY <1>10, <1>11

LEMMA HeadDue ==
  ASSUME TypeInv, ArmInv, ~IsEmptyList(list)
  PROVE  DueAt(list, 1) \in Nat /\ DueAt(list, 1) < CounterMod
<1>1. list \in Lists BY LagTyped
<1>2. HeadOf(list) \in Listed(list) /\ Due(list, HeadOf(list)) = DueAt(list, 1)
  BY <1>1, HeadTyped
<1>3. Due(list, HeadOf(list)) \in Nat BY <1>1, <1>2, ListedAt
<1>4. QED BY <1>2, <1>3 DEF ArmInv

\* Steps that leave the timers, the compare register and the handler alone.
LEMMA ArmKept ==
  ASSUME ArmInv,
         UNCHANGED <<cc, counter, latest, sure, event, rtcOn, rtcPend, low, list, queued>>,
         swiPend => swiPend'
  PROVE  ArmInv'
BY DEF ArmInv, Armed, RtcReady, Lag, Diff

LEMMA ArmCalls ==
  ASSUME ArmInv, (\E u \in {HIGH, LOW} : IrqCall(u)) \/ ThreadCall \/ ThreadStep
  PROVE  ArmInv'
BY ArmKept DEF IrqCall, ThreadCall, ThreadStep, ThreadEnque, ThreadPend, nodeVars, rtcVars

LEMMA ArmTick ==
  ASSUME MaxLag < CounterMod, TypeInv, LagInv, ArmInv, RtcTick
  PROVE  ArmInv'
<1>1. Lag' = Lag + 1 /\ Lag \in Nat BY TickLag, LagTyped
<1>2. UNCHANGED <<cc, rtcOn, swiPend, low, list, latest, queued>> BY DEF RtcTick, nodeVars
<1>3. cc \in Tick /\ list \in Lists BY LagTyped DEF ArmInv
<1>4. low.pc = "idle" /\ ~IsEmptyList(list) /\ queued = NoTicks =>
        RtcReady' \/ Armed(DueAt(list, 1))'
  <2> SUFFICES ASSUME low.pc = "idle", ~IsEmptyList(list), queued = NoTicks
               PROVE  RtcReady' \/ Armed(DueAt(list, 1))'
    OBVIOUS
  <2> DEFINE due == DueAt(list, 1)
  <2>1. due \in Nat /\ due' = due BY <1>2, HeadDue
  <2>2. RtcReady \/ Armed(due) BY DEF ArmInv
  <2> HIDE DEF due
  <2>3. RtcReady' \/ Armed(due)' BY <1>1, <1>3, <2>1, <2>2, TickArmed DEF Armed
  <2>4. QED BY <2>3 DEF due
<1>5. low.pc = "insert" /\ ~low.update /\ low.midHead # None =>
        RtcReady' \/ Armed(Due(list, low.midHead))'
  <2> SUFFICES ASSUME low.pc = "insert", ~low.update, low.midHead # None
               PROVE  RtcReady' \/ Armed(Due(list, low.midHead))'
    OBVIOUS
  <2> DEFINE due == Due(list, low.midHead)
  <2>1. low.midHead \in Listed(list) /\ (RtcReady \/ Armed(due)) BY DEF ArmInv
  <2>2. due \in Nat /\ due' = due BY <1>2, <1>3, <2>1, ListedAt
  <2> HIDE DEF due
  <2>3. RtcReady' \/ Armed(due)' BY <1>1, <1>3, <2>1, <2>2, TickArmed DEF Armed
  <2>4. QED BY <2>3 DEF due
<1>6. low.pc = "compare" => Diff(low.pre, latest) <= Lag'
  <2>1. low.pre \in Int /\ latest \in Int BY LagTyped DEF TypeInv, Tick
  <2>2. Diff(low.pre, latest) \in Nat BY <2>1, DiffIn
  <2>3. QED BY <1>1, <2>2 DEF ArmInv
<1>7. QED BY <1>2, <1>3, <1>4, <1>5, <1>6 DEF ArmInv, Diff

LEMMA ArmRtc ==
  ASSUME TypeInv, ArmInv, RtcStep
  PROVE  ArmInv'
<1>1. CASE RtcEnter
  <2>1. /\ low \in [pc : LowPc, update : BOOLEAN, oldHead : Timer \cup {None},
                    midHead : Timer \cup {None}, restart : Seq(Timer), pre : Tick]
        /\ low' = [low EXCEPT !.pc = "rtc"] /\ UNCHANGED <<cc, swiPend, list, queued>>
    BY <1>1 DEF RtcEnter, TypeInv, nodeVars
  <2>2. low'.pc = "rtc" BY <2>1
  <2>3. QED BY <2>1, <2>2 DEF ArmInv
<1>2. CASE RtcCheck
  <2>1. /\ low'.pc = "idle" /\ UNCHANGED <<cc, list>>
        /\ \/ IsEmptyList(list) /\ UNCHANGED <<queued, swiPend>>
           \/ queued' = ExpiredTicks(list, Lag) /\ swiPend'
    BY <1>2, IdleTyped DEF RtcCheck, HandlerDone, rtcVars
  <2>2. ExpiredTicks(list, Lag) # NoTicks BY ExpiredTicksFacts DEF NoTicks
  <2>3. QED BY <2>1, <2>2 DEF ArmInv
<1>3. QED BY <1>1, <1>2 DEF RtcStep

LEMMA ArmBegin ==
  ASSUME NodeInv, ArmInv, SwiBegin
  PROVE  ArmInv'
<1>1. TypeInv /\ TypeInv' BY BeginNodes DEF NodeInv
<1>2. list \in Lists /\ list' \in Lists BY <1>1 DEF TypeInv
<1>3. /\ queued' = NoTicks /\ low'.pc = "insert" /\ Listed(list') \subseteq Listed(list)
      /\ queued = NoTicks => /\ latest' = latest
                             /\ \A t \in Listed(list') : Due(list', t) = Due(list, t)
      /\ queued # NoTicks => /\ queued \in Nat
                             /\ \A t \in Listed(list') : Due(list', t) = Due(list, t) - queued
      /\ low'.update = FALSE =>
           queued = NoTicks /\ HeadOf(list) = HeadOf(list') /\ low'.midHead = HeadOf(list')
  BY BeginNodes
<1>4. UNCHANGED <<counter, cc, sure, event, rtcOn, rtcPend>> /\ low.pc = "idle" /\ ~RtcReady
  BY DEF SwiBegin, rtcVars
<1>5. \A t \in Listed(list') : Due(list', t) < CounterMod
  <2> SUFFICES ASSUME NEW t \in Listed(list') PROVE Due(list', t) < CounterMod OBVIOUS
  <2>1. t \in Listed(list) /\ Due(list, t) < CounterMod /\ Due(list, t) \in Nat
    BY <1>2, <1>3, ListedAt DEF ArmInv
  <2>2. CASE queued = NoTicks BY <1>3, <2>1, <2>2
  <2>3. CASE queued # NoTicks BY <1>3, <2>1, <2>3
  <2>4. QED BY <2>2, <2>3
<1>6. ASSUME ~low'.update, low'.midHead # None
      PROVE  low'.midHead \in Listed(list') /\ (RtcReady' \/ Armed(Due(list, low.midHead))')
  <2> DEFINE h == HeadOf(list)
  <2>1. low'.update \in BOOLEAN BY <1>1 DEF TypeInv
  <2>2. queued = NoTicks /\ h = HeadOf(list') /\ low'.midHead = h /\ latest' = latest
    BY <1>3, <1>6, <2>1
  <2>3. ~IsEmptyList(list) /\ ~IsEmptyList(list') BY <1>2, <1>6, <2>2, HeadTyped
  <2>4. h \in Listed(list') /\ Due(list, h) = DueAt(list, 1) BY <1>2, <2>2, <2>3, HeadTyped
  <2>5. Armed(Due(list, h)) BY <1>4, <2>2, <2>3, <2>4 DEF ArmInv
  <2>6. Due(list, low.midHead)' = Due(list, h) BY <1>3, <2>2, <2>4
  <2>7. QED BY <1>4, <2>2, <2>4, <2>5, <2>6 DEF Armed, Lag, Diff
<1>7. QED BY <1>3, <1>4, <1>5, <1>6 DEF ArmInv

\* What an insertion does to the times of expiry.
LEMMA InsertDue ==
  ASSUME ArmAssumption, NodeInv, ArmInv, NEW t \in Timer, t \notin Listed(list), NEW at \in Tick,
         NEW timeout \in Timeout, Insert(t, at, timeout)
  PROVE  \A u \in Listed(list') : Due(list', u) < CounterMod
<1>1. TypeInv BY DEF NodeInv
<1>2. /\ Listed(list') = Listed(list) \cup {t} /\ TicksToExpire(at, timeout) \in Nat
      /\ Due(list', t) = TicksToExpire(at, timeout)
      /\ \A u \in Listed(list) : Due(list', u) = Due(list, u)
  BY <1>1, InsertNode
<1> DEFINE e == TicksToExpire(at, timeout)
<1>3. e < Half + timeout \/ e <= timeout BY <1>1, Constants, TicksFacts DEF TypeInv
<1>4. timeout \in Nat /\ timeout < CounterMod /\ timeout <= CounterMod - Half
  BY DEF ArmAssumption
<1> HIDE DEF e
<1>5. e < CounterMod BY <1>2, <1>3, <1>4, HalfFacts DEF e
<1>6. QED BY <1>2, <1>5 DEF ArmInv, e

LEMMA ArmInsert ==
  ASSUME ArmAssumption, NodeInv, DeadlineInv, ArmInv, SwiRestart \/ \E u \in User : SwiInsert(u)
  PROVE  ArmInv'
<1>1. TypeInv /\ RestartInv BY DEF NodeInv
<1>2. /\ UNCHANGED <<counter, cc, sure, event, rtcOn, rtcPend, latest, queued, swiPend>>
      /\ low.pc = "insert"
  BY DEF SwiRestart, SwiInsert, rtcVars
<1>3. low'.pc = low.pc /\ low'.update = low.update /\ low'.midHead = low.midHead
  <2>1. low \in [pc : LowPc, update : BOOLEAN, oldHead : Timer \cup {None},
                 midHead : Timer \cup {None}, restart : Seq(Timer), pre : Tick]
    BY <1>1 DEF TypeInv
  <2>2. low' = low \/ low' = [low EXCEPT !.restart = Tail(@)] BY DEF SwiRestart, SwiInsert
  <2>3. QED BY <2>1, <2>2
<1>4. CASE list' = list BY <1>2, <1>3, <1>4 DEF ArmInv, Armed, RtcReady, Lag, Diff
<1>5. ASSUME NEW t \in Timer, t \notin Listed(list), NEW at \in Tick, NEW timeout \in Timeout,
             Insert(t, at, timeout)
      PROVE  ArmInv'
  <2>1. \A u \in Listed(list') : Due(list', u) < CounterMod BY <1>5, InsertDue
  <2>2. /\ Listed(list') = Listed(list) \cup {t}
        /\ \A u \in Listed(list) : Due(list', u) = Due(list, u)
    BY <1>1, <1>5, InsertNode
  <2>3. low.midHead \in Listed(list) =>
          Due(list, low.midHead)' = Due(list, low.midHead) /\ low.midHead \in Listed(list')
    BY <1>3, <2>2
  <2>4. QED BY <1>2, <1>3, <2>1, <2>3 DEF ArmInv, Armed, RtcReady, Lag, Diff
<1>6. CASE SwiRestart
  <2> DEFINE t == Head(low.restart)
             at == startAt[t]
             timeout == interval[t]
  <2>1. low.restart \in Seq(Timer) /\ low.restart # <<>> BY <1>1, <1>6 DEF TypeInv, SwiRestart
  <2>2. t \in ToSet(low.restart) /\ t \in Timer BY <2>1, TailFacts
  <2>3. t \notin Listed(list) /\ timeout \in Timeout BY <1>1, <2>2 DEF RestartInv
  <2>4. at \in Tick BY <1>1, <2>2 DEF TypeInv
  <2>5. Insert(t, at, timeout) BY <1>6 DEF SwiRestart
  <2> HIDE DEF t, at, timeout
  <2>6. QED BY <1>5, <2>2, <2>3, <2>4, <2>5
<1>7. ASSUME NEW u \in User, SwiInsert(u) PROVE ArmInv'
  <2> DEFINE op == Head(ops[u])
  <2>1. op \in Ops
    <3>1. ops[u] \in Seq(Ops) /\ ops[u] # <<>> BY <1>1, <1>7 DEF TypeInv, SwiInsert
    <3>2. QED BY <3>1, TailFacts
  <2>2. CASE Starts(op)
    <3>1. Insert(op.timer, op.at, op.timeout) BY <1>7, <2>2 DEF SwiInsert
    <3>2. op.timer \in Timer /\ op.at \in Tick /\ op.timeout \in Timeout
      BY <2>1, <2>2 DEF Starts, Ops
    <3>3. op.timer \notin Listed(list) BY <2>2 DEF Starts, NodeInv
    <3> HIDE DEF op
    <3>4. QED BY <1>5, <3>1, <3>2, <3>3
  <2>3. CASE ~Starts(op) BY <1>4, <1>7, <2>3 DEF SwiInsert, nodeVars
  <2>4. QED BY <2>2, <2>3
<1>8. QED BY <1>6, <1>7

LEMMA ArmCompare ==
  ASSUME ArmAssumption, TypeInv, LagInv, ArmInv, SwiCompare \/ SwiSetCompare
  PROVE  ArmInv'
<1>1. UNCHANGED <<counter, list, latest, queued, swiPend>> /\ list \in Lists
  BY LagTyped DEF SwiCompare, SwiSetCompare, nodeVars, rtcVars
<1>2. CASE SwiCompare
  <2>1. low.pc = "insert" /\ queued = NoTicks BY <1>2 DEF SwiCompare, ArmInv
  <2>2. CASE ~low.update /\ HeadOf(list) = low.midHead
    <3>1. low'.pc = "idle" /\ UNCHANGED rtcVars
      BY <1>2, <2>2, IdleTyped DEF SwiCompare, HandlerDone
    <3>2. ~IsEmptyList(list) => RtcReady \/ Armed(DueAt(list, 1))
      BY <1>1, <2>1, <2>2, HeadTyped DEF ArmInv
    <3>3. QED BY <1>1, <2>1, <3>1, <3>2 DEF ArmInv, Armed, RtcReady, Lag, Diff, rtcVars
  <2>3. CASE (low.update \/ HeadOf(list) # low.midHead) /\ IsEmptyList(list)
    <3>1. low'.pc = "idle" /\ UNCHANGED cc
      BY <1>2, <2>3, IdleTyped DEF SwiCompare, HandlerDone
    <3>2. QED BY <1>1, <2>1, <2>3, <3>1 DEF ArmInv
  <2>4. CASE (low.update \/ HeadOf(list) # low.midHead) /\ ~IsEmptyList(list)
    <3>1. /\ low' = [IdleLow EXCEPT !.pc = "compare", !.pre = counter]
          /\ rtcOn' = TRUE /\ UNCHANGED cc
      BY <1>2, <2>4 DEF SwiCompare
    <3>2. low'.pc = "compare" /\ low'.pre = counter BY <3>1 DEF IdleLow
    <3>3. Diff(counter, latest)' <= Lag' BY <1>1, LagTyped DEF Lag, Diff
    <3>4. QED BY <1>1, <2>1, <2>4, <3>1, <3>2, <3>3 DEF ArmInv, Diff
  <2>5. QED BY <2>2, <2>3, <2>4
<1>3. CASE SwiSetCompare
  <2>1. low.pc = "compare" /\ low'.pc = "idle" BY <1>3, IdleTyped DEF SwiSetCompare, HandlerDone
  <2>2. rtcOn /\ ~IsEmptyList(list) /\ Diff(low.pre, latest) <= Lag BY <2>1 DEF ArmInv
  <2> DEFINE due == DueAt(list, 1)
  <2>3. due \in Nat /\ due < CounterMod /\ due' = due BY <1>1, <2>2, HeadDue
  <2>4. due = DueAt(list, 1) OBVIOUS
  <2> HIDE DEF due
  <2>5. cc' \in Tick /\ (RtcReady' \/ Armed(due)')
    BY <1>3, <2>2, <2>3, <2>4, SetArmed DEF LagInv, Armed
  <2>6. QED BY <1>1, <2>1, <2>5 DEF ArmInv, due
<1>4. QED BY <1>2, <1>3

LEMMA ArmStep ==
  ASSUME ArmAssumption
  PROVE  NodeInv /\ DeadlineInv /\ LagInv /\ ArmInv /\ [Next]_vars => ArmInv'
<1> SUFFICES ASSUME NodeInv, DeadlineInv, LagInv, ArmInv, [Next]_vars PROVE ArmInv' OBVIOUS
<1>1. TypeInv BY DEF NodeInv
<1>2. MaxLag < CounterMod BY DEF ArmAssumption
<1>3. CASE RtcTick BY <1>1, <1>2, <1>3, ArmTick
<1>4. CASE (\E u \in {HIGH, LOW} : IrqCall(u)) \/ ThreadCall \/ ThreadStep BY <1>4, ArmCalls
<1>5. CASE RtcStep BY <1>1, <1>5, ArmRtc
<1>6. CASE SwiBegin BY <1>6, ArmBegin
<1>7. CASE SwiRestart \/ \E u \in User : SwiInsert(u) BY <1>7, ArmInsert
<1>8. CASE SwiCompare \/ SwiSetCompare BY <1>1, <1>8, ArmCompare
<1>9. CASE UNCHANGED vars BY <1>9, ArmKept DEF vars, rtcVars, nodeVars
<1>10. QED BY <1>3, <1>4, <1>5, <1>6, <1>7, <1>8, <1>9 DEF Next, SwiStep

\* While timers run and nothing is pending, a COMPARE event is certain to come in time
\* (compare_reg_update, compare_reg_set).
THEOREM CompareRight == ArmAssumption => (Spec => []CompareArmed)
<1> SUFFICES ASSUME ArmAssumption PROVE Spec => []CompareArmed OBVIOUS
<1>1. MaxLag < CounterMod BY DEF ArmAssumption
<1>2. Init => ArmInv
  <2> SUFFICES ASSUME Init PROVE ArmInv OBVIOUS
  <2>1. list.order = <<>> /\ low = IdleLow /\ cc = 0 /\ queued = NoTicks BY DEF Init
  <2>2. Listed(list) = {} /\ IsEmptyList(list) BY <2>1 DEF Listed, ToSet, IsEmptyList
  <2>3. QED BY <2>1, <2>2, IdleTyped, Constants DEF ArmInv
<1>3. ArmInv => CompareArmed BY DEF ArmInv, CompareArmed, Armed
<1>4. Spec => [](NodeInv /\ DeadlineInv /\ LagInv) BY <1>1, LagAlways
<1>5. NodeInv /\ DeadlineInv /\ LagInv /\ ArmInv /\ [Next]_vars => ArmInv' BY ArmStep
<1>6. QED BY <1>2, <1>3, <1>4, <1>5, PTL DEF Spec

-----------------------------------------------------------------------------
(* The queues.                                                             *)

\* Which fields the records of the two handlers and of the thread's call have;
\* their contents do not matter to the queues.
Shapes == /\ DOMAIN ops = User
          /\ "pc" \in DOMAIN low /\ low.pc \in LowPc
          /\ "pc" \in DOMAIN call /\ call.pc \in CallPc

IInv == Shapes /\ OpsAnnounced

LEMMA InitIInv == Init => IInv
BY DEF Init, IInv, Shapes, OpsAnnounced, IdleLow, IdleCall, LowPc, CallPc

\* A call from an interrupt handler pends SWI0.
LEMMA IrqCallIInv ==
  ASSUME IInv, NEW u \in User, IrqCall(u)
  PROVE  IInv'
<1>1. PICK op \in Op(u) : Enque(u, op) BY DEF IrqCall
<1>2. DOMAIN ops' = User BY <1>1 DEF Enque, IInv, Shapes
<1>3. UNCHANGED <<low, call>> /\ swiPend' = TRUE BY DEF IrqCall
<1>4. Shapes' BY <1>2, <1>3 DEF IInv, Shapes
<1>5. OpsAnnounced' BY <1>3 DEF OpsAnnounced
<1>6. QED BY <1>4, <1>5 DEF IInv

\* The thread makes its operation visible only in the step before it pends SWI0.
LEMMA ThreadIInv ==
  ASSUME IInv, ThreadCall \/ ThreadEnque \/ ThreadPend
  PROVE  IInv'
<1>1. CASE ThreadCall
  <2>1. PICK op \in Op(THREAD) : call' = [pc |-> "enque", op |-> op] BY <1>1 DEF ThreadCall
  <2>2. UNCHANGED <<ops, low, swiPend>> /\ call.pc = "idle" BY <1>1 DEF ThreadCall
  <2>3. Shapes' BY <2>1, <2>2 DEF IInv, Shapes, CallPc
  <2>4. OpsAnnounced' BY <2>1, <2>2 DEF IInv, OpsAnnounced
  <2>5. QED BY <2>3, <2>4 DEF IInv
<1>2. CASE ThreadEnque
  <2>1. DOMAIN ops' = User BY <1>2 DEF ThreadEnque, Enque, IInv, Shapes
  <2>2. "pc" \in DOMAIN call' /\ call'.pc = "pend" BY <1>2 DEF ThreadEnque, IInv, Shapes
  <2>3. UNCHANGED low BY <1>2 DEF ThreadEnque
  <2>4. Shapes' BY <2>1, <2>2, <2>3 DEF IInv, Shapes, CallPc
  <2>5. OpsAnnounced' BY <2>2 DEF OpsAnnounced
  <2>6. QED BY <2>4, <2>5 DEF IInv
<1>3. CASE ThreadPend
  <2>1. UNCHANGED <<ops, low>> /\ call' = IdleCall /\ swiPend' = TRUE BY <1>3 DEF ThreadPend
  <2>2. Shapes' BY <2>1 DEF IInv, Shapes, IdleCall, CallPc
  <2>3. OpsAnnounced' BY <2>1 DEF OpsAnnounced
  <2>4. QED BY <2>2, <2>3 DEF IInv
<1>4. QED BY <1>1, <1>2, <1>3

\* RTC1 runs only while SWI0 is not at work, so it cannot take the place of the
\* handler that will read the queues.
LEMMA RtcIInv ==
  ASSUME IInv, RtcStep
  PROVE  IInv'
<1>1. CASE RtcEnter
  <2>1. UNCHANGED <<ops, call, swiPend>> /\ low.pc = "idle" BY <1>1 DEF RtcEnter
  <2>2. "pc" \in DOMAIN low' /\ low'.pc = "rtc" BY <1>1 DEF RtcEnter, IInv, Shapes
  <2>3. Shapes' BY <2>1, <2>2 DEF IInv, Shapes, LowPc
  <2>4. OpsAnnounced' BY <2>1 DEF IInv, OpsAnnounced
  <2>5. QED BY <2>3, <2>4 DEF IInv
<1>2. CASE RtcCheck
  <2>1. UNCHANGED <<ops, call>> /\ low.pc = "rtc" /\ low' = IdleLow
    BY <1>2 DEF RtcCheck, HandlerDone
  <2>2. swiPend' = TRUE \/ UNCHANGED swiPend BY <1>2 DEF RtcCheck
  <2>3. Shapes' BY <2>1 DEF IInv, Shapes, IdleLow, LowPc
  <2>4. OpsAnnounced' BY <2>1, <2>2 DEF IInv, OpsAnnounced
  <2>5. QED BY <2>3, <2>4 DEF IInv
<1>3. QED BY <1>1, <1>2 DEF RtcStep

\* SWI0 leaves its loop only with every queue empty; what is appended later has
\* pended it again.
LEMMA SwiIInv ==
  ASSUME IInv, SwiStep
  PROVE  IInv'
<1>1. CASE SwiBegin
  <2>1. UNCHANGED <<ops, call>> BY <1>1 DEF SwiBegin
  <2>2. "pc" \in DOMAIN low' /\ low'.pc = "insert" BY <1>1 DEF SwiBegin
  <2>3. QED BY <2>1, <2>2 DEF IInv, Shapes, OpsAnnounced, LowPc
<1>2. CASE SwiRestart
  <2>1. UNCHANGED <<ops, call>> /\ low.pc = "insert" BY <1>2 DEF SwiRestart
  <2>2. "pc" \in DOMAIN low' /\ low'.pc = "insert"
    BY <1>2, <2>1 DEF SwiRestart, IInv, Shapes
  <2>3. QED BY <2>1, <2>2 DEF IInv, Shapes, OpsAnnounced, LowPc
<1>3. CASE \E u \in User : SwiInsert(u)
  <2>1. PICK u \in User : SwiInsert(u) BY <1>3
  <2>2. UNCHANGED <<call, low>> /\ low.pc = "insert" BY <2>1 DEF SwiInsert
  <2>3. DOMAIN ops' = User BY <2>1 DEF SwiInsert, IInv, Shapes
  <2>4. QED BY <2>2, <2>3 DEF IInv, Shapes, OpsAnnounced
<1>4. CASE SwiCompare
  <2>1. UNCHANGED <<ops, call>> /\ \A u \in User : ops[u] = <<>> BY <1>4 DEF SwiCompare
  <2> DEFINE Compare == [IdleLow EXCEPT !.pc = "compare", !.pre = counter]
  <2>2. low' = IdleLow \/ low' = Compare BY <1>4 DEF SwiCompare, HandlerDone
  <2>3. "pc" \in DOMAIN IdleLow /\ IdleLow.pc \in LowPc BY DEF IdleLow, LowPc
  <2>4. "pc" \in DOMAIN Compare /\ Compare.pc = "compare" BY <2>3
  <2>5. "pc" \in DOMAIN low' /\ low'.pc \in LowPc BY <2>2, <2>3, <2>4 DEF LowPc
  <2>6. QED BY <2>1, <2>5 DEF IInv, Shapes, OpsAnnounced
<1>5. CASE SwiSetCompare
  <2>1. UNCHANGED <<ops, call, swiPend>> /\ low.pc = "compare" /\ low' = IdleLow
    BY <1>5 DEF SwiSetCompare, HandlerDone
  <2>2. QED BY <2>1 DEF IInv, Shapes, OpsAnnounced, IdleLow, LowPc
<1>6. QED BY <1>1, <1>2, <1>3, <1>4, <1>5 DEF SwiStep

LEMMA NextIInv == IInv /\ [Next]_vars => IInv'
<1> SUFFICES ASSUME IInv, [Next]_vars PROVE IInv'
  OBVIOUS
<1>1. CASE UNCHANGED <<ops, call, low, swiPend>>
  BY <1>1 DEF IInv, Shapes, OpsAnnounced
<1>2. CASE RtcTick BY <1>1, <1>2 DEF RtcTick
<1>3. CASE \E u \in {HIGH, LOW} : IrqCall(u) BY <1>3, IrqCallIInv DEF User
<1>4. CASE ThreadCall \/ ThreadStep BY <1>4, ThreadIInv DEF ThreadStep
<1>5. CASE RtcStep BY <1>5, RtcIInv
<1>6. CASE SwiStep BY <1>6, SwiIInv
<1>7. CASE UNCHANGED vars BY <1>1, <1>7 DEF vars
<1>8. QED BY <1>2, <1>3, <1>4, <1>5, <1>6, <1>7 DEF Next

\* No operation that app_timer_start or app_timer_stop has accepted waits in a
\* queue without SWI0 pending or about to be (timer_start_op_schedule,
\* timer_stop_op_schedule, timer_list_handler), whatever interrupts whom.
THEOREM NoOpStranded == Spec => []OpsAnnounced
<1>1. Init => IInv BY InitIInv
<1>2. IInv /\ [Next]_vars => IInv' BY NextIInv
<1>3. IInv => OpsAnnounced BY DEF IInv
<1>4. QED BY <1>1, <1>2, <1>3, PTL DEF Spec
=============================================================================
