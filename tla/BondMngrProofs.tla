--------------------------- MODULE BondMngrProofs ---------------------------
(***************************************************************************)
(* Proofs about ble_bondmngr.c, for every number of peers, masters and     *)
(* records, with the chip reset only while the bond manager has nothing to *)
(* do and no master is connected.                                          *)
(*                                                                         *)
(* The invariant compares three things: the database, the counts and CRCs  *)
(* of the pages kept in RAM, and the pages.  The CRC kept in RAM is the    *)
(* sequence of the records it covers, so that it tells what a page holds   *)
(* once the flash operations queued by the last call are done (JobInv);    *)
(* the database is what the CRCs tell of whenever there is no current      *)
(* master (SyncInv); and the current master is the one of the link, under  *)
(* the handle at which the database has it (LinkInv, MasterInv).           *)
(*                                                                         *)
(* What a page of records is, and that storing, rewriting and erasing lead *)
(* to one, comes first; then what initialization loads from it; then one   *)
(* lemma for each step of the module.                                      *)
(***************************************************************************)
EXTENDS BondMngr, TLAPS,
        WellFoundedInduction, FiniteSetTheorems, SequenceTheorems

\* A set of naturals has a least element: what the proofs use for induction.
LEMMA Minimum ==
  ASSUME NEW T, T \subseteq Nat, T # {}
  PROVE  \E x \in T : \A y \in T : x <= y
<1> DEFINE R == OpToRel(<, Nat)
<1>1. IsWellFoundedOn(R, Nat) BY NatLessThanWellFounded
<1>2. \A x, y \in Nat : y < x => <<y, x>> \in R BY DEF OpToRel
<1> HIDE DEF R
<1>3. PICK x \in T : \A y \in T : ~(<<y, x>> \in R) BY <1>1, WFMin
<1>4. \A y \in T : ~(y < x) BY <1>2, <1>3
<1>5. QED BY <1>4

-----------------------------------------------------------------------------
(* Pages, and what the flash operations in progress will make of them.      *)

Attr == {None, Off} \cup Peers
Body == [handle : Int, data : (Peers \X Div) \cup Attr]

Op == [op : {"erase"}, page : Kind]
        \cup [op : {"body"}, page : Kind, slot : Slot, to : Body]
        \cup [op : {"head"}, page : Kind, slot : Slot, to : Seq(Body)]

\* The page after the first q of the operations that store recs in it.
PageAt(recs, q) ==
  [i \in Slot |-> [body |-> IF 2 * i - 1 <= q THEN recs[i] ELSE Blank,
                   head |-> IF 2 * i <= q THEN SubSeq(recs, 1, i) ELSE NoCrc]]

\* The page that holds recs and nothing else.
Page(recs) ==
  [i \in Slot |-> IF i <= Len(recs) THEN [body |-> recs[i], head |-> SubSeq(recs, 1, i)]
                                    ELSE [body |-> Blank, head |-> NoCrc]]

\* The operations s, performed one by one, turn f into g.
Leads(f, s, g) ==
  \E a : /\ a[0] = f /\ a[Len(s)] = g
         /\ \A n \in 1..Len(s) : a[n] = Performed(a[n - 1], s[n])

\* Operations in a row: none, the first of some, and some after others.
LEMMA LeadsNowhere == ASSUME NEW f PROVE Leads(f, <<>>, f)
<1> DEFINE a == [n \in 0..0 |-> f]
<1>1. a[0] = f OBVIOUS
<1> HIDE DEF a
<1>2. Len(<<>>) = 0 /\ 1..0 = {} OBVIOUS
<1>3. QED BY <1>1, <1>2 DEF Leads

LEMMA LeadsNowhereElse ==
  ASSUME NEW f, NEW g, Leads(f, <<>>, g)
  PROVE  f = g
BY DEF Leads

LEMMA LeadsOn ==
  ASSUME NEW f, NEW g, NEW S, NEW s \in Seq(S), s # <<>>, Leads(f, s, g)
  PROVE  Leads(Performed(f, s[1]), Tail(s), g)
<1> DEFINE N == Len(s)
<1>1. PICK a : /\ a[0] = f /\ a[N] = g
               /\ \A n \in 1..N : a[n] = Performed(a[n - 1], s[n])
  BY DEF Leads
<1>2. N \in Nat \ {0} /\ Tail(s) \in Seq(S) /\ Len(Tail(s)) = N - 1
  BY EmptySeq, HeadTailProperties
<1>3. \A n \in 1..N - 1 : Tail(s)[n] = s[n + 1] BY <1>2, HeadTailProperties
<1> DEFINE b == [n \in 0..N - 1 |-> a[n + 1]]
<1> HIDE DEF N
<1>4. b[0] = a[1] /\ b[N - 1] = a[N] BY <1>2
<1>5. b[0] = Performed(f, s[1])
  <2>1. 1 \in 1..N /\ 1 - 1 = 0 BY <1>2
  <2>2. QED BY <1>1, <1>4, <2>1
<1>6. ASSUME NEW n \in 1..N - 1 PROVE b[n] = Performed(b[n - 1], Tail(s)[n])
  <2>1. n + 1 \in 1..N /\ (n + 1) - 1 = n /\ n - 1 \in 0..N - 1 /\ (n - 1) + 1 = n BY <1>2
  <2>2. b[n] = a[n + 1] /\ b[n - 1] = a[n] BY <2>1
  <2>3. a[n + 1] = Performed(a[n], s[n + 1]) BY <1>1, <2>1
  <2>4. QED BY <1>3, <2>2, <2>3
<1> HIDE DEF b
<1>7. QED BY <1>1, <1>2, <1>4, <1>5, <1>6 DEF Leads

LEMMA LeadsThrough ==
  ASSUME NEW f, NEW g, NEW h, NEW S, NEW s \in Seq(S), NEW t \in Seq(S),
         Leads(f, s, g), Leads(g, t, h)
  PROVE  Leads(f, s \o t, h)
<1> DEFINE M == Len(s)
           N == Len(t)
<1>1. PICK a : /\ a[0] = f /\ a[M] = g
               /\ \A n \in 1..M : a[n] = Performed(a[n - 1], s[n])
  BY DEF Leads
<1>2. PICK b : /\ b[0] = g /\ b[N] = h
               /\ \A n \in 1..N : b[n] = Performed(b[n - 1], t[n])
  BY DEF Leads
<1>3. M \in Nat /\ N \in Nat BY LenProperties
<1>4. Len(s \o t) = M + N BY ConcatProperties
<1>5. \A n \in 1..M + N : (s \o t)[n] = IF n <= M THEN s[n] ELSE t[n - M]
  BY ConcatProperties
<1> DEFINE st == s \o t
           c == [n \in 0..M + N |-> IF n <= M THEN a[n] ELSE b[n - M]]
<1> HIDE DEF M, N, st
<1>6. c[0] = f BY <1>1, <1>3
<1>7. c[M + N] = h
  <2>1. CASE N = 0 BY <1>1, <1>2, <1>3, <2>1
  <2>2. CASE N # 0
    <3>1. M + N \in 0..M + N /\ ~(M + N <= M) /\ (M + N) - M = N BY <1>3, <2>2
    <3>2. QED BY <1>2, <3>1
  <2>3. QED BY <2>1, <2>2
<1>8. ASSUME NEW n \in 1..M + N PROVE c[n] = Performed(c[n - 1], st[n])
  <2>1. n \in 0..M + N /\ n - 1 \in 0..M + N BY <1>3
  <2>2. CASE n <= M
    <3>1. n \in 1..M /\ n - 1 <= M BY <1>3, <2>2
    <3>2. c[n] = a[n] /\ c[n - 1] = a[n - 1] /\ st[n] = s[n] BY <1>5, <2>1, <2>2, <3>1 DEF st
    <3>3. QED BY <1>1, <3>1, <3>2
  <2>3. CASE n = M + 1
    <3>1. n - M = 1 /\ n - 1 = M /\ ~(n <= M) /\ 1 \in 1..N BY <1>3, <2>3
    <3>2. c[n] = b[n - M] /\ c[n - 1] = a[M] BY <1>3, <2>1, <3>1
    <3>3. st[n] = t[n - M] BY <1>5, <3>1 DEF st
    <3> HIDE DEF c
    <3>4. b[1] = Performed(b[0], t[1]) BY <1>2, <3>1
    <3>5. QED BY <1>1, <1>2, <3>1, <3>2, <3>3, <3>4
  <2>4. CASE ~(n <= M) /\ n # M + 1
    <3>1. n - M \in 1..N /\ ~(n - 1 <= M) /\ (n - 1) - M = (n - M) - 1 BY <1>3, <2>4
    <3>2. c[n] = b[n - M] /\ c[n - 1] = b[(n - M) - 1] /\ st[n] = t[n - M]
      BY <1>5, <2>1, <2>4, <3>1 DEF st
    <3>3. b[n - M] = Performed(b[(n - M) - 1], t[n - M]) BY <1>2, <3>1
    <3>4. QED BY <3>2, <3>3
  <2>5. QED BY <2>2, <2>3, <2>4
<1> HIDE DEF c
<1>9. Len(st) = M + N BY <1>4 DEF st
<1>10. QED BY <1>6, <1>7, <1>8, <1>9 DEF Leads, st

\* What one operation does to its page; the other one stays.
Cleared(page)       == BlankPage
BodyPut(page, i, r) == [page EXCEPT ![i].body = Burnt(@, Blank, r, Garbled)]
HeadPut(page, i, c) == [page EXCEPT ![i].head = Burnt(@, NoCrc, c, BadCrc)]

\* One operation changes one cell of one page, an erased one here.
LEMMA PerformedFacts ==
  ASSUME NEW f, f = [j \in Kind |-> f[j]], NEW k \in Kind
  PROVE  /\ Performed(f, EraseOp(k)) = [f EXCEPT ![k] = BlankPage]
         /\ \A i, r : Performed(f, BodyOp(k, i, r)) = [f EXCEPT ![k] = BodyPut(f[k], i, r)]
         /\ \A i, c : Performed(f, HeadOp(k, i, c)) = [f EXCEPT ![k] = HeadPut(f[k], i, c)]
BY DEF Performed, EraseOp, BodyOp, HeadOp, BodyPut, HeadPut

\* Nothing is garbled where the cell was erased.
LEMMA PutFacts ==
  ASSUME NEW p, p = [j \in Slot |-> p[j]], NEW i \in Slot, NEW b, NEW h,
         p[i] = [body |-> b, head |-> h], NEW x
  PROVE  /\ b = Blank => BodyPut(p, i, x) = [p EXCEPT ![i] = [body |-> x, head |-> h]]
         /\ h = NoCrc => HeadPut(p, i, x) = [p EXCEPT ![i] = [body |-> b, head |-> x]]
<1>1. /\ [p EXCEPT ![i].body = x] = [p EXCEPT ![i] = [body |-> x, head |-> h]]
      /\ [p EXCEPT ![i].head = x] = [p EXCEPT ![i] = [body |-> b, head |-> x]]
  <2> DEFINE c == [body |-> b, head |-> h]
  <2>1. /\ [c EXCEPT !.body = x] = [body |-> x, head |-> h]
        /\ [c EXCEPT !.head = x] = [body |-> b, head |-> x]
    OBVIOUS
  <2>2. p[i] = c OBVIOUS
  <2> HIDE DEF c
  <2>3. /\ [p EXCEPT ![i].body = x] = [p EXCEPT ![i] = [c EXCEPT !.body = x]]
        /\ [p EXCEPT ![i].head = x] = [p EXCEPT ![i] = [c EXCEPT !.head = x]]
    BY <2>2
  <2>4. QED BY <2>1, <2>3
<1>2. p[i].body = b /\ p[i].head = h OBVIOUS
<1>3. /\ b = Blank => BodyPut(p, i, x) = [p EXCEPT ![i].body = x]
      /\ h = NoCrc => HeadPut(p, i, x) = [p EXCEPT ![i].head = x]
  BY <1>2 DEF BodyPut, HeadPut, Burnt
<1>4. QED BY <1>1, <1>3

\* Erasing a page.
LEMMA EraseLeads ==
  ASSUME NEW f, f = [j \in Kind |-> f[j]], NEW k \in Kind
  PROVE  Leads(f, <<EraseOp(k)>>, [f EXCEPT ![k] = BlankPage])
<1> DEFINE a == [n \in 0..1 |-> IF n = 0 THEN f ELSE Performed(f, EraseOp(k))]
           s == <<EraseOp(k)>>
<1>1. a[0] = f /\ a[1] = Performed(f, EraseOp(k)) OBVIOUS
<1> HIDE DEF a
<1>2. Len(s) = 1 /\ s[1] = EraseOp(k) OBVIOUS
<1>3. \A n \in 1..1 : n = 1 /\ n - 1 = 0 OBVIOUS
<1> HIDE DEF s
<1>4. \A n \in 1..Len(s) : a[n] = Performed(a[n - 1], s[n]) BY <1>1, <1>2, <1>3
<1>5. Leads(f, s, Performed(f, EraseOp(k))) BY <1>1, <1>2, <1>4 DEF Leads
<1>6. QED BY <1>5, PerformedFacts DEF s

\* The first operations that store recs, one at a time.
LEMMA PageAtFacts ==
  ASSUME NEW recs \in Seq(Body), Len(recs) <= MaxRecords
  PROVE  /\ PageAt(recs, 0) = BlankPage
         /\ PageAt(recs, 2 * Len(recs)) = Page(recs)
         /\ \A i \in 1..Len(recs) :
              /\ BodyPut(PageAt(recs, 2 * i - 2), i, recs[i]) = PageAt(recs, 2 * i - 1)
              /\ HeadPut(PageAt(recs, 2 * i - 1), i, SubSeq(recs, 1, i)) = PageAt(recs, 2 * i)
<1> DEFINE N == Len(recs)
<1>1. N \in Nat /\ Slot \subseteq Nat \ {0} /\ 1..N \subseteq Slot
  BY SizeAssumption, LenProperties DEF Slot
<1>2. PageAt(recs, 0) = BlankPage
  <2>1. \A i \in Slot : ~(2 * i - 1 <= 0) /\ ~(2 * i <= 0) BY <1>1
  <2>2. QED BY <2>1 DEF PageAt, BlankPage
<1>3. PageAt(recs, 2 * N) = Page(recs)
  <2> HIDE DEF N
  <2>1. \A i \in Slot : (2 * i - 1 <= 2 * N <=> i <= N) /\ (2 * i <= 2 * N <=> i <= N) BY <1>1
  <2>2. QED BY <2>1 DEF PageAt, Page, N
<1>4. ASSUME NEW i \in 1..N
      PROVE  BodyPut(PageAt(recs, 2 * i - 2), i, recs[i]) = PageAt(recs, 2 * i - 1)
  <2> HIDE DEF N
  <2>1. i \in Slot /\ i \in Nat \ {0} BY <1>1
  <2>2. \A j \in Slot : /\ 2 * j <= 2 * i - 2 <=> 2 * j <= 2 * i - 1
                        /\ j # i => (2 * j - 1 <= 2 * i - 2 <=> 2 * j - 1 <= 2 * i - 1)
    BY <1>1, <2>1
  <2>3. ~(2 * i - 1 <= 2 * i - 2) /\ 2 * i - 1 <= 2 * i - 1 BY <2>1
  <2> DEFINE p == PageAt(recs, 2 * i - 2)
             q == PageAt(recs, 2 * i - 1)
             h == p[i].head
  <2>4. p[i] = [body |-> Blank, head |-> h] /\ q[i] = [body |-> recs[i], head |-> h]
    BY <2>1, <2>2, <2>3 DEF PageAt
  <2>5. \A j \in Slot : j # i => q[j] = p[j] BY <2>1, <2>2 DEF PageAt
  <2>6. p = [j \in Slot |-> p[j]] /\ q = [j \in Slot |-> q[j]] BY DEF PageAt
  <2> HIDE DEF p, q, h
  <2>7. BodyPut(p, i, recs[i]) = [p EXCEPT ![i] = q[i]] BY <2>1, <2>4, <2>6, PutFacts
  <2>8. BodyPut(p, i, recs[i]) = q BY <2>1, <2>5, <2>6, <2>7
  <2>9. QED BY <2>8 DEF p, q
<1>5. ASSUME NEW i \in 1..N
      PROVE  HeadPut(PageAt(recs, 2 * i - 1), i, SubSeq(recs, 1, i)) = PageAt(recs, 2 * i)
  <2> HIDE DEF N
  <2>1. i \in Slot /\ i \in Nat \ {0} BY <1>1
  <2>2. \A j \in Slot : /\ 2 * j - 1 <= 2 * i - 1 <=> 2 * j - 1 <= 2 * i
                        /\ j # i => (2 * j <= 2 * i - 1 <=> 2 * j <= 2 * i)
    BY <1>1, <2>1
  <2>3. ~(2 * i <= 2 * i - 1) /\ 2 * i <= 2 * i BY <2>1
  <2> DEFINE p == PageAt(recs, 2 * i - 1)
             q == PageAt(recs, 2 * i)
             c == SubSeq(recs, 1, i)
  <2>4. p[i] = [body |-> recs[i], head |-> NoCrc] /\ q[i] = [body |-> recs[i], head |-> c]
    <3>1. 2 * i - 1 <= 2 * i - 1 /\ 2 * i - 1 <= 2 * i BY <2>1
    <3>2. QED BY <2>1, <2>3, <3>1 DEF PageAt
  <2>5. \A j \in Slot : j # i => q[j] = p[j] BY <2>1, <2>2 DEF PageAt
  <2>6. p = [j \in Slot |-> p[j]] /\ q = [j \in Slot |-> q[j]] BY DEF PageAt
  <2> HIDE DEF p, q, c
  <2>7. HeadPut(p, i, c) = [p EXCEPT ![i] = q[i]] BY <2>1, <2>4, <2>6, PutFacts
  <2>8. HeadPut(p, i, c) = q BY <2>1, <2>5, <2>6, <2>7
  <2>9. QED BY <2>8 DEF p, q, c
<1>6. QED BY <1>2, <1>3, <1>4, <1>5

\* Storing all records in an erased page.
LEMMA WriteLeads ==
  ASSUME NEW f, f = [j \in Kind |-> f[j]], NEW k \in Kind, f[k] = BlankPage,
         NEW recs \in Seq(Body), Len(recs) <= MaxRecords
  PROVE  Leads(f, WriteAll(k, recs), [f EXCEPT ![k] = Page(recs)])
<1> DEFINE N == Len(recs)
           s == WriteAll(k, recs)
           a == [n \in 0..2 * N |-> [f EXCEPT ![k] = PageAt(recs, n)]]
<1>1. N \in Nat BY LenProperties
<1>2. Len(s) = 2 * N
  <2> HIDE DEF N
  <2>1. 2 * N \in Nat BY <1>1
  <2>2. QED BY <2>1 DEF WriteAll, N
<1>3. \A i \in 1..N : /\ s[2 * i - 1] = BodyOp(k, i, recs[i])
                      /\ s[2 * i] = HeadOp(k, i, SubSeq(recs, 1, i))
  <2> SUFFICES ASSUME NEW i \in 1..N
               PROVE  /\ s[2 * i - 1] = BodyOp(k, i, recs[i])
                      /\ s[2 * i] = HeadOp(k, i, SubSeq(recs, 1, i))
    OBVIOUS
  <2> HIDE DEF N
  <2>1. i \in Nat /\ 2 * i - 1 \in 1..2 * N /\ 2 * i \in 1..2 * N BY <1>1
  <2>2. ((2 * i - 1) + 1) \div 2 = i /\ (2 * i + 1) \div 2 = i /\ 2 * i # 2 * i - 1 BY <2>1
  <2>3. QED BY <2>1, <2>2 DEF WriteAll, N
<1>4. a[0] = f
  <2>1. a[0] = [f EXCEPT ![k] = BlankPage] BY PageAtFacts, <1>1
  <2>2. QED BY <2>1
<1>5. a[2 * N] = [f EXCEPT ![k] = Page(recs)] BY PageAtFacts, <1>1
<1>6. ASSUME NEW n \in 1..2 * N PROVE a[n] = Performed(a[n - 1], s[n])
  <2> DEFINE g == a[n - 1]
  <2>1. a[n] = [f EXCEPT ![k] = PageAt(recs, n)] /\ g = [f EXCEPT ![k] = PageAt(recs, n - 1)]
    BY <1>1
  <2>2. g = [j \in Kind |-> g[j]] /\ g[k] = PageAt(recs, n - 1) BY <2>1
  <2>3. \A p : [g EXCEPT ![k] = p] = [f EXCEPT ![k] = p] BY <2>1
  <2> HIDE DEF a, s, g
  <2>4. PICK i \in 1..N : n = 2 * i - 1 \/ n = 2 * i
    <3> HIDE DEF N
    <3>1. (n + 1) \div 2 \in 1..N BY <1>1
    <3>2. n = 2 * ((n + 1) \div 2) - 1 \/ n = 2 * ((n + 1) \div 2) BY <1>1
    <3>3. QED BY <3>1, <3>2
  <2>5. CASE n = 2 * i - 1
    <3>1. n - 1 = 2 * i - 2 BY <2>5, <1>1
    <3>2. Performed(g, BodyOp(k, i, recs[i])) = [g EXCEPT ![k] = BodyPut(g[k], i, recs[i])]
      BY <2>2, PerformedFacts
    <3>3. BodyPut(g[k], i, recs[i]) = PageAt(recs, n) BY <2>2, <2>4, <2>5, <3>1, PageAtFacts
    <3>4. s[n] = BodyOp(k, i, recs[i]) BY <1>3, <2>4, <2>5
    <3>5. QED BY <2>1, <2>3, <3>2, <3>3, <3>4 DEF g
  <2>6. CASE n = 2 * i
    <3>1. n - 1 = 2 * i - 1 BY <2>6, <1>1
    <3>2. Performed(g, HeadOp(k, i, SubSeq(recs, 1, i)))
            = [g EXCEPT ![k] = HeadPut(g[k], i, SubSeq(recs, 1, i))]
      BY <2>2, PerformedFacts
    <3>3. HeadPut(g[k], i, SubSeq(recs, 1, i)) = PageAt(recs, n)
      BY <2>2, <2>4, <2>6, <3>1, PageAtFacts
    <3>4. s[n] = HeadOp(k, i, SubSeq(recs, 1, i)) BY <1>3, <2>4, <2>6
    <3>5. QED BY <2>1, <2>3, <3>2, <3>3, <3>4 DEF g
  <2>7. QED BY <2>4, <2>5, <2>6
<1> HIDE DEF a, s
<1>7. QED BY <1>2, <1>4, <1>5, <1>6 DEF Leads, s

\* One more record in a page.
LEMMA StoreLeads ==
  ASSUME NEW f, f = [j \in Kind |-> f[j]], NEW k \in Kind,
         NEW recs \in Seq(Body), NEW r \in Body, Len(recs) < MaxRecords, f[k] = Page(recs)
  PROVE  Leads(f, <<BodyOp(k, Len(recs) + 1, r), HeadOp(k, Len(recs) + 1, Append(recs, r))>>,
               [f EXCEPT ![k] = Page(Append(recs, r))])
<1> DEFINE N == Len(recs)
           new == Append(recs, r)
<1>1. N \in Nat /\ new \in Seq(Body) /\ Len(new) = N + 1 BY LenProperties, AppendProperties
<1>2. \A i \in 1..N : new[i] = recs[i] BY AppendProperties
<1>3. new[N + 1] = r BY AppendProperties
<1>4. SubSeq(new, 1, N + 1) = new BY <1>1, SubSeqFull
<1>5. \A i \in 1..N : SubSeq(new, 1, i) = SubSeq(recs, 1, i)
  <2> SUFFICES ASSUME NEW i \in 1..N PROVE SubSeq(new, 1, i) = SubSeq(recs, 1, i) OBVIOUS
  <2> HIDE DEF new, N
  <2>1. i \in Int /\ 1 \in Int /\ 1..i \subseteq 1..N /\ 1 <= i /\ i - 1 + 1 = i BY <1>1
  <2>2. \A j \in 1..i : recs[j] \in Body /\ new[j] \in Body BY <1>1, <1>2, <2>1, ElementOfSeq DEF N
  <2>3. /\ SubSeq(recs, 1, i) \in Seq(Body) /\ Len(SubSeq(recs, 1, i)) = i
        /\ \A j \in 1..i : SubSeq(recs, 1, i)[j] = recs[1 + j - 1]
    BY <2>1, <2>2, SubSeqProperties
  <2>4. /\ SubSeq(new, 1, i) \in Seq(Body) /\ Len(SubSeq(new, 1, i)) = i
        /\ \A j \in 1..i : SubSeq(new, 1, i)[j] = new[1 + j - 1]
    BY <2>1, <2>2, SubSeqProperties
  <2>5. \A j \in 1..i : 1 + j - 1 = j /\ j \in 1..N BY <2>1
  <2>6. \A j \in 1..i : SubSeq(new, 1, i)[j] = SubSeq(recs, 1, i)[j]
    BY <1>2, <2>3, <2>4, <2>5
  <2>7. QED BY <2>3, <2>4, <2>6, SeqEqual
<1> DEFINE p == Page(recs)
           q == BodyPut(p, N + 1, r)
           t == Page(new)
           s == <<BodyOp(k, N + 1, r), HeadOp(k, N + 1, new)>>
           a == [n \in 0..2 |-> IF n = 0 THEN f
                                ELSE IF n = 1 THEN [f EXCEPT ![k] = q] ELSE [f EXCEPT ![k] = t]]
<1>6. N + 1 \in Slot /\ Slot \subseteq Nat BY <1>1, SizeAssumption DEF Slot
<1>7. p = [j \in Slot |-> p[j]] /\ t = [j \in Slot |-> t[j]] BY DEF Page
<1>8. p[N + 1] = [body |-> Blank, head |-> NoCrc] /\ t[N + 1] = [body |-> r, head |-> new]
  <2>1. ~(N + 1 <= N) /\ N + 1 <= N + 1 BY <1>1
  <2> HIDE DEF N, new
  <2>2. p[N + 1] = [body |-> Blank, head |-> NoCrc] BY <1>6, <2>1 DEF Page, N
  <2>3. t[N + 1] = [body |-> r, head |-> new] BY <1>1, <1>3, <1>4, <1>6, <2>1 DEF Page
  <2>4. QED BY <2>2, <2>3
<1>9. \A j \in Slot : j # N + 1 => t[j] = p[j]
  <2> SUFFICES ASSUME NEW j \in Slot, j # N + 1 PROVE t[j] = p[j] OBVIOUS
  <2> HIDE DEF N, new
  <2>1. j <= N <=> j <= N + 1 BY <1>1, <1>6
  <2>2. CASE j <= N
    <3>1. j \in 1..N BY <1>1, <2>2 DEF Slot
    <3>2. QED BY <1>1, <1>2, <1>5, <2>1, <2>2, <3>1 DEF Page, N
  <2>3. CASE ~(j <= N) BY <1>1, <2>1, <2>3 DEF Page, N
  <2>4. QED BY <2>2, <2>3
<1> HIDE DEF N, new, p, t
<1>10. q = [p EXCEPT ![N + 1] = [body |-> r, head |-> NoCrc]]
  <2> DEFINE m == N + 1
  <2>1. m \in Slot /\ p[m] = [body |-> Blank, head |-> NoCrc] BY <1>6, <1>8
  <2> HIDE DEF m
  <2>2. BodyPut(p, m, r) = [p EXCEPT ![m] = [body |-> r, head |-> NoCrc]]
    BY <1>7, <2>1, PutFacts
  <2>3. QED BY <2>2 DEF m
<1>11. HeadPut(q, N + 1, new) = t
  <2>1. q[N + 1] = [body |-> r, head |-> NoCrc] /\ \A j \in Slot : j # N + 1 => q[j] = p[j]
    BY <1>6, <1>7, <1>10
  <2>2. q = [j \in Slot |-> q[j]] BY <1>7, <1>10
  <2> DEFINE m == N + 1
  <2> HIDE DEF q
  <2>3. m \in Slot /\ q[m] = [body |-> r, head |-> NoCrc] BY <1>6, <2>1
  <2> HIDE DEF m
  <2>4. HeadPut(q, m, new) = [q EXCEPT ![m] = [body |-> r, head |-> new]]
    BY <2>2, <2>3, PutFacts
  <2>5. HeadPut(q, N + 1, new) = [q EXCEPT ![N + 1] = [body |-> r, head |-> new]]
    BY <2>4 DEF m
  <2> DEFINE u == [q EXCEPT ![N + 1] = [body |-> r, head |-> new]]
  <2>6. u = [j \in Slot |-> u[j]] BY <2>2
  <2>7. \A j \in Slot : u[j] = IF j = N + 1 THEN [body |-> r, head |-> new] ELSE q[j] BY <2>2
  <2>8. \A j \in Slot : u[j] = t[j] BY <1>8, <1>9, <2>1, <2>7
  <2> HIDE DEF u
  <2>9. u = t BY <1>7, <2>6, <2>8
  <2>10. QED BY <2>5, <2>9 DEF u
<1> HIDE DEF q
<1>12. a[0] = f /\ a[1] = [f EXCEPT ![k] = q] /\ a[2] = [f EXCEPT ![k] = t] OBVIOUS
<1>13. Performed(a[0], BodyOp(k, N + 1, r)) = a[1] BY <1>12, PerformedFacts DEF q, p
<1>14. Performed(a[1], HeadOp(k, N + 1, new)) = a[2]
  <2> DEFINE g == [f EXCEPT ![k] = q]
  <2>1. g = [j \in Kind |-> g[j]] /\ g[k] = q OBVIOUS
  <2>2. \A x : [g EXCEPT ![k] = x] = [f EXCEPT ![k] = x] OBVIOUS
  <2> HIDE DEF g
  <2>3. Performed(g, HeadOp(k, N + 1, new)) = [g EXCEPT ![k] = t] BY <1>11, <2>1, PerformedFacts
  <2>4. QED BY <1>12, <2>2, <2>3 DEF g
<1> HIDE DEF a
<1>15. Len(s) = 2 /\ s[1] = BodyOp(k, N + 1, r) /\ s[2] = HeadOp(k, N + 1, new) OBVIOUS
<1> HIDE DEF s
<1>16. \A n \in 1..2 : (n = 1 /\ n - 1 = 0) \/ (n = 2 /\ n - 1 = 1) OBVIOUS
<1>17. \A n \in 1..Len(s) : a[n] = Performed(a[n - 1], s[n]) BY <1>13, <1>14, <1>15, <1>16
<1>18. Leads(f, s, a[2]) BY <1>12, <1>15, <1>17 DEF Leads
<1>19. QED BY <1>12, <1>18 DEF s, t, new, N

-----------------------------------------------------------------------------
(* What initialization loads.                                               *)

MasterType == [id : Peers, div : Div, attr : Attr, attrHandle : Int]

\* Recursions that start alike and go on alike are the same.
GoAlike(N, f, g) == f[0] = g[0] /\ \A n \in 1..N : f[n - 1] = g[n - 1] => f[n] = g[n]

LEMMA SameRecursion ==
  ASSUME NEW N \in Nat, NEW f, NEW g, GoAlike(N, f, g)
  PROVE  f[N] = g[N]
<1> SUFFICES \A n \in 0..N : f[n] = g[n] OBVIOUS
<1> DEFINE Bad == {n \in 0..N : f[n] # g[n]}
<1>1. SUFFICES ASSUME Bad # {} PROVE FALSE OBVIOUS
<1>2. Bad \subseteq Nat OBVIOUS
<1> HIDE DEF Bad
<1>3. PICK k \in Bad : \A j \in Bad : k <= j BY <1>1, <1>2, Minimum
<1>4. k \in 1..N /\ k - 1 \in 0..N BY DEF Bad, GoAlike
<1>5. k - 1 \notin Bad BY <1>3, <1>4
<1>6. QED BY <1>4, <1>5 DEF Bad, GoAlike

\* The masters as their bonds alone make them.
Bare(d) == [i \in DOMAIN d |-> Master(d[i].id, d[i].div, None, NoHandle)]

\* The records of a database.
LEMMA RecordsFacts ==
  ASSUME NEW d \in Seq(MasterType), NEW k \in Kind
  PROVE  /\ Records(k, d) \in Seq(Body)
         /\ Len(Records(k, d)) = Len(d)
         /\ DOMAIN Records(k, d) = 1..Len(d)
         /\ \A i \in 1..Len(d) :
              Records(k, d)[i] = IF k = "bond" THEN BondRecord(d, i) ELSE AttrRecord(d, i)
         /\ \A i \in 1..Len(d) : BondRecord(d, i) \in Body /\ AttrRecord(d, i) \in Body
<1> DEFINE N == Len(d)
           R(i) == IF k = "bond" THEN BondRecord(d, i) ELSE AttrRecord(d, i)
<1>1. N \in Nat /\ DOMAIN d = 1..N BY LenProperties
<1>2. \A i \in 1..N : d[i] \in MasterType BY ElementOfSeq
<1>3. \A i \in 1..N : BondRecord(d, i) \in Body /\ AttrRecord(d, i) \in Body
  <2> SUFFICES ASSUME NEW i \in 1..N PROVE BondRecord(d, i) \in Body /\ AttrRecord(d, i) \in Body
    OBVIOUS
  <2>1. d[i].id \in Peers /\ d[i].div \in Div /\ d[i].attr \in Attr /\ d[i].attrHandle \in Int
    BY <1>2 DEF MasterType
  <2>2. i - 1 \in Int BY <1>1
  <2>3. <<d[i].id, d[i].div>> \in Peers \X Div BY <2>1
  <2>4. QED BY <2>1, <2>2, <2>3 DEF BondRecord, AttrRecord, Body
<1>4. \A i \in 1..N : R(i) \in Body BY <1>3
<1>5. Records(k, d) = [i \in 1..N |-> R(i)] BY <1>1 DEF Records
<1> HIDE DEF R, N
<1>6. [i \in 1..N |-> R(i)] \in Seq(Body) /\ Len([i \in 1..N |-> R(i)]) = N BY <1>1, <1>4
<1>7. QED BY <1>3, <1>5, <1>6 DEF N, R

\* The masters as they are loaded before their attributes.
LEMMA BareFacts ==
  ASSUME NEW d \in Seq(MasterType)
  PROVE  /\ Bare(d) \in Seq(MasterType)
         /\ Len(Bare(d)) = Len(d)
         /\ \A i \in 1..Len(d) : Bare(d)[i] = Master(d[i].id, d[i].div, None, NoHandle)
         /\ Records("bond", Bare(d)) = Records("bond", d)
<1> DEFINE N == Len(d)
           M(i) == Master(d[i].id, d[i].div, None, NoHandle)
<1>1. N \in Nat /\ DOMAIN d = 1..N BY LenProperties
<1>2. \A i \in 1..N : d[i] \in MasterType BY ElementOfSeq
<1>3. \A i \in 1..N : /\ M(i) \in MasterType
                      /\ M(i).id = d[i].id /\ M(i).div = d[i].div
  BY <1>2 DEF Master, MasterType, Attr, NoHandle
<1>4. Bare(d) = [i \in 1..N |-> M(i)] BY <1>1 DEF Bare
<1> HIDE DEF M, N
<1>5. [i \in 1..N |-> M(i)] \in Seq(MasterType) /\ Len([i \in 1..N |-> M(i)]) = N BY <1>1, <1>3
<1>6. \A i \in 1..N : Bare(d)[i] = M(i) BY <1>4
<1>7. Records("bond", Bare(d)) = Records("bond", d)
  <2>1. DOMAIN Bare(d) = 1..N BY <1>4
  <2>2. \A i \in 1..N : BondRecord(Bare(d), i) = BondRecord(d, i)
    BY <1>3, <1>6 DEF BondRecord
  <2>3. QED BY <1>1, <2>1, <2>2 DEF Records
<1>8. QED BY <1>4, <1>5, <1>6, <1>7 DEF M, N

\* The headers of a page that holds recs fit, and end with them.
LEMMA PageFacts ==
  ASSUME NEW recs \in Seq(Body), Len(recs) <= MaxRecords
  PROVE  /\ \A n \in 1..Len(recs) : /\ Page(recs)[n].body = recs[n]
                                    /\ Page(recs)[n].head # NoCrc
                                    /\ Intact(Page(recs), n)
         /\ \A n \in Slot : ~(n <= Len(recs)) => Page(recs)[n].head = NoCrc
         /\ Bodies(Page(recs), Len(recs)) = recs
<1> DEFINE N == Len(recs)
           P == Page(recs)
<1>1. N \in Nat /\ 1..N \subseteq Slot /\ recs = [i \in 1..N |-> recs[i]]
  BY LenProperties, SizeAssumption DEF Slot
<1>2. \A n \in 1..N : P[n].body = recs[n] /\ P[n].head = SubSeq(recs, 1, n)
  BY <1>1 DEF Page
<1>3. \A n \in Slot : ~(n <= N) => P[n].head = NoCrc BY DEF Page
<1> HIDE DEF P
<1>4. ASSUME NEW n \in 1..N
      PROVE  P[n].body = recs[n] /\ P[n].head # NoCrc /\ Intact(P, n)
  <2> DEFINE h == SubSeq(recs, 1, n)
             b == [i \in 1..n |-> P[i].body]
  <2>1. P[n].body = recs[n] /\ P[n].head = h BY <1>2
  <2>2. 1..n \subseteq 1..N /\ n \in Nat /\ n >= 1 BY <1>1
  <2>3. \A i \in 1..n : recs[i] \in Body BY <2>2, ElementOfSeq
  <2>4. h \in Seq(Body) /\ Len(h) = n /\ \A i \in 1..n : h[i] = recs[i]
    <3> HIDE DEF N
    <3>1. h \in Seq(Body) /\ Len(h) = (IF 1 <= n THEN n - 1 + 1 ELSE 0)
          /\ \A i \in 1..n - 1 + 1 : h[i] = recs[1 + i - 1]
      BY <2>2, <2>3, SubSeqProperties
    <3> HIDE DEF h
    <3>2. n - 1 + 1 = n /\ 1 <= n /\ \A i \in 1..n : 1 + i - 1 = i BY <2>2
    <3>3. QED BY <3>1, <3>2
  <2>5. \A i \in 1..n : P[i].body = recs[i] BY <1>2, <2>2
  <2>6. b = [i \in 1..n |-> recs[i]] BY <2>5
  <2>7. b \in Seq(Body) /\ Len(b) = n /\ \A i \in 1..n : b[i] = recs[i]
    BY <2>2, <2>3, <2>5
  <2> HIDE DEF h, b
  <2>8. h = b BY <2>4, <2>7, SeqEqual
  <2>9. h # <<>> BY <2>2, <2>4
  <2>10. QED BY <2>1, <2>8, <2>9 DEF Intact, NoCrc, b
<1>5. Bodies(P, N) = recs
  <2>1. \A i \in 1..N : P[i].body = recs[i] BY <1>2
  <2>2. QED BY <1>1, <2>1 DEF Bodies
<1>6. QED BY <1>3, <1>4, <1>5 DEF P

\* The first n elements of a sequence.
LEMMA UptoFacts ==
  ASSUME NEW S, NEW s \in Seq(S)
  PROVE  /\ SubSeq(s, 1, 0) = <<>>
         /\ SubSeq(s, 1, Len(s)) = s
         /\ \A n \in 0..Len(s) : SubSeq(s, 1, n) \in Seq(S) /\ Len(SubSeq(s, 1, n)) = n
         /\ \A n \in 1..Len(s) : SubSeq(s, 1, n) = Append(SubSeq(s, 1, n - 1), s[n])
<1> DEFINE N == Len(s)
<1>1. N \in Nat /\ \A i \in 1..N : s[i] \in S BY LenProperties, ElementOfSeq
<1>2. SubSeq(s, 1, 0) = <<>> BY SubSeqEmpty
<1>3. SubSeq(s, 1, N) = s BY SubSeqFull
<1> HIDE DEF N
<1>4. ASSUME NEW n \in 0..N PROVE SubSeq(s, 1, n) \in Seq(S) /\ Len(SubSeq(s, 1, n)) = n
  <2>1. n \in Int /\ 1 \in Int /\ \A i \in 1..n : s[i] \in S BY <1>1
  <2>2. /\ SubSeq(s, 1, n) \in Seq(S)
        /\ Len(SubSeq(s, 1, n)) = IF 1 <= n THEN n - 1 + 1 ELSE 0
    BY <2>1, SubSeqProperties
  <2>3. (IF 1 <= n THEN n - 1 + 1 ELSE 0) = n BY <1>1
  <2>4. QED BY <2>2, <2>3
<1>5. ASSUME NEW n \in 1..N PROVE SubSeq(s, 1, n) = Append(SubSeq(s, 1, n - 1), s[n])
  <2>1. n - 1 \in 0..N /\ 1 \in 1..N /\ n \in 1..N BY <1>1
  <2>2. SubSeq(s, 1, n) = SubSeq(s, 1, n - 1) \o <<s[n]>>
    BY <2>1, SubSeqRecursiveSecond DEF N
  <2>3. SubSeq(s, 1, n - 1) \in Seq(S) BY <1>4, <2>1
  <2>4. Append(SubSeq(s, 1, n - 1), s[n]) = SubSeq(s, 1, n - 1) \o <<s[n]>>
    BY <1>1, <2>3, AppendIsConcat
  <2>5. QED BY <2>2, <2>4
<1>6. QED BY <1>2, <1>3, <1>4, <1>5 DEF N

\* One record of the page of bonds.
LEMMA BondTaken ==
  ASSUME NEW page, NEW n, NEW s, s.end = "open", Len(s.db) \in Nat, Len(s.db) # MaxMasters,
         page[n].head # NoCrc, Intact(page, n), page[n].body.handle = Len(s.db)
  PROVE  BondLoaded(page, n, s)
           = [db |-> Append(s.db, Master(page[n].body.data[1], page[n].body.data[2],
                                         None, NoHandle)),
              read |-> n, end |-> "open"]
<1>1. ~(page[n].body.handle > Len(s.db)) OBVIOUS
<1>2. QED BY <1>1 DEF BondLoaded

\* Loading stops at the first erased header.
LEMMA BondsEnd ==
  ASSUME NEW page, NEW n, NEW s, s = [db |-> s.db, read |-> s.read, end |-> s.end],
         s.end = "found" \/ (s.end = "open" /\ page[n].head = NoCrc)
  PROVE  BondLoaded(page, n, s) = [db |-> s.db, read |-> s.read, end |-> "found"]
<1> DEFINE D == s.db
           m == s.read
           t == [db |-> D, read |-> m, end |-> "open"]
           u == [db |-> D, read |-> m, end |-> "found"]
<1>1. CASE s.end = "found"
  <2>1. s.end # "open" BY <1>1
  <2>2. BondLoaded(page, n, s) = s BY <2>1 DEF BondLoaded
  <2>3. QED BY <1>1, <2>2
<1>2. CASE s.end = "open" /\ page[n].head = NoCrc
  <2>1. s = t BY <1>2
  <2>2. [t EXCEPT !.end = "found"] = u
    <3> HIDE DEF D, m
    <3>1. QED OBVIOUS
  <2> HIDE DEF t, u
  <2>3. BondLoaded(page, n, s) = [s EXCEPT !.end = "found"] BY <1>2 DEF BondLoaded
  <2>4. QED BY <2>1, <2>2, <2>3 DEF u
<1>3. QED BY <1>1, <1>2

\* The bonds of a database are loaded from the page that holds its records.
LEMMA LoadBondsFacts ==
  ASSUME NEW d \in Seq(MasterType), Len(d) <= MaxMasters
  PROVE  LET b == LoadBonds(Page(Records("bond", d)))
         IN  Succeeded(b) /\ b.read = Len(d) /\ b.db = Bare(d)
<1> DEFINE recs == Records("bond", d)
           P == Page(recs)
           N == Len(d)
           base == [db |-> <<>>, read |-> 0, end |-> "open"]
           Fits(g) == g = [n \in 0..MaxRecords |->
                             IF n = 0 THEN base ELSE BondLoaded(P, n, g[n - 1])]
           Upto(n) == SubSeq(Bare(d), 1, n)
           f == [n \in 0..MaxRecords |->
                   IF n <= N THEN [db |-> Upto(n), read |-> n, end |-> "open"]
                   ELSE [db |-> Bare(d), read |-> N, end |-> "found"]]
           after == CHOOSE g : Fits(g)
<1>1. LoadBonds(P) = after[MaxRecords] BY DEF LoadBonds
<1>2. N \in Nat /\ MaxRecords \in Nat /\ N <= MaxRecords /\ MaxMasters \in Nat
  BY LenProperties, SizeAssumption
<1>3. recs \in Seq(Body) /\ Len(recs) = N
      /\ \A i \in 1..N : recs[i] = BondRecord(d, i)
  BY RecordsFacts DEF Kind
<1>4. /\ \A n \in 1..N : P[n].body = recs[n] /\ P[n].head # NoCrc /\ Intact(P, n)
      /\ \A n \in 1..MaxRecords : ~(n <= N) => P[n].head = NoCrc
  BY <1>2, <1>3, PageFacts DEF Slot
<1>5. /\ Bare(d) \in Seq(MasterType) /\ Len(Bare(d)) = N
      /\ \A i \in 1..N : Bare(d)[i] = Master(d[i].id, d[i].div, None, NoHandle)
  BY BareFacts
<1>6. /\ Upto(0) = <<>>
      /\ Upto(N) = Bare(d)
      /\ \A n \in 0..N : Len(Upto(n)) = n
      /\ \A n \in 1..N : Upto(n) = Append(Upto(n - 1), Bare(d)[n])
  BY <1>5, UptoFacts
<1> HIDE DEF P, N, Upto, base, recs
<1>7. f[0] = base
  <2>1. 0 \in 0..MaxRecords /\ 0 <= N BY <1>2
  <2>2. f[0] = [db |-> Upto(0), read |-> 0, end |-> "open"] BY <2>1
  <2> HIDE DEF f
  <2>3. QED BY <1>6, <2>2 DEF base
<1>8. ASSUME NEW n \in 1..MaxRecords PROVE f[n] = BondLoaded(P, n, f[n - 1])
  <2>1. n \in 0..MaxRecords /\ n - 1 \in 0..MaxRecords BY <1>2
  <2>2. CASE n <= N
    <3> DEFINE s == f[n - 1]
    <3>1. n \in 1..N /\ n - 1 \in 0..N /\ n - 1 <= N BY <1>2, <2>2
    <3>2. s = [db |-> Upto(n - 1), read |-> n - 1, end |-> "open"] BY <2>1, <3>1
    <3>3. f[n] = [db |-> Upto(n), read |-> n, end |-> "open"] BY <2>1, <2>2
    <3> DEFINE D == Upto(n - 1)
    <3> HIDE DEF f, s
    <3>4. Len(Upto(n - 1)) = n - 1 /\ n - 1 \in Nat /\ n - 1 # MaxMasters BY <1>2, <1>6, <3>1 DEF N
    <3>5. P[n].body = [handle |-> n - 1, data |-> <<d[n].id, d[n].div>>]
      BY <1>3, <1>4, <3>1 DEF BondRecord
    <3>6. P[n].body.handle = n - 1 /\ P[n].body.data[1] = d[n].id /\ P[n].body.data[2] = d[n].div
      BY <3>5
    <3>7. P[n].head # NoCrc /\ Intact(P, n) BY <1>4, <3>1
    <3>8. BondLoaded(P, n, s)
            = [db |-> Append(D, Master(d[n].id, d[n].div, None, NoHandle)),
               read |-> n, end |-> "open"]
      <4>1. s.end = "open" /\ s.db = D BY <3>2
      <4>2. Len(D) \in Nat /\ Len(D) # MaxMasters /\ P[n].body.handle = Len(D) BY <3>4, <3>6
      <4> HIDE DEF D
      <4>3. QED BY <3>6, <3>7, <4>1, <4>2, BondTaken
    <3>9. Upto(n) = Append(Upto(n - 1), Master(d[n].id, d[n].div, None, NoHandle))
      BY <1>5, <1>6, <3>1
    <3>10. QED BY <3>3, <3>8, <3>9 DEF s
  <2>3. CASE ~(n <= N)
    <3> DEFINE D == Bare(d)
               s == f[n - 1]
    <3>1. f[n] = [db |-> D, read |-> N, end |-> "found"] BY <2>1, <2>3
    <3>2. \/ s = [db |-> D, read |-> N, end |-> "open"]
          \/ s = [db |-> D, read |-> N, end |-> "found"]
      <4>1. CASE n - 1 <= N
        <5>1. n - 1 = N BY <1>2, <2>3, <4>1
        <5>2. QED BY <1>6, <2>1, <4>1, <5>1
      <4>2. CASE ~(n - 1 <= N) BY <2>1, <4>2
      <4>3. QED BY <4>1, <4>2
    <3>3. P[n].head = NoCrc BY <1>4, <2>3
    <3>4. Len(D) \in Nat BY <1>2, <1>5
    <3> HIDE DEF f, s, D
    <3>5. /\ s = [db |-> s.db, read |-> s.read, end |-> s.end]
          /\ s.db = D /\ s.read = N /\ (s.end = "open" \/ s.end = "found")
      BY <3>2
    <3>6. BondLoaded(P, n, s) = [db |-> s.db, read |-> s.read, end |-> "found"]
      BY <3>3, <3>5, BondsEnd
    <3>7. QED BY <3>1, <3>5, <3>6 DEF s
  <2>4. QED BY <2>2, <2>3
<1>9. Succeeded(f[MaxRecords]) /\ f[MaxRecords].read = N /\ f[MaxRecords].db = Bare(d)
  <2>1. CASE N = MaxRecords BY <1>2, <1>6, <2>1 DEF Succeeded
  <2>2. CASE N # MaxRecords BY <1>2, <2>2 DEF Succeeded
  <2>3. QED BY <2>1, <2>2
<1>10. Fits(f)
  <2>1. f = [n \in 0..MaxRecords |-> f[n]] OBVIOUS
  <2> HIDE DEF f
  <2>2. \A n \in 0..MaxRecords : n = 0 \/ n \in 1..MaxRecords BY <1>2
  <2>3. \A n \in 0..MaxRecords : f[n] = IF n = 0 THEN base ELSE BondLoaded(P, n, f[n - 1])
    BY <1>7, <1>8, <2>2
  <2>4. QED BY <2>1, <2>3
<1>11. Fits(after) BY <1>10
<1>12. after[0] = base /\ \A n \in 1..MaxRecords : after[n] = BondLoaded(P, n, after[n - 1])
  <2> HIDE DEF after
  <2>1. 0 \in 0..MaxRecords /\ \A n \in 1..MaxRecords : n \in 0..MaxRecords /\ n # 0 BY <1>2
  <2>2. \A n \in 0..MaxRecords : after[n] = IF n = 0 THEN base ELSE BondLoaded(P, n, after[n - 1])
    BY <1>11
  <2>3. QED BY <2>1, <2>2
<1> HIDE DEF f, after, Fits
<1>13. GoAlike(MaxRecords, after, f) BY <1>7, <1>8, <1>12 DEF GoAlike
<1>14. after[MaxRecords] = f[MaxRecords] BY <1>2, <1>13, SameRecursion
<1>15. Succeeded(LoadBonds(P)) /\ LoadBonds(P).read = N /\ LoadBonds(P).db = Bare(d)
  BY <1>1, <1>9, <1>14
<1>16. QED BY <1>15 DEF P, N, recs

\* One record of the page of attributes.
LEMMA AttrTaken ==
  ASSUME NEW page, NEW n, NEW masters, NEW s, s.end = "open", Len(masters) \in Nat,
         page[n].head # NoCrc, Intact(page, n),
         page[n].body.handle \in Int, page[n].body.handle < Len(masters)
  PROVE  AttrLoaded(page, masters, n, s)
           = [read |-> n, end |-> "open",
              db |-> IF page[n].body.handle \in 0..(Len(masters) - 1)
                     THEN [s.db EXCEPT ![page[n].body.handle + 1] =
                             Master(@.id, @.div, page[n].body.data, page[n].body.handle)]
                     ELSE s.db]
<1>1. ~(page[n].body.handle > Len(masters)) OBVIOUS
<1>2. QED BY <1>1 DEF AttrLoaded

\* Likewise for the attributes.
LEMMA AttrsEnd ==
  ASSUME NEW page, NEW n, NEW masters, NEW s, s = [db |-> s.db, read |-> s.read, end |-> s.end],
         s.end = "found" \/ (s.end = "open" /\ page[n].head = NoCrc)
  PROVE  AttrLoaded(page, masters, n, s) = [db |-> s.db, read |-> s.read, end |-> "found"]
<1> DEFINE D == s.db
           m == s.read
           t == [db |-> D, read |-> m, end |-> "open"]
           u == [db |-> D, read |-> m, end |-> "found"]
<1>1. CASE s.end = "found"
  <2>1. s.end # "open" BY <1>1
  <2>2. AttrLoaded(page, masters, n, s) = s BY <2>1 DEF AttrLoaded
  <2>3. QED BY <1>1, <2>2
<1>2. CASE s.end = "open" /\ page[n].head = NoCrc
  <2>1. s = t BY <1>2
  <2>2. [t EXCEPT !.end = "found"] = u
    <3> HIDE DEF D, m
    <3>1. QED OBVIOUS
  <2> HIDE DEF t, u
  <2>3. AttrLoaded(page, masters, n, s) = [s EXCEPT !.end = "found"] BY <1>2 DEF AttrLoaded
  <2>4. QED BY <2>1, <2>2, <2>3 DEF u
<1>3. QED BY <1>1, <1>2

\* LoadAttrs is what its recursion equations say.
AttrRun(page, masters, f) ==
  /\ f = [n \in 0..Len(masters) |-> f[n]]
  /\ f[0] = [db |-> masters, read |-> 0, end |-> "open"]
  /\ \A n \in 1..Len(masters) : f[n] = AttrLoaded(page, masters, n, f[n - 1])

\* Loading attributes is the recursion over the records of the page.
LEMMA LoadAttrsIs ==
  ASSUME NEW page, NEW masters, Len(masters) \in Nat, NEW f, AttrRun(page, masters, f)
  PROVE  LoadAttrs(page, masters) = f[Len(masters)]
<1> DEFINE N == Len(masters)
           base == [db |-> masters, read |-> 0, end |-> "open"]
           Fits(g) == g = [n \in 0..N |->
                             IF n = 0 THEN base ELSE AttrLoaded(page, masters, n, g[n - 1])]
           after == CHOOSE g : Fits(g)
<1>1. LoadAttrs(page, masters) = after[N] BY DEF LoadAttrs
<1> HIDE DEF N, base
<1>2. Fits(f)
  <2>1. \A n \in 0..N : n = 0 \/ n \in 1..N BY DEF N
  <2>2. \A n \in 0..N : f[n] = IF n = 0 THEN base ELSE AttrLoaded(page, masters, n, f[n - 1])
    BY <2>1 DEF N, base, AttrRun
  <2>3. f = [n \in 0..N |-> f[n]] BY DEF N, AttrRun
  <2>4. QED BY <2>2, <2>3
<1>3. Fits(after) BY <1>2
<1>4. after[0] = base /\ \A n \in 1..N : after[n] = AttrLoaded(page, masters, n, after[n - 1])
  <2> HIDE DEF after
  <2>1. 0 \in 0..N /\ \A n \in 1..N : n \in 0..N /\ n # 0 BY DEF N
  <2>2. \A n \in 0..N : after[n] = IF n = 0 THEN base
                                   ELSE AttrLoaded(page, masters, n, after[n - 1])
    BY <1>3
  <2>3. QED BY <2>1, <2>2
<1> HIDE DEF after
<1>5. GoAlike(N, after, f) BY <1>4 DEF GoAlike, N, base, AttrRun
<1>6. N \in Nat BY DEF N
<1>7. QED BY <1>1, <1>5, <1>6, SameRecursion DEF N

\* The handle kept with the attributes of a master is its own, or none.
HandlesFit(d) == \A i \in 1..Len(d) : d[i].attrHandle \in {i - 1, NoHandle}

\* The masters as they come back with the attributes stored for them.
Reloaded(d) == [i \in 1..Len(d) |-> IF d[i].attrHandle = i - 1 THEN d[i] ELSE Bare(d)[i]]

\* What the records of a page of attributes make of the masters loaded.
LEMMA LoadAttrsFacts ==
  ASSUME NEW d \in Seq(MasterType), Len(d) <= MaxMasters, HandlesFit(d)
  PROVE  LET a == LoadAttrs(Page(Records("attr", d)), Bare(d))
         IN  Succeeded(a) /\ a.read = Len(d) /\ a.db = Reloaded(d)
<1> DEFINE recs == Records("attr", d)
           P == Page(recs)
           N == Len(d)
           B == Bare(d)
           Mixed(n) == [i \in 1..N |-> IF i <= n /\ d[i].attrHandle = i - 1 THEN d[i] ELSE B[i]]
           f == [n \in 0..N |-> [db |-> Mixed(n), read |-> n, end |-> "open"]]
<1>1. N \in Nat /\ N <= MaxRecords /\ MaxMasters \in Nat BY LenProperties, SizeAssumption
<1>2. recs \in Seq(Body) /\ Len(recs) = N
      /\ \A i \in 1..N : recs[i] = AttrRecord(d, i)
  BY RecordsFacts DEF Kind
<1>3. \A n \in 1..N : P[n].body = recs[n] /\ P[n].head # NoCrc /\ Intact(P, n)
  BY <1>1, <1>2, PageFacts
<1>4. /\ B \in Seq(MasterType) /\ Len(B) = N
      /\ \A i \in 1..N : B[i] = Master(d[i].id, d[i].div, None, NoHandle)
  BY BareFacts
<1>5. \A i \in 1..N : d[i] = Master(d[i].id, d[i].div, d[i].attr, d[i].attrHandle)
  <2>1. \A i \in 1..N : d[i] \in MasterType BY ElementOfSeq
  <2> HIDE DEF N
  <2>2. QED BY <2>1 DEF MasterType, Master
<1>6. Mixed(0) = B
  <2>1. B = [i \in 1..N |-> B[i]] BY <1>4, LenProperties
  <2> HIDE DEF B
  <2>2. \A i \in 1..N : ~(i <= 0) BY <1>1
  <2>3. QED BY <2>1, <2>2
<1>7. Mixed(N) = Reloaded(d) BY <1>1 DEF Reloaded
<1> HIDE DEF P, B, recs, N
<1>8. f[0] = [db |-> B, read |-> 0, end |-> "open"]
  <2>1. 0 \in 0..N BY <1>1
  <2> HIDE DEF Mixed
  <2>2. QED BY <1>6, <2>1
<1>9. ASSUME NEW n \in 1..N PROVE f[n] = AttrLoaded(P, B, n, f[n - 1])
  <2> DEFINE s == f[n - 1]
             h == d[n].attrHandle
             D == Mixed(n - 1)
             E == Mixed(n)
  <2>1. n \in 0..N /\ n - 1 \in 0..N BY <1>1
  <2>2. f[n] = [db |-> E, read |-> n, end |-> "open"] /\ s.db = D /\ s.end = "open"
    <3> HIDE DEF Mixed
    <3>1. QED BY <2>1
  <2>3. P[n].body = [handle |-> h, data |-> d[n].attr] BY <1>2, <1>3 DEF AttrRecord
  <2>4. P[n].body.handle = h /\ P[n].body.data = d[n].attr BY <2>3
  <2>5. h \in Int /\ (h = n - 1 \/ h = -1) /\ h < N BY <1>1 DEF HandlesFit, NoHandle, N
  <2>6. AttrLoaded(P, B, n, s)
          = [read |-> n, end |-> "open",
             db |-> IF h \in 0..(N - 1)
                    THEN [D EXCEPT ![h + 1] = Master(@.id, @.div, d[n].attr, h)] ELSE D]
    <3> HIDE DEF D, s, h, E, f
    <3>1. Len(B) = N /\ P[n].head # NoCrc /\ Intact(P, n) BY <1>3, <1>4
    <3>2. /\ s.end = "open" /\ Len(B) \in Nat
          /\ P[n].body.handle \in Int /\ P[n].body.handle < Len(B)
      BY <1>1, <2>2, <2>4, <2>5, <3>1
    <3>3. AttrLoaded(P, B, n, s)
           = [read |-> n, end |-> "open",
              db |-> IF P[n].body.handle \in 0..(Len(B) - 1)
                     THEN [s.db EXCEPT ![P[n].body.handle + 1] =
                             Master(@.id, @.div, P[n].body.data, P[n].body.handle)]
                     ELSE s.db]
      BY <3>1, <3>2, AttrTaken
    <3>4. QED BY <2>2, <2>4, <3>1, <3>3
  <2>7. \A i \in 1..N : i # n => D[i] = E[i]
    <3>1. \A i \in 1..N : i # n => (i <= n - 1 <=> i <= n) BY <1>1
    <3>2. QED BY <3>1
  <2>8. D = [i \in 1..N |-> D[i]] /\ E = [i \in 1..N |-> E[i]] OBVIOUS
  <2>9. D[n] = Master(d[n].id, d[n].div, None, NoHandle)
    <3>1. ~(n <= n - 1) BY <1>1
    <3>2. QED BY <1>4, <3>1
  <2>10. CASE h = n - 1
    <3>1. E[n] = Master(d[n].id, d[n].div, d[n].attr, h)
      <4>1. n <= n BY <1>1
      <4>2. E[n] = d[n] BY <2>10, <4>1
      <4>3. QED BY <1>5, <4>2
    <3>2. h + 1 = n /\ h \in 0..(N - 1) BY <1>1, <2>10
    <3> HIDE DEF D, E, h, f
    <3>3. D[n].id = d[n].id /\ D[n].div = d[n].div BY <2>9 DEF Master
    <3>4. [D EXCEPT ![n] = E[n]] = E BY <2>7, <2>8
    <3>5. [D EXCEPT ![n] = Master(@.id, @.div, d[n].attr, h)] = [D EXCEPT ![n] = E[n]]
      BY <3>1, <3>3
    <3>6. AttrLoaded(P, B, n, s) = [read |-> n, end |-> "open", db |-> E]
      BY <2>6, <3>2, <3>4, <3>5
    <3>7. QED BY <2>2, <3>6 DEF s
  <2>11. CASE h = -1
    <3>1. E[n] = D[n] BY <1>1, <1>4, <2>9, <2>11
    <3>2. E = D BY <2>7, <2>8, <3>1
    <3>3. h \notin 0..(N - 1) BY <1>1, <2>11
    <3> HIDE DEF D, E, h, f
    <3>4. QED BY <2>2, <2>6, <3>2, <3>3 DEF s
  <2>12. QED BY <2>5, <2>10, <2>11
<1>10. f = [n \in 0..N |-> f[n]] OBVIOUS
<1>11. f[N] = [db |-> Mixed(N), read |-> N, end |-> "open"] BY <1>1
<1> HIDE DEF f, Mixed
<1>12. LoadAttrs(P, B) = f[N]
  <2>1. Len(B) = N BY <1>4
  <2>2. AttrRun(P, B, f) BY <1>8, <1>9, <1>10, <2>1 DEF AttrRun
  <2>3. QED BY <1>1, <2>1, <2>2, LoadAttrsIs
<1>13. QED BY <1>7, <1>11, <1>12 DEF P, B, N, recs, Succeeded

\* There are no attributes to load from an erased page.
LEMMA LoadNoAttrs ==
  ASSUME NEW d \in Seq(MasterType), Len(d) <= MaxMasters
  PROVE  LET a == LoadAttrs(Page(<<>>), Bare(d))
         IN  Succeeded(a) /\ a.read = 0 /\ a.db = Bare(d)
<1> DEFINE P == Page(<<>>)
           N == Len(d)
           B == Bare(d)
           f == [n \in 0..N |-> [db |-> B, read |-> 0, end |-> IF n = 0 THEN "open" ELSE "found"]]
<1>1. N \in Nat /\ N <= MaxRecords /\ MaxMasters \in Nat /\ MaxRecords \in Nat
  BY LenProperties, SizeAssumption
<1>2. \A n \in 1..N : P[n].head = NoCrc
  <2>1. <<>> \in Seq(Body) /\ Len(<<>>) = 0 BY EmptySeq
  <2>2. \A n \in 1..N : n \in Slot /\ ~(n <= 0) BY <1>1 DEF Slot
  <2>3. QED BY <1>1, <2>1, <2>2 DEF Page
<1>3. Len(B) = N BY BareFacts
<1> HIDE DEF P, B, N
<1>4. f[0] = [db |-> B, read |-> 0, end |-> "open"] BY <1>1
<1>5. ASSUME NEW n \in 1..N PROVE f[n] = AttrLoaded(P, B, n, f[n - 1])
  <2>1. n \in 0..N /\ n - 1 \in 0..N /\ n # 0 BY <1>1
  <2>2. f[n] = [db |-> B, read |-> 0, end |-> "found"] BY <2>1
  <2> DEFINE s == f[n - 1]
  <2>3. \/ s = [db |-> B, read |-> 0, end |-> "open"]
        \/ s = [db |-> B, read |-> 0, end |-> "found"]
    BY <2>1
  <2> HIDE DEF f, s
  <2>4. /\ s = [db |-> s.db, read |-> s.read, end |-> s.end]
        /\ s.db = B /\ s.read = 0 /\ (s.end = "open" \/ s.end = "found")
    BY <2>3
  <2>5. P[n].head = NoCrc BY <1>2
  <2>6. AttrLoaded(P, B, n, s) = [db |-> s.db, read |-> s.read, end |-> "found"]
    BY <2>4, <2>5, AttrsEnd
  <2>7. QED BY <2>2, <2>4, <2>6 DEF s
<1>6. f = [n \in 0..N |-> f[n]] OBVIOUS
<1>7. \/ f[N] = [db |-> B, read |-> 0, end |-> "open"]
      \/ f[N] = [db |-> B, read |-> 0, end |-> "found"]
  BY <1>1
<1> HIDE DEF f
<1>8. LoadAttrs(P, B) = f[N]
  <2>1. AttrRun(P, B, f) BY <1>3, <1>4, <1>5, <1>6 DEF AttrRun
  <2>2. QED BY <1>1, <1>3, <2>1, LoadAttrsIs
<1>9. QED BY <1>7, <1>8 DEF P, B, N, Succeeded

\* What initialization makes of two pages of records of the same masters.
LEMMA LoadFacts ==
  ASSUME NEW d \in Seq(MasterType), Len(d) <= MaxMasters, HandlesFit(d),
         NEW f, f["bond"] = Page(Records("bond", d)),
         NEW c, c = Records("attr", d) \/ c = <<>>, f["attr"] = Page(c), NEW crc
  PROVE  LET l == Load(f, crc)
         IN  /\ l.ok
             /\ l.db = IF c = <<>> THEN Bare(d) ELSE Reloaded(d)
             /\ l.known = [k \in Kind |->
                             IF k = "bond" THEN [count |-> Len(d), crc |-> Records("bond", d)]
                             ELSE [count |-> Len(c), crc |-> IF d = <<>> THEN crc ELSE c]]
             /\ l.stray <=> \E i \in 1..Len(c) : c[i].handle \notin 0..(MaxMasters - 1)
<1> DEFINE b == LoadBonds(f["bond"])
           a == LoadAttrs(f["attr"], b.db)
           l == Load(f, crc)
<1>1. Succeeded(b) /\ b.read = Len(d) /\ b.db = Bare(d) BY LoadBondsFacts
<1>2. /\ Records("bond", d) \in Seq(Body) /\ Len(Records("bond", d)) = Len(d)
      /\ Records("attr", d) \in Seq(Body) /\ Len(Records("attr", d)) = Len(d)
  BY RecordsFacts DEF Kind
<1>3. Len(d) \in Nat /\ MaxMasters <= MaxRecords /\ MaxMasters \in Nat /\ MaxRecords \in Nat
  BY SizeAssumption, LenProperties
<1>4. c \in Seq(Body) /\ Len(c) <= MaxRecords
  <2>1. CASE c = <<>> BY <1>3, <2>1, EmptySeq
  <2>2. CASE c = Records("attr", d)
    <3> DEFINE ra == Records("attr", d)
    <3>1. c = ra /\ ra \in Seq(Body) /\ Len(ra) = Len(d) BY <1>2, <2>2
    <3> HIDE DEF ra
    <3>2. QED BY <1>3, <3>1
  <2>3. QED BY <2>1, <2>2
<1>5. Succeeded(a) /\ a.read = Len(c) /\ a.db = IF c = <<>> THEN Bare(d) ELSE Reloaded(d)
  <2>1. CASE c = <<>>
    <3>1. Succeeded(a) /\ a.read = 0 /\ a.db = Bare(d) BY <1>1, <2>1, LoadNoAttrs
    <3>2. Len(c) = 0 BY <2>1, EmptySeq
    <3>3. QED BY <2>1, <3>1, <3>2
  <2>2. CASE c # <<>>
    <3>1. c = Records("attr", d) BY <2>2
    <3>2. Succeeded(a) /\ a.read = Len(d) /\ a.db = Reloaded(d) BY <1>1, <3>1, LoadAttrsFacts
    <3>3. QED BY <1>2, <2>2, <3>1, <3>2
  <2>3. QED BY <2>1, <2>2
<1>6. Bodies(f["bond"], Len(d)) = Records("bond", d) /\ Bodies(f["attr"], Len(c)) = c
  <2> DEFINE rb == Records("bond", d)
  <2>1. rb \in Seq(Body) /\ Len(rb) = Len(d) /\ Len(rb) <= MaxRecords BY <1>2, <1>3
  <2> HIDE DEF rb
  <2>2. Bodies(Page(rb), Len(rb)) = rb BY <2>1, PageFacts
  <2>3. Bodies(Page(c), Len(c)) = c BY <1>4, PageFacts
  <2>4. QED BY <2>1, <2>2, <2>3 DEF rb
<1>7. \A i \in 1..Len(c) : f["attr"][i].body = c[i] BY <1>4, PageFacts
<1>8. Bare(d) = <<>> <=> d = <<>>
  <2>1. Len(Bare(d)) = Len(d) /\ Bare(d) \in Seq(MasterType) BY BareFacts
  <2>2. QED BY <2>1, EmptySeq
<1> DEFINE kn == [k \in Kind |->
         IF k = "bond" THEN [count |-> b.read, crc |-> Bodies(f["bond"], b.read)]
         ELSE [count |-> a.read,
               crc |-> IF b.db = <<>> THEN crc ELSE Bodies(f["attr"], a.read)]]
           ok == Succeeded(b) /\ Succeeded(a)
           out == Succeeded(b) /\ Outside(f["attr"], a.read)
<1>9. l = [ok |-> ok, db |-> a.db, stray |-> out, known |-> kn] BY DEF Load
<1>10. kn = [k \in Kind |->
               IF k = "bond" THEN [count |-> Len(d), crc |-> Records("bond", d)]
               ELSE [count |-> Len(c), crc |-> IF d = <<>> THEN crc ELSE c]]
  <2> HIDE DEF a, b
  <2>1. QED BY <1>1, <1>5, <1>6, <1>8
<1>11. out <=> \E i \in 1..Len(c) : c[i].handle \notin 0..(MaxMasters - 1)
  <2> HIDE DEF a, b
  <2>1. QED BY <1>1, <1>5, <1>7 DEF Outside
<1>12. ok BY <1>1, <1>5
<1> HIDE DEF kn, out, ok, a, b, l
<1>13. l.ok = ok /\ l.db = a.db /\ l.stray = out /\ l.known = kn BY <1>9
<1>14. QED BY <1>5, <1>10, <1>11, <1>12, <1>13 DEF l

\* The first element of a sequence with a property.
LEMMA SelectFacts ==
  ASSUME NEW S, NEW s \in Seq(S)
  PROVE  /\ \A p : (\E i \in DOMAIN s : s[i].id = p) =>
                   LET j == SelectInSeq(s, LAMBDA m : m.id = p) IN j \in DOMAIN s /\ s[j].id = p
         /\ \A d : (\E i \in DOMAIN s : s[i].div = d) =>
                   LET j == SelectInSeq(s, LAMBDA m : m.div = d) IN j \in DOMAIN s /\ s[j].div = d
<1> DEFINE N == Len(s)
<1>1. N \in Nat /\ DOMAIN s = 1..N BY LenProperties
<1> HIDE DEF N
<1>2. ASSUME NEW I \in SUBSET (1..N), I # {} PROVE Min(I) \in I
  <2>1. I \subseteq Nat OBVIOUS
  <2>2. PICK x \in I : \A y \in I : x <= y BY <1>2, <2>1, Minimum
  <2>3. QED BY <2>2 DEF Min
<1>3. ASSUME NEW p, \E i \in DOMAIN s : s[i].id = p
      PROVE  LET j == SelectInSeq(s, LAMBDA m : m.id = p) IN j \in DOMAIN s /\ s[j].id = p
  <2> DEFINE I == {i \in 1..N : s[i].id = p}
  <2>1. I \in SUBSET (1..N) /\ I # {} BY <1>1, <1>3
  <2>2. SelectInSeq(s, LAMBDA m : m.id = p) = Min(I) BY <2>1 DEF SelectInSeq, N
  <2>3. Min(I) \in I
    <3> HIDE DEF I
    <3>1. QED BY <1>2, <2>1
  <2>4. QED BY <1>1, <2>2, <2>3
<1>4. ASSUME NEW d, \E i \in DOMAIN s : s[i].div = d
      PROVE  LET j == SelectInSeq(s, LAMBDA m : m.div = d) IN j \in DOMAIN s /\ s[j].div = d
  <2> DEFINE I == {i \in 1..N : s[i].div = d}
  <2>1. I \in SUBSET (1..N) /\ I # {} BY <1>1, <1>4
  <2>2. SelectInSeq(s, LAMBDA m : m.div = d) = Min(I) BY <2>1 DEF SelectInSeq, N
  <2>3. Min(I) \in I
    <3> HIDE DEF I
    <3>1. QED BY <1>2, <2>1
  <2>4. QED BY <1>1, <2>2, <2>3
<1>5. QED BY <1>3, <1>4

\* The master found by its address or diversifier is in the database.
LEMMA FoundFacts ==
  ASSUME db \in Seq(MasterType)
  PROVE  /\ \A p : (\E i \in DOMAIN db : db[i].id = p) =>
                   WithId(p) \in DOMAIN db /\ db[WithId(p)].id = p
         /\ \A d : (\E i \in DOMAIN db : db[i].div = d) =>
                   WithDiv(d) \in DOMAIN db /\ db[WithDiv(d)].div = d
BY SelectFacts DEF WithId, WithDiv

-----------------------------------------------------------------------------
(* The inductive invariant.                                                 *)

\* The records that a page holds once the call in progress is done with it.
Content(k) == IF known[k].count = 0 THEN <<>> ELSE known[k].crc
Pages      == [k \in Kind |-> Page(Content(k))]

CurType  == [handle : Int, id : Peers \cup {NoPeer}, div : Div \cup {NoDiv},
             attr : Attr, attrHandle : Int]
LoadedType == [bond : BOOLEAN, attr : BOOLEAN]
LinkType == [peer : Peers \cup {NoPeer}, enc : BOOLEAN, bonding : BOOLEAN,
             sec : {"none", "keyed", "pairing", "paired", "refused"},
             attr : Attr \cup {Missing}]

StoreType ==
  /\ db \in Seq(MasterType) /\ Len(db) <= MaxMasters
  /\ known \in [Kind -> [count : 0..MaxRecords, crc : Seq(Body) \cup {ZeroCrc}]]
  /\ job \in Seq(Op)
  /\ flash = [k \in Kind |-> flash[k]]

SessionType ==
  /\ cur \in CurType
  /\ loaded \in LoadedType
  /\ link \in LinkType
  /\ peerDiv \in [Peers -> Div \cup {NoDiv}]

\* The flash operations in progress end with the pages that the RAM variables
\* tell of.
JobInv ==
  /\ up /\ (stray => emptied)
  /\ \A k \in Kind : Content(k) \in Seq(Body) /\ Len(Content(k)) = known[k].count
  /\ Leads(flash, job, Pages)

\* The current master is the peer of the link, except where the peer has asked
\* for the keys of another one and cannot have them.
LinkInv ==
  /\ ~Connected => link = NoLink /\ ~Bonded /\ loaded = NotLoaded
  /\ Connected => cur.id = link.peer \/ link.sec = "refused"
  /\ link.enc => link.sec # "refused"
  /\ loaded.attr => link.enc
  /\ link.sec = "paired" => loaded.attr
  /\ AttributesOfPeer

Current(i) == Bonded /\ i = cur.handle + 1

\* A master keeps its own attributes under its own handle; the handle of the
\* current one may be wrong until the disconnection that sets it.
MasterInv ==
  /\ Bonded => /\ cur.handle + 1 \in 1..Len(db)
               /\ db[cur.handle + 1].id = cur.id
               /\ cur.div \in Div
  /\ cur.attr \in {None, Off, cur.id}
  /\ \A i \in 1..Len(db) : db[i].attr \in {None, Off, db[i].id}
  /\ \A i \in 1..Len(db) : \/ Current(i) /\ loaded.attr
                           \/ db[i].attrHandle = i - 1
                           \/ emptied /\ db[i].attrHandle = NoHandle

\* The database is in flash whenever there is no current master.
Synced ==
  /\ Content("bond") = Records("bond", db)
  /\ Content("attr") = Records("attr", db) \/ (emptied /\ Content("attr") = <<>>)

SyncInv == ~stray =>
  /\ db # <<>> => known["bond"].count > 0
  /\ ~emptied /\ known["attr"].count = 0 => known["attr"].crc \in {<<>>, ZeroCrc}
  /\ ~Bonded => Synced

IInv == StoreType /\ SessionType /\ JobInv /\ LinkInv /\ MasterInv /\ SyncInv

storeVars == <<db, known, flash, job, up, stray, emptied>>

\* A step of the link that leaves the database and the flash alone.
LEMMA SessionStep ==
  ASSUME IInv, UNCHANGED storeVars, SessionType', LinkInv', MasterInv', Bonded => Bonded'
  PROVE  IInv'
<1>1. StoreType' BY DEF IInv, StoreType, storeVars
<1>2. \A k : Content(k)' = Content(k) BY DEF Content, storeVars
<1>3. Pages' = Pages BY <1>2 DEF Pages
<1>4. JobInv' BY <1>2, <1>3 DEF IInv, JobInv, storeVars
<1>5. SyncInv' BY <1>2 DEF IInv, SyncInv, Synced, storeVars
<1>6. QED BY <1>1, <1>4, <1>5 DEF IInv

\* What happens at rest finds the flash as the RAM variables tell.
LEMMA RestFacts ==
  ASSUME IInv, job = <<>>
  PROVE  /\ flash = Pages
         /\ ~Bonded => HandlesFit(db)
<1>1. flash = Pages BY LeadsNowhereElse DEF IInv, JobInv
<1>2. ~Bonded => HandlesFit(db)
  BY DEF IInv, MasterInv, HandlesFit, Current, NoHandle
<1>3. QED BY <1>1, <1>2

\* The steps of a connection.
LEMMA ConnectStep ==
  ASSUME IInv, NEW p \in Peers, Connect(p)
  PROVE  IInv'
<1>1. UNCHANGED storeVars BY DEF Connect, storeVars
<1>2. ~Connected /\ ~Bonded /\ loaded = NotLoaded BY DEF IInv, LinkInv, Connect
<1>3. link' = [peer |-> p, enc |-> FALSE, bonding |-> FALSE, sec |-> "none", attr |-> Missing]
  BY DEF Connect, NoLink
<1>4. loaded' = NotLoaded BY <1>2 DEF Connect
<1>5. p # NoPeer /\ Connected' BY <1>3, NoneAssumption DEF Connected
<1>6. /\ cur' \in CurType /\ cur'.id = p /\ cur'.attr \in {None, Off, p}
      /\ Bonded' => cur'.handle + 1 \in 1..Len(db) /\ db[cur'.handle + 1].id = p /\ cur'.div \in Div
  <2>1. CASE /\ \E i \in DOMAIN db : db[i].id = p
             /\ cur' = Entry(WithId(p))
    <3> DEFINE i == WithId(p)
    <3>1. i \in 1..Len(db) /\ db[i].id = p BY <2>1, FoundFacts DEF IInv, StoreType
    <3>2. db[i] \in MasterType BY <3>1 DEF IInv, StoreType
    <3>3. db[i].attr \in {None, Off, p} BY <3>1 DEF IInv, MasterInv
    <3> HIDE DEF i
    <3>4. QED BY <2>1, <3>1, <3>2, <3>3 DEF Entry, HandleOf, CurType, MasterType, i
  <2>2. CASE cur' = [cur EXCEPT !.handle = NoHandle, !.id = p, !.attr = None]
    <3>1. cur \in CurType BY DEF IInv, SessionType
    <3>2. NoHandle \in Int /\ None \in Attr BY DEF NoHandle, Attr
    <3>3. cur'.handle = NoHandle /\ cur'.id = p /\ cur'.attr = None BY <2>2, <3>1 DEF CurType
    <3>4. cur' \in CurType BY <2>2, <3>1, <3>2 DEF CurType
    <3>5. QED BY <3>3, <3>4 DEF Bonded
  <2>3. QED BY <2>1, <2>2 DEF Connect
<1>7. SessionType'
  <2>1. link' \in LinkType BY <1>3 DEF LinkType
  <2>2. loaded' \in LoadedType BY <1>4 DEF NotLoaded, LoadedType
  <2>3. QED BY <1>6, <2>1, <2>2 DEF SessionType, IInv, Connect
<1>8. LinkInv' BY <1>3, <1>4, <1>5, <1>6 DEF LinkInv, AttributesOfPeer, NotLoaded
<1>9. MasterInv' BY <1>1, <1>2, <1>6 DEF IInv, MasterInv, Current, storeVars
<1>10. QED BY <1>1, <1>2, <1>7, <1>8, <1>9, SessionStep

LEMMA SecInfoRequestStep ==
  ASSUME IInv, SecInfoRequest
  PROVE  IInv'
<1> DEFINE d == peerDiv[link.peer]
           i == WithDiv(d)
<1>1. UNCHANGED storeVars /\ UNCHANGED peerDiv BY DEF SecInfoRequest, storeVars
<1>2. Connected /\ link.sec = "none" /\ ~link.enc /\ d # NoDiv BY DEF SecInfoRequest
<1>3. cur \in CurType /\ loaded \in LoadedType /\ link \in LinkType /\ db \in Seq(MasterType)
  BY DEF IInv, SessionType, StoreType
<1>4. link.peer \in Peers /\ cur.id = link.peer BY <1>2, <1>3 DEF IInv, LinkInv, LinkType, Connected
<1>5. d \in Div BY <1>2, <1>4 DEF IInv, SessionType
<1>6. ~loaded.attr BY <1>2 DEF IInv, LinkInv
<1>7. link.attr \in {Missing, Off, link.peer} BY DEF IInv, LinkInv, AttributesOfPeer
<1>8. CASE /\ \E j \in DOMAIN db : db[j].div = d
           /\ cur' = Entry(i)
           /\ loaded' = [loaded EXCEPT !.bond = TRUE]
           /\ link' = [link EXCEPT !.sec = IF cur'.id = link.peer THEN "keyed" ELSE "refused"]
  <2>1. i \in 1..Len(db) /\ db[i].div = d BY <1>3, <1>8, FoundFacts
  <2>2. db[i] \in MasterType BY <1>3, <2>1
  <2>3. db[i].attr \in {None, Off, db[i].id} BY <2>1 DEF IInv, MasterInv
  <2> HIDE DEF i
  <2>4. /\ cur' \in CurType /\ cur'.handle + 1 = i /\ cur'.id = db[i].id
        /\ cur'.div = d /\ cur'.attr = db[i].attr
    BY <1>8, <2>1, <2>2 DEF Entry, HandleOf, CurType, MasterType
  <2>5. loaded' \in LoadedType /\ loaded'.attr = loaded.attr BY <1>3, <1>8 DEF LoadedType
  <2>6. /\ link'.peer = link.peer /\ link'.enc = link.enc /\ link'.attr = link.attr
        /\ link'.sec = IF cur'.id = link.peer THEN "keyed" ELSE "refused"
    BY <1>3, <1>8 DEF LinkType
  <2>7. link' \in LinkType BY <1>3, <1>8 DEF LinkType
  <2>8. SessionType' BY <1>1, <2>4, <2>5, <2>7 DEF IInv, SessionType
  <2>9. Connected' BY <1>2, <2>6 DEF Connected
  <2>10. LinkInv'
    BY <1>2, <1>6, <1>7, <2>5, <2>6, <2>9 DEF LinkInv, AttributesOfPeer
  <2>11. UNCHANGED <<db, emptied>> BY <1>1 DEF storeVars
  <2>12. MasterInv' BY <1>5, <1>6, <2>1, <2>3, <2>4, <2>11 DEF IInv, MasterInv, Current
  <2>13. Bonded' BY <2>1, <2>4 DEF Bonded, NoHandle
  <2>14. QED BY <1>1, <2>8, <2>10, <2>12, <2>13, SessionStep
<1>9. CASE /\ cur' = [cur EXCEPT !.div = d]
           /\ link' = [link EXCEPT !.attr = Off]
           /\ loaded' = loaded
  <2> HIDE DEF d
  <2>1. cur' \in CurType BY <1>3, <1>5, <1>9 DEF CurType
  <2>2. cur'.handle = cur.handle /\ cur'.id = cur.id /\ cur'.div = d /\ cur'.attr = cur.attr
    BY <1>3, <1>9 DEF CurType
  <2>3. link' \in LinkType BY <1>3, <1>9 DEF LinkType, Attr
  <2>4. link'.peer = link.peer /\ link'.enc = link.enc /\ link'.sec = link.sec /\ link'.attr = Off
    BY <1>3, <1>9 DEF LinkType
  <2>5. SessionType' BY <1>1, <1>9, <2>1, <2>3 DEF IInv, SessionType
  <2>6. Connected' BY <1>2, <2>4 DEF Connected
  <2>7. LinkInv'
    BY <1>2, <1>4, <1>6, <1>9, <2>2, <2>4, <2>6 DEF LinkInv, AttributesOfPeer
  <2>8. UNCHANGED <<db, emptied>> BY <1>1 DEF storeVars
  <2>9. MasterInv' BY <1>5, <1>9, <2>2, <2>8 DEF IInv, MasterInv, Current, Bonded
  <2>10. Bonded => Bonded' BY <2>2 DEF Bonded
  <2>11. QED BY <1>1, <2>5, <2>7, <2>9, <2>10, SessionStep
<1>10. QED BY <1>8, <1>9 DEF SecInfoRequest

LEMMA SecParamsRequestStep ==
  ASSUME IInv, SecParamsRequest
  PROVE  IInv'
<1>1. UNCHANGED storeVars /\ UNCHANGED <<loaded, peerDiv>> BY DEF SecParamsRequest, storeVars
<1>2. Connected /\ link.sec = "none" BY DEF SecParamsRequest
<1>3. cur \in CurType /\ link \in LinkType BY DEF IInv, SessionType
<1>4. link' = [link EXCEPT !.sec = "pairing", !.bonding = TRUE] BY DEF SecParamsRequest
<1>5. /\ link' \in LinkType
      /\ link'.peer = link.peer /\ link'.enc = link.enc /\ link'.attr = link.attr
      /\ link'.sec = "pairing"
  <2>1. link' \in LinkType BY <1>3, <1>4 DEF LinkType
  <2>2. /\ link'.peer = link.peer /\ link'.enc = link.enc /\ link'.attr = link.attr
        /\ link'.sec = "pairing"
    BY <1>3, <1>4 DEF LinkType
  <2>3. QED BY <2>1, <2>2
<1>6. /\ cur' \in CurType /\ cur'.handle = cur.handle /\ cur'.id = cur.id /\ cur'.div = cur.div
      /\ cur'.attr \in {None, cur.attr}
  <2>1. CASE cur' = [cur EXCEPT !.attr = None] BY <1>3, <2>1 DEF CurType, Attr
  <2>2. CASE cur' = cur BY <1>3, <2>2
  <2>3. QED BY <2>1, <2>2 DEF SecParamsRequest
<1>7. SessionType' BY <1>1, <1>5, <1>6 DEF IInv, SessionType
<1>8. Connected' BY <1>2, <1>5 DEF Connected
<1>9. LinkInv' BY <1>1, <1>2, <1>5, <1>6, <1>8 DEF IInv, LinkInv, AttributesOfPeer
<1>10. UNCHANGED <<db, emptied>> BY <1>1 DEF storeVars
<1>11. MasterInv' BY <1>1, <1>6, <1>10 DEF IInv, MasterInv, Current, Bonded
<1>12. Bonded => Bonded' BY <1>6 DEF Bonded
<1>13. QED BY <1>1, <1>7, <1>9, <1>11, <1>12, SessionStep

LEMMA ConnSecUpdateStep ==
  ASSUME IInv, ConnSecUpdate
  PROVE  IInv'
<1>1. UNCHANGED storeVars /\ UNCHANGED <<cur, peerDiv>> BY DEF ConnSecUpdate, storeVars
<1>2. Connected /\ link.sec \in {"keyed", "pairing"} BY DEF ConnSecUpdate
<1>3. cur \in CurType /\ link \in LinkType /\ loaded \in LoadedType BY DEF IInv, SessionType
<1>4. cur.id = link.peer BY <1>2 DEF IInv, LinkInv
<1>5. link.peer \in Peers BY <1>2, <1>3 DEF LinkType, Connected
<1>6. Attributes(cur) \in {Off, link.peer} BY <1>4 DEF IInv, MasterInv, Attributes
<1>7. link' = [link EXCEPT !.enc = TRUE, !.attr = Attributes(cur),
                           !.sec = IF @ = "keyed" THEN "none" ELSE "paired"]
  BY DEF ConnSecUpdate
<1>8. /\ link'.peer = link.peer /\ link'.enc = TRUE /\ link'.attr = Attributes(cur)
      /\ link'.sec \in {"none", "paired"}
  BY <1>3, <1>7 DEF LinkType
<1>9. link' \in LinkType BY <1>3, <1>5, <1>6, <1>7 DEF LinkType, Attr
<1>10. loaded' \in LoadedType /\ loaded'.attr = TRUE BY <1>3 DEF ConnSecUpdate, LoadedType
<1>11. SessionType' BY <1>1, <1>9, <1>10 DEF IInv, SessionType
<1>12. Connected' BY <1>2, <1>8 DEF Connected
<1>13. LinkInv' BY <1>1, <1>4, <1>6, <1>8, <1>10, <1>12 DEF LinkInv, AttributesOfPeer
<1>14. UNCHANGED <<db, emptied>> BY <1>1 DEF storeVars
<1>15. MasterInv' BY <1>1, <1>10, <1>14 DEF IInv, MasterInv, Current, Bonded
<1>16. Bonded => Bonded' BY <1>1 DEF Bonded
<1>17. QED BY <1>1, <1>11, <1>13, <1>15, <1>16, SessionStep

LEMMA SysAttrMissingStep ==
  ASSUME IInv, SysAttrMissing
  PROVE  IInv'
<1>1. UNCHANGED storeVars /\ UNCHANGED <<cur, peerDiv>> BY DEF SysAttrMissing, storeVars
<1>2. Connected BY DEF SysAttrMissing
<1>3. cur \in CurType /\ link \in LinkType /\ loaded \in LoadedType BY DEF IInv, SessionType
<1>4. link.peer \in Peers BY <1>2, <1>3 DEF LinkType, Connected
<1>5. \E a \in {Off, link.peer} : link' = [link EXCEPT !.attr = a]
  <2>1. CASE AttrsOfMaster
    <3>1. cur.id = link.peer BY <1>2, <2>1 DEF IInv, LinkInv, AttrsOfMaster
    <3>2. Attributes(cur) \in {Off, link.peer} BY <3>1 DEF IInv, MasterInv, Attributes
    <3>3. QED BY <2>1, <3>2 DEF SysAttrMissing
  <2>2. CASE ~AttrsOfMaster BY <2>2 DEF SysAttrMissing
  <2>3. QED BY <2>1, <2>2
<1>6. /\ link'.peer = link.peer /\ link'.enc = link.enc /\ link'.sec = link.sec
      /\ link'.attr \in {Off, link.peer}
  BY <1>3, <1>5 DEF LinkType
<1>7. link' \in LinkType BY <1>3, <1>4, <1>5 DEF LinkType, Attr
<1>8. loaded' \in LoadedType /\ (loaded'.attr = loaded.attr \/ (loaded'.attr = TRUE /\ link.enc))
  BY <1>3 DEF SysAttrMissing, LoadedType, AttrsOfMaster
<1>9. SessionType' BY <1>1, <1>7, <1>8 DEF IInv, SessionType
<1>10. Connected' BY <1>2, <1>6 DEF Connected
<1>11. LinkInv' BY <1>1, <1>2, <1>6, <1>8, <1>10 DEF IInv, LinkInv, AttributesOfPeer
<1>12. UNCHANGED <<db, emptied>> BY <1>1 DEF storeVars
<1>13. MasterInv' BY <1>1, <1>8, <1>12 DEF IInv, MasterInv, Current, Bonded
<1>14. Bonded => Bonded' BY <1>1 DEF Bonded
<1>15. QED BY <1>1, <1>9, <1>11, <1>13, <1>14, SessionStep

LEMMA PeerWritesStep ==
  ASSUME IInv, PeerWrites
  PROVE  IInv'
<1>1. UNCHANGED storeVars /\ UNCHANGED <<cur, loaded, peerDiv>>
  BY DEF PeerWrites, storeVars, ramVars
<1>2. Connected BY DEF PeerWrites
<1>3. link \in LinkType /\ link.peer \in Peers BY <1>2 DEF IInv, SessionType, LinkType, Connected
<1>4. PICK a \in {Off, link.peer} : link' = [link EXCEPT !.attr = a] BY DEF PeerWrites
<1>5. /\ link'.peer = link.peer /\ link'.enc = link.enc /\ link'.sec = link.sec
      /\ link'.attr = a
  BY <1>3, <1>4 DEF LinkType
<1>6. link' \in LinkType BY <1>3, <1>4 DEF LinkType, Attr
<1>7. SessionType' BY <1>1, <1>6 DEF IInv, SessionType
<1>8. Connected' BY <1>2, <1>5 DEF Connected
<1>9. LinkInv' BY <1>1, <1>2, <1>5, <1>8 DEF IInv, LinkInv, AttributesOfPeer
<1>10. UNCHANGED <<db, emptied>> BY <1>1 DEF storeVars
<1>11. MasterInv' BY <1>1, <1>10 DEF IInv, MasterInv, Current, Bonded
<1>12. Bonded => Bonded' BY <1>1 DEF Bonded
<1>13. QED BY <1>1, <1>7, <1>9, <1>11, <1>12, SessionStep

\* One operation of the call in progress.
LEMMA FlashStepStep ==
  ASSUME IInv, FlashStep
  PROVE  IInv'
<1>1. job # <<>> /\ flash' = Performed(flash, job[1]) /\ job' = Tail(job) BY DEF FlashStep
<1>2. UNCHANGED <<ramVars, link, peerDiv, up, stray, emptied>> BY DEF FlashStep
<1>3. UNCHANGED <<db, cur, loaded, known, link, peerDiv, up, stray, emptied>> BY <1>2 DEF ramVars
<1>4. job \in Seq(Op) /\ flash = [k \in Kind |-> flash[k]] BY DEF IInv, StoreType
<1>5. \A k : Content(k)' = Content(k) BY <1>3 DEF Content
<1>6. Pages' = Pages BY <1>5 DEF Pages
<1>7. Leads(flash', job', Pages') BY <1>1, <1>4, <1>6, LeadsOn DEF IInv, JobInv
<1>8. job' \in Seq(Op) BY <1>1, <1>4, HeadTailProperties
<1>9. flash' = [k \in Kind |-> flash'[k]]
  <2>1. job[1] \in Op BY <1>1, <1>4, EmptySeq, ElementOfSeq
  <2> DEFINE o == job[1]
  <2> HIDE DEF o
  <2>2. o \in Op => Performed(flash, o) = [k \in Kind |-> Performed(flash, o)[k]]
    BY <1>4 DEF Op, Performed
  <2>3. QED BY <1>1, <2>1, <2>2 DEF o
<1>10. StoreType' BY <1>3, <1>8, <1>9 DEF IInv, StoreType
<1>11. JobInv' BY <1>3, <1>5, <1>7 DEF IInv, JobInv
<1>12. SessionType' /\ LinkInv'
  BY <1>3 DEF IInv, SessionType, LinkInv, Connected, Bonded, AttributesOfPeer
<1>13. MasterInv' BY <1>3 DEF IInv, MasterInv, Current, Bonded
<1>14. SyncInv' BY <1>3, <1>5 DEF IInv, SyncInv, Synced, Bonded
<1>15. QED BY <1>10, <1>11, <1>12, <1>13, <1>14 DEF IInv

\* Loading gives back the masters whose attributes have all been stored.
LEMMA ReloadedFacts ==
  ASSUME NEW d \in Seq(MasterType)
  PROVE  /\ Reloaded(d) \in Seq(MasterType)
         /\ Len(Reloaded(d)) = Len(d)
         /\ \A i \in 1..Len(d) :
              Reloaded(d)[i] = IF d[i].attrHandle = i - 1 THEN d[i] ELSE Bare(d)[i]
         /\ Records("bond", Reloaded(d)) = Records("bond", d)
         /\ (\A i \in 1..Len(d) : d[i].attrHandle = i - 1) => Reloaded(d) = d
<1> DEFINE N == Len(d)
           M(i) == IF d[i].attrHandle = i - 1 THEN d[i] ELSE Bare(d)[i]
<1>1. N \in Nat /\ DOMAIN d = 1..N /\ d = [i \in 1..N |-> d[i]] BY LenProperties
<1>2. \A i \in 1..N : d[i] \in MasterType /\ Bare(d)[i] \in MasterType
  <2>1. \A i \in 1..N : d[i] \in MasterType BY ElementOfSeq
  <2>2. Bare(d) \in Seq(MasterType) /\ Len(Bare(d)) = N BY BareFacts
  <2>3. \A i \in 1..N : Bare(d)[i] \in MasterType BY <2>2, ElementOfSeq
  <2>4. QED BY <2>1, <2>3
<1>3. \A i \in 1..N : Bare(d)[i].id = d[i].id /\ Bare(d)[i].div = d[i].div
  <2>1. \A i \in 1..N : Bare(d)[i] = Master(d[i].id, d[i].div, None, NoHandle) BY BareFacts
  <2>2. \A id, div, a, h : Master(id, div, a, h).id = id /\ Master(id, div, a, h).div = div
    BY DEF Master
  <2>3. QED BY <2>1, <2>2
<1>4. \A i \in 1..N : M(i) \in MasterType /\ M(i).id = d[i].id /\ M(i).div = d[i].div
  BY <1>2, <1>3
<1>5. Reloaded(d) = [i \in 1..N |-> M(i)] BY DEF Reloaded
<1>6. (\A i \in 1..N : d[i].attrHandle = i - 1) => \A i \in 1..N : M(i) = d[i] OBVIOUS
<1> HIDE DEF M, N
<1>7. [i \in 1..N |-> M(i)] \in Seq(MasterType) /\ Len([i \in 1..N |-> M(i)]) = N BY <1>1, <1>4
<1>8. \A i \in 1..N : Reloaded(d)[i] = M(i) BY <1>5
<1>9. Records("bond", Reloaded(d)) = Records("bond", d)
  <2>1. DOMAIN Reloaded(d) = 1..N BY <1>5
  <2>2. \A i \in 1..N : BondRecord(Reloaded(d), i) = BondRecord(d, i)
    BY <1>4, <1>8 DEF BondRecord
  <2>3. QED BY <1>1, <2>1, <2>2 DEF Records
<1>10. (\A i \in 1..N : d[i].attrHandle = i - 1) => Reloaded(d) = d BY <1>1, <1>5, <1>6
<1>11. QED BY <1>5, <1>7, <1>8, <1>9, <1>10 DEF M, N

\* Initialization from two pages that hold the masters d, once the operations
\* in progress are done: c are the records of their attributes.
Loadable(d, c, f, crc) ==
  /\ d \in Seq(MasterType) /\ Len(d) <= MaxMasters
  /\ \A i \in 1..Len(d) : d[i].attr \in {None, Off, d[i].id}
  /\ f["bond"] = Page(Records("bond", d)) /\ f["attr"] = Page(c)
  /\ crc \in Seq(Body) \cup {ZeroCrc}

\* A restart with pages that hold a database.
LEMMA RestartStep ==
  ASSUME NEW d, NEW c, NEW f, NEW crc, Loadable(d, c, f, crc), Restarted(f, crc),
         c = Records("attr", d) \/ (emptied' /\ c = <<>>),
         \A i \in 1..Len(d) : \/ d[i].attrHandle = i - 1
                              \/ emptied' /\ d[i].attrHandle = NoHandle,
         d = <<>> /\ ~emptied' => crc \in {<<>>, ZeroCrc},
         link' = NoLink, peerDiv' \in [Peers -> Div \cup {NoDiv}],
         job' \in Seq(Op), flash' = [k \in Kind |-> flash'[k]],
         Leads(flash', job', [k \in Kind |-> f[k]])
  PROVE  IInv'
<1> DEFINE l == Load(f, crc)
           e == IF c = <<>> THEN Bare(d) ELSE Reloaded(d)
           rb == Records("bond", d)
           ra == Records("attr", d)
           N == Len(d)
<1>1. /\ db' = l.db /\ known' = l.known /\ up' = l.ok /\ stray' = l.stray
      /\ cur' = NoMaster /\ loaded' = NotLoaded
  BY DEF Restarted
<1>2. /\ d \in Seq(MasterType) /\ N <= MaxMasters /\ crc \in Seq(Body) \cup {ZeroCrc}
      /\ \A i \in 1..N : d[i].attr \in {None, Off, d[i].id}
      /\ f["bond"] = Page(rb) /\ f["attr"] = Page(c)
  BY DEF Loadable
<1>3. HandlesFit(d) BY DEF HandlesFit, NoHandle
<1>4. c = ra \/ c = <<>> OBVIOUS
<1>5. /\ l.ok
      /\ l.db = e
      /\ l.known = [k \in Kind |->
                      IF k = "bond" THEN [count |-> N, crc |-> rb]
                      ELSE [count |-> Len(c), crc |-> IF d = <<>> THEN crc ELSE c]]
      /\ l.stray <=> \E i \in 1..Len(c) : c[i].handle \notin 0..(MaxMasters - 1)
  BY <1>2, <1>3, <1>4, LoadFacts
<1>6. /\ N \in Nat /\ (N = 0 <=> d = <<>>)
      /\ MaxMasters \in Nat /\ MaxRecords \in Nat /\ MaxMasters <= MaxRecords
  BY <1>2, EmptySeq, SizeAssumption
<1>7. /\ rb \in Seq(Body) /\ Len(rb) = N /\ ra \in Seq(Body) /\ Len(ra) = N
      /\ \A i \in 1..N : ra[i] = AttrRecord(d, i)
  BY <1>2, RecordsFacts DEF Kind
<1>8. c \in Seq(Body) /\ Len(c) <= N /\ Len(c) \in Nat /\ (Len(c) = 0 <=> c = <<>>)
      /\ (c # <<>> => c = ra /\ Len(c) = N)
  <2> HIDE DEF ra, N
  <2>1. CASE c = <<>> BY <1>6, <2>1, EmptySeq
  <2>2. CASE c = ra BY <1>6, <1>7, <2>2, EmptySeq
  <2>3. QED BY <1>4, <2>1, <2>2
<1>9. /\ e \in Seq(MasterType) /\ Len(e) = N
      /\ Records("bond", e) = rb
      /\ \A i \in 1..N : e[i] = Bare(d)[i] \/ (c # <<>> /\ d[i].attrHandle = i - 1 /\ e[i] = d[i])
      /\ c # <<>> /\ (\A i \in 1..N : d[i].attrHandle = i - 1) => e = d
  <2>1. CASE c = <<>> BY <1>2, <2>1, BareFacts
  <2>2. CASE c # <<>>
    <3>1. e = Reloaded(d) BY <2>2
    <3> HIDE DEF e
    <3>2. QED BY <1>2, <2>2, <3>1, ReloadedFacts
  <2>3. QED BY <2>1, <2>2
<1>10. \A i \in 1..N : Bare(d)[i].attr = None /\ Bare(d)[i].attrHandle = NoHandle
  <2>1. \A i \in 1..N : Bare(d)[i] = Master(d[i].id, d[i].div, None, NoHandle)
    BY <1>2, BareFacts
  <2>2. \A id, div, a, h : Master(id, div, a, h).attr = a /\ Master(id, div, a, h).attrHandle = h
    BY DEF Master
  <2>3. QED BY <2>1, <2>2
<1> HIDE DEF l, e, rb, ra, N
<1>11. /\ known'["bond"] = [count |-> N, crc |-> rb]
       /\ known'["attr"] = [count |-> Len(c), crc |-> IF d = <<>> THEN crc ELSE c]
  BY <1>1, <1>5 DEF Kind
<1>12. Content("bond")' = rb
  <2>1. known'["bond"].count = N /\ known'["bond"].crc = rb BY <1>11
  <2>2. N = 0 => rb = <<>> BY <1>7, EmptySeq
  <2>3. QED BY <2>1, <2>2 DEF Content
<1>13. Content("attr")' = c
  <2>1. known'["attr"].count = Len(c) /\ known'["attr"].crc = IF d = <<>> THEN crc ELSE c BY <1>11
  <2>2. QED BY <1>6, <1>8, <2>1 DEF Content
<1>14. \A i \in 1..N : (c # <<>> => c[i].handle = d[i].attrHandle)
  BY <1>7, <1>8 DEF AttrRecord
<1>15. StoreType'
  <2>1. db' \in Seq(MasterType) /\ Len(db') <= MaxMasters BY <1>1, <1>2, <1>5, <1>9 DEF N
  <2>2. known' \in [Kind -> [count : 0..MaxRecords, crc : Seq(Body) \cup {ZeroCrc}]]
    <3>1. known' = [k \in Kind |-> known'[k]] BY <1>1, <1>5
    <3>2. N \in 0..MaxRecords /\ Len(c) \in 0..MaxRecords BY <1>2, <1>6, <1>8 DEF N
    <3>3. (IF d = <<>> THEN crc ELSE c) \in Seq(Body) \cup {ZeroCrc} BY <1>2, <1>8
    <3>4. /\ known'["bond"] \in [count : 0..MaxRecords, crc : Seq(Body) \cup {ZeroCrc}]
          /\ known'["attr"] \in [count : 0..MaxRecords, crc : Seq(Body) \cup {ZeroCrc}]
      BY <1>7, <1>11, <3>2, <3>3
    <3>5. QED BY <3>1, <3>4 DEF Kind
  <2>3. QED BY <2>1, <2>2 DEF StoreType
<1>16. SessionType'
  <2>1. cur' \in CurType BY <1>1 DEF CurType, NoMaster, NoHandle, Attr
  <2>2. loaded' \in LoadedType BY <1>1 DEF LoadedType, NotLoaded
  <2>3. link' \in LinkType BY DEF LinkType, NoLink
  <2>4. QED BY <2>1, <2>2, <2>3 DEF SessionType
<1>17. JobInv'
  <2>1. up' BY <1>1, <1>5
  <2>2. stray' => emptied'
    <3> SUFFICES ASSUME NEW i \in 1..Len(c), c[i].handle \notin 0..(MaxMasters - 1)
                 PROVE  emptied'
      BY <1>1, <1>5
    <3>1. i \in 1..N /\ c # <<>> BY <1>6, <1>8
    <3>2. d[i].attrHandle \notin 0..(MaxMasters - 1) BY <1>14, <3>1
    <3>3. i - 1 \in 0..(MaxMasters - 1) BY <1>2, <1>6, <3>1
    <3>4. QED BY <3>1, <3>2, <3>3 DEF N
  <2>3. \A k \in Kind : /\ Content(k)' \in Seq(Body)
                        /\ Len(Content(k)') = known'[k].count
    BY <1>7, <1>8, <1>11, <1>12, <1>13 DEF Kind
  <2>4. Pages' = [k \in Kind |-> f[k]]
    <3>1. \A k \in Kind : Page(Content(k)') = f[k] BY <1>2, <1>12, <1>13 DEF Kind
    <3>2. QED BY <3>1 DEF Pages
  <2>5. QED BY <2>1, <2>2, <2>3, <2>4 DEF JobInv
<1>18. ~Connected' /\ ~Bonded' BY <1>1 DEF Connected, Bonded, NoLink, NoMaster
<1>19. LinkInv' BY <1>1, <1>18 DEF LinkInv, AttributesOfPeer, NoLink, NotLoaded
<1>20. MasterInv'
  <2>1. cur'.attr = None BY <1>1 DEF NoMaster
  <2>2. db' = e /\ Len(e) = N BY <1>1, <1>5, <1>9
  <2>3. \A i \in 1..N : e[i].attr \in {None, Off, e[i].id} BY <1>2, <1>9, <1>10
  <2>4. \A i \in 1..N : e[i].attrHandle = i - 1 \/ (emptied' /\ e[i].attrHandle = NoHandle)
    <3> SUFFICES ASSUME NEW i \in 1..N, ~(e[i].attrHandle = i - 1)
                 PROVE  emptied' /\ e[i].attrHandle = NoHandle
      OBVIOUS
    <3>1. e[i] = Bare(d)[i] /\ e[i].attrHandle = NoHandle BY <1>9, <1>10
    <3>2. emptied'
      <4>1. CASE c = <<>>
        <5>1. c = ra => N = 0 BY <1>7, <4>1, EmptySeq
        <5>2. QED BY <5>1, <1>6 DEF ra
      <4>2. CASE c # <<>>
        <5>1. CASE d[i].attrHandle = i - 1
          <6>1. e = Reloaded(d) BY <4>2 DEF e
          <6>2. e[i] = d[i] BY <1>2, <5>1, <6>1, ReloadedFacts DEF N
          <6>3. QED BY <5>1, <6>2
        <5>2. CASE ~(d[i].attrHandle = i - 1) BY <5>2 DEF N
        <5>3. QED BY <5>1, <5>2
      <4>3. QED BY <4>1, <4>2
    <3>3. QED BY <3>1, <3>2
  <2>5. QED BY <1>18, <2>1, <2>2, <2>3, <2>4 DEF MasterInv
<1>21. SyncInv'
  <2> SUFFICES ASSUME ~stray'
               PROVE  /\ db' # <<>> => known'["bond"].count > 0
                      /\ ~emptied' /\ known'["attr"].count = 0
                           => known'["attr"].crc \in {<<>>, ZeroCrc}
                      /\ Synced'
    BY DEF SyncInv
  <2>1. db' = e /\ e \in Seq(MasterType) /\ Len(e) = N BY <1>1, <1>5, <1>9
  <2>2. db' # <<>> => known'["bond"].count > 0 BY <1>6, <1>11, <2>1, EmptySeq
  <2>3. ~emptied' /\ known'["attr"].count = 0 => known'["attr"].crc \in {<<>>, ZeroCrc}
    BY <1>6, <1>7, <1>8, <1>11 DEF ra
  <2>4. Content("bond")' = Records("bond", db') BY <1>9, <1>12, <2>1
  <2>5. Synced'
    <3>1. CASE c = <<>>
      <4>1. CASE emptied' BY <1>13, <2>4, <3>1, <4>1 DEF Synced
      <4>2. CASE ~emptied'
        <5>1. N = 0 /\ c = ra BY <1>7, <3>1, <4>2, EmptySeq DEF ra
        <5>2. e = <<>> /\ d = <<>> BY <1>6, <2>1, <5>1, EmptySeq
        <5>3. QED BY <1>13, <2>1, <2>4, <5>1, <5>2 DEF Synced, ra
      <4>3. QED BY <4>1, <4>2
    <3>2. CASE c # <<>>
      <4>1. Len(c) = N /\ c = ra BY <1>8, <3>2
      <4>2. \A i \in 1..N : c[i].handle \in 0..(MaxMasters - 1) BY <1>1, <1>5, <4>1
      <4>3. \A i \in 1..N : d[i].attrHandle # NoHandle BY <1>14, <3>2, <4>2 DEF NoHandle
      <4>4. \A i \in 1..N : d[i].attrHandle = i - 1 BY <4>3 DEF N
      <4>5. e = d BY <1>9, <3>2, <4>4
      <4>6. QED BY <1>13, <2>1, <2>4, <4>1, <4>5 DEF Synced, ra
    <3>3. QED BY <3>1, <3>2
  <2>6. QED BY <2>2, <2>3, <2>5
<1>22. QED BY <1>15, <1>16, <1>17, <1>19, <1>20, <1>21 DEF IInv

\* At rest without a current master, the pages can be loaded again.
LEMMA RestLoadable ==
  ASSUME IInv, job = <<>>, ~stray, ~Bonded
  PROVE  /\ Loadable(db, Content("attr"), flash, ZeroCrc)
         /\ Content("attr") = Records("attr", db) \/ (emptied /\ Content("attr") = <<>>)
         /\ \A i \in 1..Len(db) : \/ db[i].attrHandle = i - 1
                                  \/ emptied /\ db[i].attrHandle = NoHandle
<1>1. Synced BY DEF IInv, SyncInv
<1>2. flash["bond"] = Page(Content("bond")) /\ flash["attr"] = Page(Content("attr"))
  BY RestFacts DEF Pages, Kind
<1>3. Loadable(db, Content("attr"), flash, ZeroCrc)
  BY <1>1, <1>2 DEF IInv, StoreType, MasterInv, Loadable, Synced
<1>4. \A i \in 1..Len(db) : \/ db[i].attrHandle = i - 1
                            \/ emptied /\ db[i].attrHandle = NoHandle
  BY DEF IInv, MasterInv, Current
<1>5. QED BY <1>1, <1>3, <1>4 DEF Synced

\* A restart at rest without a current master.
LEMMA RestartAtRest ==
  ASSUME IInv, job = <<>>, ~stray, ~Bonded, Restarted(flash, ZeroCrc),
         link' = NoLink, peerDiv' \in [Peers -> Div \cup {NoDiv}],
         job' = <<>>, UNCHANGED <<flash, emptied>>
  PROVE  IInv'
<1> DEFINE c == Content("attr")
<1>1. /\ Loadable(db, c, flash, ZeroCrc)
      /\ c = Records("attr", db) \/ (emptied' /\ c = <<>>)
      /\ \A i \in 1..Len(db) : \/ db[i].attrHandle = i - 1
                               \/ emptied' /\ db[i].attrHandle = NoHandle
  BY RestLoadable
<1>2. flash = [k \in Kind |-> flash[k]] BY DEF IInv, StoreType
<1>3. flash' = [k \in Kind |-> flash'[k]] BY <1>2
<1>4. Leads(flash', job', [k \in Kind |-> flash[k]])
  <2>1. Leads(flash, <<>>, flash) BY LeadsNowhere
  <2>2. QED BY <1>2, <2>1
<1>5. job' \in Seq(Op) BY EmptySeq
<1> HIDE DEF c
<1>6. QED BY <1>1, <1>3, <1>4, <1>5, RestartStep

LEMMA ResetStep ==
  ASSUME IInv, Reset, ~ResetAnytime
  PROVE  IInv'
<1>1. /\ AtRest /\ ~Connected /\ Restarted(flash, ZeroCrc)
      /\ link' = NoLink /\ job' = <<>> /\ UNCHANGED <<peerDiv, flash, emptied>>
  BY DEF Reset
<1>2. job = <<>> /\ ~stray /\ ~Bonded BY <1>1 DEF AtRest, IInv, LinkInv
<1>3. peerDiv' \in [Peers -> Div \cup {NoDiv}] BY <1>1 DEF IInv, SessionType
<1>4. QED BY <1>1, <1>2, <1>3, RestartAtRest

\* Both pages erased.
LEMMA ErasesLead ==
  ASSUME NEW f, f = [k \in Kind |-> f[k]]
  PROVE  /\ Leads(f, <<EraseOp("bond"), EraseOp("attr")>>, [k \in Kind |-> BlankPage])
         /\ <<EraseOp("bond"), EraseOp("attr")>> \in Seq(Op)
<1> DEFINE a == EraseOp("bond")
           b == EraseOp("attr")
           g == [f EXCEPT !["bond"] = BlankPage]
           h == [g EXCEPT !["attr"] = BlankPage]
<1>1. a \in Op /\ b \in Op BY DEF EraseOp, Op, Kind
<1>2. Leads(f, <<a>>, g) BY EraseLeads DEF Kind
<1>3. g = [k \in Kind |-> g[k]] OBVIOUS
<1>4. h = [k \in Kind |-> BlankPage] BY DEF Kind
<1>5. Leads(g, <<b>>, h)
  <2> HIDE DEF g
  <2>1. QED BY <1>3, EraseLeads DEF Kind
<1> HIDE DEF a, b, g, h
<1>6. <<a>> \in Seq(Op) /\ <<b>> \in Seq(Op) /\ <<a, b>> = <<a>> \o <<b>> /\ <<a, b>> \in Seq(Op)
  <2>1. <<a>> \in Seq(Op) /\ <<b>> \in Seq(Op) BY <1>1
  <2>2. <<a, b>> \in Seq(Op) BY <1>1
  <2>3. <<a, b>> = <<a>> \o <<b>>
    <3> DEFINE x == <<a>>
               y == Append(x, b)
               z == <<a, b>>
    <3>1. y = <<a>> \o <<b>> BY <1>1, <2>1, AppendIsConcat
    <3>2. Len(x) = 1 /\ x[1] = a /\ x \in Seq(Op) BY <2>1
    <3>3. z \in Seq(Op) /\ Len(z) = 2 /\ z[1] = a /\ z[2] = b BY <2>2
    <3> HIDE DEF x, z
    <3>4. y \in Seq(Op) /\ Len(y) = 1 + 1 /\ y[1] = a /\ y[1 + 1] = b
      <4>1. /\ Append(x, b) \in Seq(Op)
            /\ Append(x, b) # <<>>
            /\ Len(Append(x, b)) = Len(x) + 1
            /\ \A i \in 1..Len(x) : Append(x, b)[i] = x[i]
            /\ Append(x, b)[Len(x) + 1] = b
        <5> DEFINE S == Op
        <5>1. x \in Seq(S) /\ b \in S BY <1>1, <3>2
        <5> HIDE DEF S
        <5>2. Append(x, b) \in Seq(S) BY <5>1, AppendProperties
        <5>3. QED BY <5>1, <5>2, AppendProperties DEF S
      <4>2. QED BY <3>2, <4>1
    <3> HIDE DEF y
    <3>5. Len(y) = 2 /\ y[2] = b BY <3>4
    <3>6. \A i \in 1..Len(z) : i = 1 \/ i = 2 BY <3>3
    <3>7. y = z BY <3>3, <3>4, <3>5, <3>6, SeqEqual
    <3>8. QED BY <3>1, <3>7 DEF z
  <2>4. QED BY <2>1, <2>2, <2>3
<1>7. Leads(f, <<a>> \o <<b>>, h) BY <1>2, <1>5, <1>6, LeadsThrough
<1>8. QED BY <1>4, <1>6, <1>7 DEF a, b

LEMMA EmptyPage == Page(<<>>) = BlankPage /\ \A k \in Kind : Records(k, <<>>) = <<>>
<1>1. Page(<<>>) = BlankPage
  <2>1. Len(<<>>) = 0 OBVIOUS
  <2>2. \A i \in Slot : ~(i <= 0) BY SizeAssumption DEF Slot
  <2>3. QED BY <2>1, <2>2 DEF Page, BlankPage
<1>2. \A k \in Kind : Records(k, <<>>) = <<>>
  <2> TAKE k \in Kind
  <2>1. <<>> \in Seq(MasterType) /\ Len(<<>>) = 0 BY EmptySeq
  <2>2. Records(k, <<>>) \in Seq(Body) /\ Len(Records(k, <<>>)) = 0 BY <2>1, RecordsFacts
  <2>3. QED BY <2>2, EmptySeq
<1>3. QED BY <1>1, <1>2

LEMMA DeleteAllStep ==
  ASSUME IInv, DeleteAll
  PROVE  IInv'
<1> DEFINE f == [k \in Kind |-> BlankPage]
           d == <<>>
           crc == known["attr"].crc
<1>1. /\ AtRest /\ ~Connected /\ job' = <<EraseOp("bond"), EraseOp("attr")>>
      /\ Restarted(f, crc) /\ emptied' = TRUE /\ UNCHANGED <<link, peerDiv, flash>>
  BY DEF DeleteAll
<1>2. link' = NoLink BY <1>1 DEF IInv, LinkInv
<1>3. peerDiv' \in [Peers -> Div \cup {NoDiv}] BY <1>1 DEF IInv, SessionType
<1>4. flash = [k \in Kind |-> flash[k]] BY DEF IInv, StoreType
<1>5. flash' = [k \in Kind |-> flash'[k]] BY <1>1, <1>4
<1>6. [k \in Kind |-> f[k]] = f OBVIOUS
<1>7. Leads(flash', job', [k \in Kind |-> f[k]]) /\ job' \in Seq(Op)
  BY <1>1, <1>4, <1>6, ErasesLead
<1>8. d \in Seq(MasterType) /\ Len(d) = 0 BY EmptySeq
<1>9. crc \in Seq(Body) \cup {ZeroCrc} BY DEF IInv, StoreType, Kind
<1>10. f["bond"] = Page(Records("bond", d)) /\ f["attr"] = Page(d) BY EmptyPage DEF Kind
<1>11. Loadable(d, d, f, crc)
  BY <1>8, <1>9, <1>10, SizeAssumption DEF Loadable
<1>12. \A i \in 1..Len(d) : d[i].attrHandle = i - 1 BY <1>8
<1> HIDE DEF f, crc
<1>13. QED BY <1>1, <1>2, <1>3, <1>5, <1>7, <1>11, <1>12, RestartStep

\* One record stored, if the page has room for it.
LEMMA StoreOneStep ==
  ASSUME IInv, job = <<>>, NEW k \in Kind, NEW r \in Body,
         known' = [known EXCEPT ![k] = StoredOne(@, r)],
         job' = StoreOne(k, known[k], r), UNCHANGED <<flash, up, stray, emptied>>
  PROVE  /\ JobInv'
         /\ known' \in [Kind -> [count : 0..MaxRecords, crc : Seq(Body) \cup {ZeroCrc}]]
         /\ job' \in Seq(Op) /\ flash' = [j \in Kind |-> flash'[j]]
         /\ known'[k].count > 0
         /\ \A j \in Kind : j # k => known'[j] = known[j]
<1> DEFINE s == known[k]
           c == Content(k)
           new == Append(c, r)
           Stored == [count : 0..MaxRecords, crc : Seq(Body) \cup {ZeroCrc}]
<1>1. known \in [Kind -> Stored] BY DEF IInv, StoreType
<1>2. s \in Stored /\ s.count \in 0..MaxRecords /\ MaxRecords \in Nat \ {0}
  BY <1>1, SizeAssumption
<1>3. flash = Pages /\ flash = [j \in Kind |-> flash[j]] BY RestFacts DEF IInv, StoreType
<1>4. /\ c \in Seq(Body) /\ Len(c) = s.count /\ flash[k] = Page(c)
      /\ \A j \in Kind : Content(j) \in Seq(Body) /\ Len(Content(j)) = known[j].count
  BY <1>3 DEF IInv, JobInv, Pages
<1>5. Chain(s, r) = new BY DEF Chain, Content
<1>6. UNCHANGED flash /\ up' /\ (stray' => emptied') BY DEF IInv, JobInv
<1>7. CASE ~HasRoom(s)
  <2>1. known' = known BY <1>1, <1>7 DEF StoredOne
  <2>2. job' = <<>> BY <1>7 DEF StoreOne
  <2>3. Pages' = Pages BY <2>1 DEF Pages, Content
  <2>4. JobInv' BY <1>4, <1>6, <2>1, <2>2, <2>3 DEF IInv, JobInv, Content
  <2>5. known'[k].count > 0 BY <1>2, <1>7, <2>1 DEF HasRoom
  <2>6. QED BY <1>1, <1>3, <2>1, <2>2, <2>4, <2>5, EmptySeq
<1>8. CASE HasRoom(s)
  <2> DEFINE t == [count |-> s.count + 1, crc |-> new]
  <2>1. s.count + 1 \in 1..MaxRecords /\ Len(c) < MaxRecords /\ Len(c) + 1 = s.count + 1
    BY <1>2, <1>4, <1>8 DEF HasRoom
  <2>2. new \in Seq(Body) /\ Len(new) = s.count + 1 BY <1>4, AppendProperties
  <2>3. known' = [known EXCEPT ![k] = t] BY <1>5, <1>8 DEF StoredOne
  <2>4. t \in Stored /\ t.count = s.count + 1 /\ t.crc = new BY <2>1, <2>2
  <2>5. job' = <<BodyOp(k, Len(c) + 1, r), HeadOp(k, Len(c) + 1, new)>>
    BY <1>5, <1>8, <2>1 DEF StoreOne
  <2>6. Leads(flash, job', [flash EXCEPT ![k] = Page(new)]) BY <1>3, <1>4, <2>1, <2>5, StoreLeads
  <2> HIDE DEF t, new, Stored
  <2>7. /\ known' \in [Kind -> Stored] /\ known'[k] = t
        /\ \A j \in Kind : j # k => known'[j] = known[j]
    BY <1>1, <2>3, <2>4
  <2>8. Content(k)' = new BY <2>1, <2>4, <2>7 DEF Content
  <2>9. \A j \in Kind : j # k => Content(j)' = Content(j) BY <2>7 DEF Content
  <2>10. Pages' = [flash EXCEPT ![k] = Page(new)]
    <3>1. Pages = [j \in Kind |-> Page(Content(j))] BY DEF Pages
    <3>2. Pages' = [j \in Kind |-> Page(Content(j)')] BY DEF Pages
    <3>3. QED BY <1>3, <2>8, <2>9, <3>1, <3>2
  <2>11. \A j \in Kind : Content(j)' \in Seq(Body) /\ Len(Content(j)') = known'[j].count
    BY <1>4, <2>2, <2>4, <2>7, <2>8, <2>9
  <2>12. JobInv' BY <1>6, <2>6, <2>10, <2>11 DEF JobInv
  <2>13. job' \in Seq(Op)
    <3> DEFINE a == BodyOp(k, Len(c) + 1, r)
               b == HeadOp(k, Len(c) + 1, new)
    <3>1. Len(c) + 1 \in Slot BY <2>1 DEF Slot
    <3>2. a \in Op /\ b \in Op BY <2>2, <3>1 DEF BodyOp, HeadOp, Op
    <3> HIDE DEF a, b
    <3>3. QED BY <2>5, <3>2 DEF a, b
  <2>14. known'[k].count > 0 BY <2>1, <2>4, <2>7
  <2>15. QED BY <1>3, <1>6, <2>7, <2>12, <2>13, <2>14 DEF Stored
<1>9. QED BY <1>7, <1>8

\* A step of the link with a bonded master that stores one record.
LEMMA BondedStep ==
  ASSUME IInv, job = <<>>, NEW k \in Kind, NEW r \in Body,
         known' = [known EXCEPT ![k] = StoredOne(@, r)],
         job' = StoreOne(k, known[k], r), UNCHANGED <<flash, up, stray, emptied>>,
         db' \in Seq(MasterType), Len(db') <= MaxMasters,
         k = "attr" => db # <<>>,
         SessionType', LinkInv', MasterInv', Bonded'
  PROVE  IInv'
<1>1. /\ JobInv'
      /\ known' \in [Kind -> [count : 0..MaxRecords, crc : Seq(Body) \cup {ZeroCrc}]]
      /\ job' \in Seq(Op) /\ flash' = [j \in Kind |-> flash'[j]]
      /\ known'[k].count > 0
      /\ \A j \in Kind : j # k => known'[j] = known[j]
  BY StoreOneStep
<1>2. StoreType' BY <1>1 DEF StoreType
<1>3. known'["attr"].count \in Nat BY <1>1 DEF Kind
<1>4. SyncInv'
  <2>1. CASE k = "bond" BY <1>1, <2>1 DEF IInv, SyncInv, Kind
  <2>2. CASE k = "attr" BY <1>1, <2>2 DEF IInv, SyncInv, Kind
  <2>3. QED BY <2>1, <2>2 DEF Kind
<1>5. QED BY <1>1, <1>2, <1>4 DEF IInv

LEMMA KnownMasterStep ==
  ASSUME IInv, AtRest, link.sec = "paired", NEW d \in Div,
         peerDiv' = [peerDiv EXCEPT ![link.peer] = d], UNCHANGED emptied, Bonded, KnownMaster(d)
  PROVE  IInv'
<1> DEFINE h == cur.handle + 1
           m == Master(cur.id, d, cur.attr, cur.attrHandle)
           r == BondRecord(db', h)
<1>1. /\ cur' = [cur EXCEPT !.div = d]
      /\ db' = [db EXCEPT ![h] = m]
      /\ known' = [known EXCEPT !["bond"] = StoredOne(@, r)]
      /\ job' = StoreOne("bond", known["bond"], r)
      /\ loaded' = [loaded EXCEPT !.bond = TRUE]
      /\ link' = [link EXCEPT !.sec = "none"]
      /\ UNCHANGED <<flash, up, stray>>
  BY DEF KnownMaster, StoreBond
<1>2. /\ cur \in CurType /\ link \in LinkType /\ loaded \in LoadedType
      /\ db \in Seq(MasterType) /\ Len(db) <= MaxMasters
  BY DEF IInv, SessionType, StoreType
<1>3. /\ h \in 1..Len(db) /\ db[h].id = cur.id /\ cur.attr \in {None, Off, cur.id}
      /\ \A i \in 1..Len(db) : db[i].attr \in {None, Off, db[i].id}
  BY DEF IInv, MasterInv
<1>4. loaded.attr /\ link.enc /\ Connected
  BY DEF IInv, LinkInv, NoLink
<1>5. cur.id = link.peer /\ link.peer \in Peers
  BY <1>2, <1>4 DEF IInv, LinkInv, LinkType, Connected
<1>6. m \in MasterType /\ m.id = cur.id /\ m.attr = cur.attr
  BY <1>2, <1>5 DEF Master, MasterType, CurType
<1> HIDE DEF m
<1>7. /\ db' \in Seq(MasterType) /\ Len(db') = Len(db) /\ db'[h] = m
      /\ \A j \in 1..Len(db) : j # h => db'[j] = db[j]
  <2> HIDE DEF h
  <2>1. QED BY <1>1, <1>2, <1>3, <1>6, ExceptSeq
<1>8. r \in Body BY <1>3, <1>7, RecordsFacts DEF Kind
<1>9. /\ cur' \in CurType /\ cur'.handle = cur.handle /\ cur'.id = cur.id
      /\ cur'.div = d /\ cur'.attr = cur.attr
  <2>1. cur' \in CurType BY <1>1, <1>2 DEF CurType
  <2>2. /\ cur'.handle = cur.handle /\ cur'.id = cur.id
        /\ cur'.div = d /\ cur'.attr = cur.attr
    BY <1>1, <1>2 DEF CurType
  <2>3. QED BY <2>1, <2>2
<1>10. loaded' \in LoadedType /\ loaded'.attr = loaded.attr BY <1>1, <1>2 DEF LoadedType
<1>11. /\ link' \in LinkType
       /\ link'.peer = link.peer /\ link'.enc = link.enc /\ link'.attr = link.attr
       /\ link'.sec = "none"
  <2>1. link' \in LinkType BY <1>1, <1>2 DEF LinkType
  <2>2. /\ link'.peer = link.peer /\ link'.enc = link.enc /\ link'.attr = link.attr
        /\ link'.sec = "none"
    BY <1>1, <1>2 DEF LinkType
  <2>3. QED BY <2>1, <2>2
<1>12. SessionType' BY <1>9, <1>10, <1>11 DEF IInv, SessionType
<1>13. Connected' BY <1>4, <1>11 DEF Connected
<1>14. LinkInv' BY <1>4, <1>5, <1>9, <1>10, <1>11, <1>13 DEF IInv, LinkInv, AttributesOfPeer
<1>15. Bonded' BY <1>9 DEF Bonded
<1>16. MasterInv'
  <2>1. \A i \in 1..Len(db') : db'[i].attr \in {None, Off, db'[i].id} BY <1>3, <1>6, <1>7
  <2>2. \A i \in 1..Len(db') : i # h => db'[i].attrHandle = i - 1
                                        \/ (emptied' /\ db'[i].attrHandle = NoHandle)
    BY <1>7 DEF IInv, MasterInv, Current
  <2>3. cur'.handle + 1 = h /\ loaded'.attr BY <1>4, <1>9, <1>10
  <2>4. h \in 1..Len(db') /\ db'[h].id = cur'.id BY <1>3, <1>6, <1>7, <1>9
  <2>5. QED BY <1>3, <1>9, <1>15, <2>1, <2>2, <2>3, <2>4 DEF MasterInv, Current
<1>17. job = <<>> BY DEF AtRest
<1> HIDE DEF r
<1>18. QED BY <1>1, <1>2, <1>7, <1>8, <1>12, <1>14, <1>15, <1>16, <1>17, BondedStep DEF Kind

LEMMA NewMasterStep ==
  ASSUME IInv, AtRest, link.sec = "paired", NEW d \in Div,
         peerDiv' = [peerDiv EXCEPT ![link.peer] = d], UNCHANGED emptied,
         ~Bonded, DbHasRoom, NewMaster(d)
  PROVE  IInv'
<1> DEFINE m == [cur EXCEPT !.handle = Len(db), !.div = d, !.attr = None]
           x == Master(m.id, d, None, m.attrHandle)
           N == Len(db)
           r == BondRecord(db', Len(db'))
<1>1. /\ cur' = m
      /\ db' = Append(db, x)
      /\ known' = [known EXCEPT !["bond"] = StoredOne(@, r)]
      /\ job' = StoreOne("bond", known["bond"], r)
      /\ loaded' = [loaded EXCEPT !.bond = TRUE]
      /\ link' = [link EXCEPT !.sec = "none", !.attr = Off]
      /\ UNCHANGED <<flash, up, stray>>
  BY DEF NewMaster, StoreBond
<1>2. /\ cur \in CurType /\ link \in LinkType /\ loaded \in LoadedType
      /\ db \in Seq(MasterType) /\ N < MaxMasters /\ N \in Nat /\ MaxMasters \in Nat
  BY SizeAssumption, LenProperties DEF IInv, SessionType, StoreType, DbHasRoom
<1>3. loaded.attr /\ link.enc /\ Connected
  BY DEF IInv, LinkInv, NoLink
<1>4. cur.id = link.peer /\ link.peer \in Peers
  BY <1>2, <1>3 DEF IInv, LinkInv, LinkType, Connected
<1>5. /\ m.handle = N /\ m.id = cur.id /\ m.div = d /\ m.attr = None
      /\ m.attrHandle = cur.attrHandle
  BY <1>2 DEF CurType
<1>6. m \in CurType
  <2>1. N \in Int /\ None \in Attr BY <1>2 DEF Attr
  <2> HIDE DEF N
  <2>2. QED BY <1>2, <2>1 DEF CurType, N
<1> HIDE DEF m
<1>7. x \in MasterType /\ x.id = cur.id /\ x.attr = None
  BY <1>4, <1>5, <1>6 DEF Master, MasterType, CurType, Attr
<1> HIDE DEF x
<1>8. /\ db' \in Seq(MasterType) /\ Len(db') = N + 1 /\ db'[N + 1] = x
      /\ \A j \in 1..N : db'[j] = db[j]
  BY <1>1, <1>2, <1>7, AppendProperties
<1>9. r \in Body
  <2>1. Len(db') \in 1..Len(db') BY <1>2, <1>8
  <2>2. QED BY <1>8, <2>1, RecordsFacts DEF Kind
<1>10. loaded' \in LoadedType /\ loaded'.attr = loaded.attr BY <1>1, <1>2 DEF LoadedType
<1>11. /\ link' \in LinkType
       /\ link'.peer = link.peer /\ link'.enc = link.enc /\ link'.attr = Off
       /\ link'.sec = "none"
  <2>1. link' \in LinkType BY <1>1, <1>2 DEF LinkType, Attr
  <2>2. /\ link'.peer = link.peer /\ link'.enc = link.enc /\ link'.attr = Off
        /\ link'.sec = "none"
    BY <1>1, <1>2 DEF LinkType
  <2>3. QED BY <2>1, <2>2
<1>12. SessionType' BY <1>1, <1>6, <1>10, <1>11 DEF IInv, SessionType
<1>13. Connected' BY <1>3, <1>11 DEF Connected
<1>14. LinkInv' BY <1>1, <1>3, <1>4, <1>5, <1>10, <1>11, <1>13 DEF LinkInv, AttributesOfPeer
<1>15. Bonded' BY <1>1, <1>2, <1>5 DEF Bonded, NoHandle
<1>16. MasterInv'
  <2>1. \A i \in 1..N : db[i].attr \in {None, Off, db[i].id} BY DEF IInv, MasterInv
  <2>2. \A i \in 1..N : db[i].attrHandle = i - 1 \/ (emptied /\ db[i].attrHandle = NoHandle)
    BY DEF IInv, MasterInv, Current
  <2>3. \A i \in 1..Len(db') : i \in 1..N \/ i = N + 1 BY <1>2, <1>8
  <2>4. \A i \in 1..Len(db') : db'[i].attr \in {None, Off, db'[i].id} BY <1>7, <1>8, <2>1, <2>3
  <2>5. cur'.handle + 1 = N + 1 /\ loaded'.attr BY <1>1, <1>3, <1>5, <1>10
  <2>6. \A i \in 1..Len(db') : \/ Current(i)' /\ loaded'.attr
                               \/ db'[i].attrHandle = i - 1
                               \/ emptied' /\ db'[i].attrHandle = NoHandle
    BY <1>8, <1>15, <2>2, <2>3, <2>5 DEF Current
  <2>7. cur'.handle + 1 = N + 1 /\ N + 1 \in 1..Len(db') BY <1>1, <1>2, <1>5, <1>8
  <2>8. cur'.handle + 1 \in 1..Len(db') /\ db'[cur'.handle + 1].id = cur'.id /\ cur'.div \in Div
    BY <1>1, <1>5, <1>7, <1>8, <2>7
  <2>9. cur'.attr = None BY <1>1, <1>5
  <2>10. QED BY <2>4, <2>6, <2>8, <2>9 DEF MasterInv
<1>17. job = <<>> BY DEF AtRest
<1>18. Len(db') <= MaxMasters BY <1>2, <1>8
<1> HIDE DEF r
<1>19. QED BY <1>1, <1>8, <1>9, <1>12, <1>14, <1>15, <1>16, <1>17, <1>18, BondedStep DEF Kind

LEMMA AuthStatusStep ==
  ASSUME IInv, NEW d \in Div, AuthStatus(d)
  PROVE  IInv'
<1>1. /\ AtRest /\ link.sec = "paired" /\ UNCHANGED emptied
      /\ peerDiv' = [peerDiv EXCEPT ![link.peer] = d]
  BY DEF AuthStatus
<1>2. CASE Bonded /\ KnownMaster(d) BY <1>1, <1>2, KnownMasterStep
<1>3. CASE ~Bonded /\ DbHasRoom /\ NewMaster(d) BY <1>1, <1>3, NewMasterStep
<1>4. CASE /\ ~Bonded /\ Failure
           /\ link' = IF cur' = NoMaster THEN NoLink ELSE [link EXCEPT !.sec = "none"]
  <2>1. job = <<>> /\ ~stray BY <1>1 DEF AtRest
  <2>2. peerDiv' \in [Peers -> Div \cup {NoDiv}] BY <1>1 DEF IInv, SessionType
  <2>3. CASE Restarted(flash, ZeroCrc) /\ UNCHANGED <<flash, job>>
    <3>1. cur' = NoMaster BY <2>3 DEF Restarted
    <3>2. link' = NoLink BY <1>4, <3>1
    <3>3. QED BY <1>1, <1>4, <2>1, <2>2, <2>3, <3>2, RestartAtRest
  <2>4. CASE UNCHANGED <<ramVars, flash, job, up, stray>>
    <3>1. UNCHANGED storeVars /\ UNCHANGED <<cur, loaded>>
      BY <1>1, <2>4 DEF storeVars, ramVars
    <3>2. link \in LinkType /\ Connected /\ cur.id = link.peer
      BY <1>1 DEF IInv, SessionType, LinkInv, NoLink
    <3>3. cur' # NoMaster
      <4>1. cur.id # NoPeer BY <3>2 DEF Connected
      <4>2. NoMaster.id = NoPeer BY DEF NoMaster
      <4>3. QED BY <3>1, <4>1, <4>2
    <3>4. link' = [link EXCEPT !.sec = "none"] BY <1>4, <3>3
    <3>5. /\ link'.peer = link.peer /\ link'.enc = link.enc /\ link'.attr = link.attr
          /\ link'.sec = "none"
      BY <3>2, <3>4 DEF LinkType
    <3>6. link' \in LinkType BY <3>2, <3>4 DEF LinkType
    <3>7. SessionType' BY <2>2, <3>1, <3>6 DEF IInv, SessionType
    <3>8. Connected' BY <3>2, <3>5 DEF Connected
    <3>9. LinkInv' BY <3>1, <3>2, <3>5, <3>8 DEF IInv, LinkInv, AttributesOfPeer
    <3>10. UNCHANGED <<db, emptied>> BY <3>1 DEF storeVars
    <3>11. MasterInv' BY <3>1, <3>10 DEF IInv, MasterInv, Current, Bonded
    <3>12. Bonded => Bonded' BY <3>1 DEF Bonded
    <3>13. QED BY <3>1, <3>7, <3>9, <3>11, <3>12, SessionStep
  <2>5. QED BY <1>4, <2>3, <2>4 DEF Failure
<1>5. QED BY <1>2, <1>3, <1>4 DEF AuthStatus

LEMMA SysAttrStoreStep ==
  ASSUME IInv, SysAttrStore
  PROVE  IInv'
<1> DEFINE a == LinkAttributes
           h == cur.handle
           i == cur.handle + 1
           m == Master(db[i].id, db[i].div, a, h)
           r == AttrRecord(db', i)
<1>1. /\ AtRest /\ Connected /\ Bonded /\ link.enc
      /\ cur' = [cur EXCEPT !.attr = a, !.attrHandle = h]
      /\ db' = [db EXCEPT ![i] = m]
      /\ known' = [known EXCEPT !["attr"] = StoredOne(@, r)]
      /\ job' = StoreOne("attr", known["attr"], r)
      /\ UNCHANGED <<loaded, link, peerDiv, flash, up, stray, emptied>>
  BY DEF SysAttrStore
<1>2. /\ cur \in CurType /\ link \in LinkType
      /\ db \in Seq(MasterType) /\ Len(db) <= MaxMasters
  BY DEF IInv, SessionType, StoreType
<1>3. /\ i \in 1..Len(db) /\ db[i].id = cur.id /\ cur.div \in Div
      /\ \A j \in 1..Len(db) : db[j].attr \in {None, Off, db[j].id}
  BY <1>1 DEF IInv, MasterInv
<1>4. cur.id = link.peer /\ link.peer \in Peers
  BY <1>1, <1>2 DEF IInv, LinkInv, LinkType, Connected
<1>5. a \in {Off, cur.id} BY <1>4 DEF IInv, LinkInv, AttributesOfPeer, LinkAttributes
<1> HIDE DEF a
<1>6. m \in MasterType /\ m.id = cur.id /\ m.attr = a /\ m.attrHandle = h
  <2>1. db[i] \in MasterType BY <1>2, <1>3, ElementOfSeq
  <2>2. h \in Int /\ a \in Attr BY <1>2, <1>4, <1>5 DEF CurType, Attr
  <2>3. QED BY <1>3, <2>1, <2>2 DEF Master, MasterType
<1> HIDE DEF m
<1>7. /\ db' \in Seq(MasterType) /\ Len(db') = Len(db) /\ db'[i] = m
      /\ \A j \in 1..Len(db) : j # i => db'[j] = db[j]
  <2> HIDE DEF i
  <2>1. QED BY <1>1, <1>2, <1>3, <1>6, ExceptSeq
<1>8. r \in Body BY <1>3, <1>7, RecordsFacts DEF Kind
<1>9. /\ cur' \in CurType /\ cur'.handle = cur.handle /\ cur'.id = cur.id
      /\ cur'.div = cur.div /\ cur'.attr = a
  <2>1. a \in Attr /\ h \in Int BY <1>2, <1>4, <1>5 DEF Attr, CurType
  <2> HIDE DEF h
  <2>2. cur' \in CurType BY <1>1, <1>2, <2>1 DEF CurType
  <2>3. /\ cur'.handle = cur.handle /\ cur'.id = cur.id /\ cur'.div = cur.div /\ cur'.attr = a
    BY <1>1, <1>2 DEF CurType
  <2>4. QED BY <2>2, <2>3
<1>10. SessionType' BY <1>1, <1>9 DEF IInv, SessionType
<1>11. Connected' BY <1>1 DEF Connected
<1>12. LinkInv' BY <1>1, <1>4, <1>9, <1>11 DEF IInv, LinkInv, AttributesOfPeer
<1>13. Bonded' BY <1>1, <1>9 DEF Bonded
<1>14. MasterInv'
  <2>1. \A j \in 1..Len(db') : db'[j].attr \in {None, Off, db'[j].id} BY <1>3, <1>5, <1>6, <1>7
  <2>2. \A j \in 1..Len(db') : \/ db'[j].attrHandle = j - 1
                               \/ emptied' /\ db'[j].attrHandle = NoHandle
    <3>1. db'[i].attrHandle = i - 1 BY <1>2, <1>6, <1>7 DEF CurType
    <3>2. \A j \in 1..Len(db) : j # i => db[j].attrHandle = j - 1
                                          \/ (emptied /\ db[j].attrHandle = NoHandle)
      BY DEF IInv, MasterInv, Current
    <3>3. QED BY <1>1, <1>7, <3>1, <3>2
  <2>3. i = cur'.handle + 1 /\ i \in 1..Len(db') /\ db'[i].id = cur'.id /\ cur'.div \in Div
    BY <1>3, <1>6, <1>7, <1>9
  <2>4. cur'.attr \in {None, Off, cur'.id} BY <1>5, <1>9
  <2>5. QED BY <2>1, <2>2, <2>3, <2>4 DEF MasterInv
<1>15. job = <<>> /\ db # <<>>
  <2>1. db # <<>> BY <1>2, <1>3, EmptySeq
  <2>2. QED BY <1>1, <2>1 DEF AtRest
<1> HIDE DEF r
<1>16. QED BY <1>1, <1>2, <1>7, <1>8, <1>10, <1>12, <1>13, <1>14, <1>15, BondedStep DEF Kind

Stored == [count : 0..MaxRecords, crc : Seq(Body) \cup {ZeroCrc}]

LEMMA WriteAllType ==
  ASSUME NEW k \in Kind, NEW recs \in Seq(Body), Len(recs) <= MaxRecords
  PROVE  WriteAll(k, recs) \in Seq(Op)
<1> DEFINE N == Len(recs)
           I(j) == (j + 1) \div 2
           W(j) == IF j = 2 * I(j) - 1 THEN BodyOp(k, I(j), recs[I(j)])
                   ELSE HeadOp(k, I(j), SubSeq(recs, 1, I(j)))
<1>1. N \in Nat BY LenProperties
<1>2. ASSUME NEW j \in 1..(2 * N) PROVE W(j) \in Op
  <2> DEFINE i == I(j)
  <2>1. i \in 1..N
    <3> HIDE DEF N
    <3>1. QED BY <1>1
  <2>2. i \in Slot BY <1>1, <2>1, SizeAssumption DEF Slot
  <2>3. recs[i] \in Body BY <2>1, ElementOfSeq
  <2>4. SubSeq(recs, 1, i) \in Seq(Body) BY <1>1, <2>1, UptoFacts
  <2> HIDE DEF i
  <2>5. BodyOp(k, i, recs[i]) \in Op /\ HeadOp(k, i, SubSeq(recs, 1, i)) \in Op
    BY <2>2, <2>3, <2>4 DEF BodyOp, HeadOp, Op
  <2>6. QED BY <2>5 DEF i
<1>3. WriteAll(k, recs) = [j \in 1..(2 * N) |-> W(j)] BY DEF WriteAll
<1> HIDE DEF W, N
<1>4. 2 * N \in Nat BY <1>1
<1> DEFINE M == 2 * N
<1> HIDE DEF M
<1>5. [j \in 1..M |-> W(j)] \in Seq(Op) BY <1>2, <1>4 DEF M
<1>6. QED BY <1>3, <1>5 DEF M

\* The counts and CRCs after all records have been stored.
LEMMA StoredAllFacts ==
  ASSUME NEW s \in Stored, NEW recs \in Seq(Body), Len(recs) <= MaxRecords
  PROVE  LET t == StoredAll(s, recs)
         IN  /\ t \in Stored /\ t.count = Len(recs)
             /\ (IF t.count = 0 THEN <<>> ELSE t.crc) = recs
             /\ recs = <<>> => t.crc = s.crc
<1> DEFINE t == StoredAll(s, recs)
           N == Len(recs)
<1>1. N \in Nat /\ MaxRecords \in Nat /\ (N = 0 <=> recs = <<>>)
  BY EmptySeq, LenProperties, SizeAssumption
<1> HIDE DEF N
<1>2. CASE recs = <<>>
  <2>1. t = [s EXCEPT !.count = 0] BY <1>2 DEF StoredAll
  <2> HIDE DEF t
  <2>2. t.count = 0 /\ t.crc = s.crc BY <2>1 DEF Stored
  <2>3. 0 \in 0..MaxRecords BY <1>1
  <2>4. t \in Stored BY <2>1, <2>3 DEF Stored
  <2>5. QED BY <1>1, <1>2, <2>2, <2>4 DEF t, N
<1>3. CASE recs # <<>>
  <2>1. t = [count |-> N, crc |-> recs] BY <1>3 DEF StoredAll, N
  <2> HIDE DEF t
  <2>2. t.count = N /\ t.crc = recs BY <2>1
  <2>3. N \in 0..MaxRecords BY <1>1 DEF N
  <2>4. t \in Stored BY <2>1, <2>3 DEF Stored
  <2>5. QED BY <1>1, <1>3, <2>2, <2>4 DEF t, N
<1>4. QED BY <1>2, <1>3

\* A page after a disconnection, rewritten or not.
LEMMA RewriteFacts ==
  ASSUME NEW k \in Kind, NEW d \in Seq(MasterType), Len(d) <= MaxMasters,
         NEW f, f = [j \in Kind |-> f[j]], f[k] = Page(Content(k))
  PROVE  /\ Rewrite(k, d) \in Seq(Op)
         /\ Leads(f, Rewrite(k, d),
                  [f EXCEPT ![k] = Page(IF Changed(k, d) THEN Records(k, d) ELSE Content(k))])
<1> DEFINE recs == Records(k, d)
<1>1. recs \in Seq(Body) /\ Len(recs) <= MaxRecords
  BY RecordsFacts, SizeAssumption, LenProperties
<1>2. CASE ~Changed(k, d)
  <2>1. Rewrite(k, d) = <<>> BY <1>2 DEF Rewrite
  <2>2. [f EXCEPT ![k] = Page(Content(k))] = f OBVIOUS
  <2>3. Leads(f, <<>>, f) BY LeadsNowhere
  <2>4. QED BY <1>2, <2>1, <2>2, <2>3, EmptySeq
<1>3. CASE Changed(k, d)
  <2> DEFINE g == [f EXCEPT ![k] = BlankPage]
             a == <<EraseOp(k)>>
             w == WriteAll(k, recs)
  <2>1. Rewrite(k, d) = a \o w BY <1>3 DEF Rewrite, StoreAll
  <2>2. EraseOp(k) \in Op BY DEF EraseOp, Op
  <2>3. a \in Seq(Op) BY <2>2
  <2>4. w \in Seq(Op) BY <1>1, WriteAllType
  <2>5. Leads(f, a, g) BY EraseLeads
  <2>6. g = [j \in Kind |-> g[j]] /\ g[k] = BlankPage
        /\ \A p : [g EXCEPT ![k] = p] = [f EXCEPT ![k] = p]
    OBVIOUS
  <2> HIDE DEF g, recs
  <2>7. Leads(g, w, [g EXCEPT ![k] = Page(recs)]) BY <1>1, <2>6, WriteLeads
  <2> HIDE DEF a, w
  <2>8. Leads(f, a \o w, [f EXCEPT ![k] = Page(recs)])
    BY <2>3, <2>4, <2>5, <2>6, <2>7, LeadsThrough
  <2>9. a \o w \in Seq(Op) BY <2>3, <2>4, ConcatProperties
  <2>10. QED BY <1>3, <2>1, <2>8, <2>9 DEF recs
<1>4. QED BY <1>2, <1>3

\* A step after which there is no link, and the pages will hold the database.
LEMMA SettledStep ==
  ASSUME db' \in Seq(MasterType), Len(db') <= MaxMasters,
         \A i \in 1..Len(db') : db'[i].attr \in {None, Off, db'[i].id},
         \A i \in 1..Len(db') : \/ db'[i].attrHandle = i - 1
                                \/ emptied' /\ db'[i].attrHandle = NoHandle,
         known' \in [Kind -> Stored], Synced',
         \A k \in Kind : Content(k)' \in Seq(Body) /\ Len(Content(k)') = known'[k].count,
         ~emptied' /\ known'["attr"].count = 0 => known'["attr"].crc \in {<<>>, ZeroCrc},
         job' \in Seq(Op), flash' = [k \in Kind |-> flash'[k]], Leads(flash', job', Pages'),
         up', ~stray',
         peerDiv' \in [Peers -> Div \cup {NoDiv}],
         cur' \in CurType, ~Bonded', cur'.attr \in {None, Off, cur'.id},
         link' = NoLink, loaded' = NotLoaded
  PROVE  IInv'
<1>1. StoreType' BY DEF StoreType, Stored
<1>2. SessionType' BY DEF SessionType, LinkType, NoLink, LoadedType, NotLoaded
<1>3. JobInv' BY DEF JobInv
<1>4. ~Connected' BY DEF Connected, NoLink
<1>5. LinkInv' BY <1>4 DEF LinkInv, AttributesOfPeer, NoLink, NotLoaded
<1>6. MasterInv' BY DEF MasterInv
<1>7. db' # <<>> => known'["bond"].count > 0
  <2>1. known'["bond"].count = Len(Records("bond", db')) BY DEF Synced, Kind
  <2>2. Len(Records("bond", db')) = Len(db') BY RecordsFacts DEF Kind
  <2>3. Len(db') \in Nat /\ (Len(db') = 0 => db' = <<>>) BY EmptySeq, LenProperties
  <2>4. QED BY <2>1, <2>2, <2>3
<1>8. SyncInv' BY <1>7 DEF SyncInv
<1>9. QED BY <1>1, <1>2, <1>3, <1>5, <1>6, <1>8 DEF IInv

\* master_update gives the current master its own attributes and handle.
LEMMA UpdatedFacts ==
  ASSUME IInv, Connected, NEW e, e = MasterUpdated
  PROVE  /\ e \in Seq(MasterType) /\ Len(e) = Len(db)
         /\ \A i \in 1..Len(e) : e[i].attr \in {None, Off, e[i].id}
         /\ \A i \in 1..Len(e) : \/ e[i].attrHandle = i - 1
                                 \/ emptied /\ e[i].attrHandle = NoHandle
<1>1. /\ cur \in CurType /\ link \in LinkType
      /\ db \in Seq(MasterType) /\ Len(db) <= MaxMasters
  BY DEF IInv, SessionType, StoreType
<1>2. /\ \A i \in 1..Len(db) : db[i].attr \in {None, Off, db[i].id}
      /\ \A i \in 1..Len(db) : \/ Current(i) /\ loaded.attr
                               \/ db[i].attrHandle = i - 1
                               \/ emptied /\ db[i].attrHandle = NoHandle
  BY DEF IInv, MasterInv
<1>3. CASE ~Bonded
  <2>1. e = db BY <1>3 DEF MasterUpdated
  <2>2. QED BY <1>1, <1>2, <1>3, <2>1 DEF Current
<1>4. CASE Bonded
  <2> DEFINE i == cur.handle + 1
             b == IF loaded.bond THEN cur ELSE db[i]
             m == IF AttrsUsed THEN Master(b.id, b.div, LinkAttributes, cur.handle)
                  ELSE Master(b.id, b.div, db[i].attr, db[i].attrHandle)
  <2>1. e = [db EXCEPT ![i] = m] BY <1>4 DEF MasterUpdated
  <2>2. i \in 1..Len(db) /\ db[i].id = cur.id /\ cur.div \in Div BY <1>4 DEF IInv, MasterInv
  <2>3. db[i] \in MasterType BY <1>1, <2>2, ElementOfSeq
  <2>4. b.id = db[i].id /\ b.id \in Peers /\ b.div \in Div BY <2>2, <2>3 DEF MasterType
  <2> HIDE DEF b
  <2>5. m \in MasterType /\ m.id = b.id /\ m.attr \in {None, Off, m.id}
        /\ (m.attrHandle = i - 1 \/ (emptied /\ m.attrHandle = NoHandle))
    <3>1. CASE AttrsUsed
      <4>1. cur.id = link.peer BY <3>1 DEF IInv, LinkInv, AttrsUsed
      <4>2. LinkAttributes \in {Off, b.id}
        BY <2>2, <2>4, <4>1 DEF IInv, LinkInv, AttributesOfPeer, LinkAttributes
      <4>3. cur.handle \in Int /\ i - 1 = cur.handle /\ LinkAttributes \in Attr
        BY <1>1, <2>4, <4>2 DEF CurType, Attr
      <4>4. m = Master(b.id, b.div, LinkAttributes, cur.handle) BY <3>1
      <4> HIDE DEF m
      <4>5. m.id = b.id /\ m.attr = LinkAttributes /\ m.attrHandle = cur.handle
        BY <4>4 DEF Master
      <4>6. m \in MasterType BY <2>4, <4>3, <4>4 DEF MasterType, Master
      <4>7. QED BY <4>2, <4>3, <4>5, <4>6
    <3>2. CASE ~AttrsUsed
      <4>1. m = Master(b.id, b.div, db[i].attr, db[i].attrHandle) BY <3>2
      <4>2. db[i].attrHandle = i - 1 \/ (emptied /\ db[i].attrHandle = NoHandle)
        BY <1>2, <2>2, <3>2 DEF AttrsUsed
      <4>3. db[i].attr \in {None, Off, b.id} BY <1>2, <2>2, <2>4
      <4>4. db[i].attr \in Attr /\ db[i].attrHandle \in Int BY <2>3 DEF MasterType
      <4> HIDE DEF m
      <4>5. m.id = b.id /\ m.attr = db[i].attr /\ m.attrHandle = db[i].attrHandle
        BY <4>1 DEF Master
      <4>6. m \in MasterType BY <2>4, <4>1, <4>4 DEF MasterType, Master
      <4>7. QED BY <4>2, <4>3, <4>5, <4>6
    <3>3. QED BY <3>1, <3>2
  <2> HIDE DEF m
  <2>6. /\ e \in Seq(MasterType) /\ Len(e) = Len(db) /\ e[i] = m
        /\ \A j \in 1..Len(db) : j # i => e[j] = db[j]
    <3> HIDE DEF i
    <3>1. QED BY <1>1, <2>1, <2>2, <2>5, ExceptSeq
  <2>7. QED BY <1>2, <2>5, <2>6 DEF Current
<1>5. QED BY <1>3, <1>4

\* A disconnection: the current master is put back and both pages are brought up to date.
LEMMA DisconnectStep ==
  ASSUME IInv, Disconnect
  PROVE  IInv'
<1> DEFINE e == MasterUpdated
           rb == Records("bond", e)
           ra == Records("attr", e)
           kn == [k \in Kind |-> IF Changed(k, e) THEN StoredAll(known[k], Records(k, e))
                                 ELSE known[k]]
<1>1. /\ AtRest /\ Connected
      /\ db' = e
      /\ known' = [k \in Kind |-> IF Changed(k, db') THEN StoredAll(known[k], Records(k, db'))
                                  ELSE known[k]]
      /\ job' = Rewrite("bond", db') \o Rewrite("attr", db')
      /\ cur' = [NoMaster EXCEPT !.attrHandle = NoHandle]
      /\ loaded' = NotLoaded /\ link' = NoLink
      /\ UNCHANGED <<peerDiv, flash, up, stray, emptied>>
  BY DEF Disconnect
<1>2. job = <<>> /\ ~stray /\ up BY <1>1 DEF AtRest
<1>3. /\ e \in Seq(MasterType) /\ Len(e) = Len(db)
      /\ \A i \in 1..Len(e) : e[i].attr \in {None, Off, e[i].id}
      /\ \A i \in 1..Len(e) : \/ e[i].attrHandle = i - 1
                              \/ emptied /\ e[i].attrHandle = NoHandle
  BY <1>1, UpdatedFacts
<1>4. /\ db \in Seq(MasterType) /\ Len(db) <= MaxMasters /\ Len(db) \in Nat
      /\ MaxMasters <= MaxRecords /\ MaxMasters \in Nat /\ MaxRecords \in Nat
  BY SizeAssumption, LenProperties DEF IInv, StoreType
<1>5. e = <<>> => ~Bonded /\ db = <<>> /\ e = db
  <2>1. e = <<>> => Len(db) = 0 BY <1>3, EmptySeq
  <2>2. Len(db) = 0 => db = <<>> BY <1>4, EmptySeq
  <2>3. Len(db) = 0 => ~Bonded BY DEF IInv, MasterInv
  <2>4. QED BY <2>1, <2>2, <2>3
<1>6. e # <<>> => db # <<>> BY <1>3, <1>4, EmptySeq
<1>7. /\ rb \in Seq(Body) /\ Len(rb) = Len(e) /\ ra \in Seq(Body) /\ Len(ra) = Len(e)
      /\ \A i \in 1..Len(e) : ra[i] = AttrRecord(e, i)
      /\ Len(e) <= MaxRecords /\ Len(e) <= MaxMasters
  BY <1>3, <1>4, RecordsFacts DEF Kind
<1>8. known \in [Kind -> Stored] BY DEF IInv, StoreType, Stored
<1>9. /\ \A k \in Kind : Content(k) \in Seq(Body) /\ Len(Content(k)) = known[k].count
      /\ db # <<>> => known["bond"].count > 0
      /\ ~emptied /\ known["attr"].count = 0 => known["attr"].crc \in {<<>>, ZeroCrc}
      /\ ~Bonded => Synced
  BY <1>2 DEF IInv, JobInv, SyncInv
<1>10. known' = kn BY <1>1
<1> HIDE DEF e
<1>11. ASSUME NEW k \in Kind
       PROVE  /\ known'[k] \in Stored
              /\ Content(k)' \in Seq(Body) /\ Len(Content(k)') = known'[k].count
              /\ Content(k)' = IF Changed(k, e) THEN Records(k, e) ELSE Content(k)
              /\ ~Changed(k, e) => known'[k] = known[k]
              /\ Records(k, e) = <<>> => known'[k].crc = known[k].crc
  <2> DEFINE recs == Records(k, e)
             t == StoredAll(known[k], recs)
  <2>1. recs \in Seq(Body) /\ Len(recs) <= MaxRecords BY <1>7 DEF Kind
  <2>2. known[k] \in Stored BY <1>8
  <2> HIDE DEF recs
  <2>3. /\ t \in Stored /\ t.count = Len(recs)
        /\ (IF t.count = 0 THEN <<>> ELSE t.crc) = recs
        /\ recs = <<>> => t.crc = known[k].crc
    BY <2>1, <2>2, StoredAllFacts
  <2>4. known'[k] = IF Changed(k, e) THEN t ELSE known[k] BY <1>10 DEF recs
  <2> HIDE DEF t
  <2>5. CASE Changed(k, e)
    <3>1. known'[k] = t BY <2>4, <2>5
    <3>2. Content(k)' = recs BY <2>3, <3>1 DEF Content
    <3>3. QED BY <2>1, <2>3, <2>5, <3>1, <3>2 DEF recs
  <2>6. CASE ~Changed(k, e)
    <3>1. known'[k] = known[k] BY <2>4, <2>6
    <3>2. Content(k)' = Content(k) BY <3>1 DEF Content
    <3>3. QED BY <1>9, <2>2, <2>6, <3>1, <3>2
  <2>7. QED BY <2>5, <2>6
<1>12. known' \in [Kind -> Stored] BY <1>10, <1>11
<1>13. "bond" \in Kind /\ "attr" \in Kind BY DEF Kind
<1>14. Content("bond")' = rb
  <2>1. CASE Changed("bond", e) BY <1>11, <1>13, <2>1
  <2>2. CASE ~Changed("bond", e)
    <3>1. Content("bond")' = Content("bond") BY <1>11, <1>13, <2>2
    <3>2. rb = known["bond"].crc BY <2>2 DEF Changed
    <3>3. CASE e = <<>>
      <4>1. rb = <<>> BY <1>7, <3>3, EmptySeq
      <4>2. QED BY <3>1, <3>2, <4>1 DEF Content
    <3>4. CASE e # <<>>
      <4>1. known["bond"].count > 0 BY <1>6, <1>9, <3>4
      <4>2. QED BY <3>1, <3>2, <4>1 DEF Content
    <3>5. QED BY <3>3, <3>4
  <2>3. QED BY <2>1, <2>2
<1>15. Content("attr")' = ra \/ (emptied' /\ Content("attr")' = <<>>)
  <2>1. CASE Changed("attr", e) BY <1>11, <1>13, <2>1
  <2>2. CASE ~Changed("attr", e)
    <3>1. Content("attr")' = Content("attr") BY <1>11, <1>13, <2>2
    <3>2. ra = known["attr"].crc BY <2>2 DEF Changed
    <3>3. CASE known["attr"].count # 0 BY <3>1, <3>2, <3>3 DEF Content
    <3>4. CASE known["attr"].count = 0
      <4>1. Content("attr")' = <<>> BY <3>1, <3>4 DEF Content
      <4>2. CASE emptied BY <1>1, <4>1, <4>2
      <4>3. CASE ~emptied
        <5>1. ra \in {<<>>, ZeroCrc} BY <1>9, <3>2, <3>4, <4>3
        <5>2. ra # ZeroCrc
          <6>1. SUFFICES ASSUME ra = <<Blank>> PROVE FALSE BY DEF ZeroCrc
          <6>2. Len(ra) = 1 /\ ra[1] = Blank
            <7> DEFINE z == <<Blank>>
            <7>1. Len(z) = 1 /\ z[1] = Blank OBVIOUS
            <7> HIDE DEF ra, z
            <7>2. QED BY <6>1, <7>1 DEF z
          <6>3. 1 \in 1..Len(e) BY <1>7, <6>2
          <6>4. ra[1].handle = e[1].attrHandle
            <7>1. AttrRecord(e, 1).handle = e[1].attrHandle BY DEF AttrRecord
            <7> HIDE DEF ra
            <7>2. ra[1] = AttrRecord(e, 1) BY <1>7, <6>3
            <7>3. QED BY <7>1, <7>2
          <6>5. Blank.handle = -3 BY DEF Blank
          <6>6. e[1].attrHandle \in {0, -1} BY <1>3, <6>3 DEF NoHandle
          <6>7. QED BY <6>2, <6>4, <6>5, <6>6
        <5>3. QED BY <4>1, <5>1, <5>2
      <4>4. QED BY <4>2, <4>3
    <3>5. QED BY <3>3, <3>4
  <2>3. QED BY <2>1, <2>2
<1>16. Synced' BY <1>1, <1>14, <1>15 DEF Synced
<1>17. ~emptied' /\ known'["attr"].count = 0 => known'["attr"].crc \in {<<>>, ZeroCrc}
  <2> SUFFICES ASSUME ~emptied', known'["attr"].count = 0
               PROVE  known'["attr"].crc \in {<<>>, ZeroCrc}
    OBVIOUS
  <2>1. CASE Changed("attr", e)
    <3>1. Content("attr")' = ra /\ Len(Content("attr")') = 0 BY <1>11, <1>13, <2>1
    <3>2. ra = <<>> /\ e = <<>> BY <1>3, <1>7, <3>1, EmptySeq
    <3>3. known'["attr"].crc = known["attr"].crc BY <1>11, <1>13, <3>2
    <3>4. Synced /\ e = db BY <1>5, <1>9, <3>2
    <3>5. Content("attr") = <<>> BY <3>2, <3>4 DEF Synced
    <3>6. known["attr"].count = 0 BY <1>9, <1>13, <3>5, EmptySeq
    <3>7. QED BY <1>1, <1>9, <3>3, <3>6
  <2>2. CASE ~Changed("attr", e) BY <1>1, <1>9, <1>11, <1>13, <2>2
  <2>3. QED BY <2>1, <2>2
<1>18. flash = Pages /\ flash = [k \in Kind |-> flash[k]]
  BY <1>2, RestFacts DEF IInv, StoreType
<1>19. job' \in Seq(Op) /\ Leads(flash', job', Pages')
  <2> DEFINE wb == Rewrite("bond", e)
             wa == Rewrite("attr", e)
             pb == Page(Content("bond")')
             pa == Page(Content("attr")')
             g == [flash EXCEPT !["bond"] = pb]
             h == [g EXCEPT !["attr"] = pa]
  <2>1. flash["bond"] = Page(Content("bond")) /\ flash["attr"] = Page(Content("attr"))
    BY <1>18 DEF Pages, Kind
  <2>2. /\ Content("bond")' = IF Changed("bond", e) THEN Records("bond", e) ELSE Content("bond")
        /\ Content("attr")' = IF Changed("attr", e) THEN Records("attr", e) ELSE Content("attr")
    BY <1>11, <1>13
  <2>3. wb \in Seq(Op) /\ Leads(flash, wb, g)
    <3>1. /\ wb \in Seq(Op)
          /\ Leads(flash, wb, [flash EXCEPT !["bond"] =
                     Page(IF Changed("bond", e) THEN Records("bond", e) ELSE Content("bond"))])
      BY <1>3, <1>7, <1>13, <1>18, <2>1, RewriteFacts
    <3>2. QED BY <2>2, <3>1
  <2>4. g = [k \in Kind |-> g[k]] /\ g["attr"] = Page(Content("attr")) BY <1>18, <2>1 DEF Kind
  <2>5. h = Pages'
    <3>1. Pages' = [k \in Kind |-> Page(Content(k)')] BY DEF Pages
    <3>2. h = [k \in Kind |-> h[k]] /\ h["bond"] = pb /\ h["attr"] = pa BY <1>18 DEF Kind
    <3> HIDE DEF h
    <3>3. QED BY <3>1, <3>2 DEF Kind
  <2> HIDE DEF g, wb
  <2>6. wa \in Seq(Op) /\ Leads(g, wa, h)
    <3>1. /\ wa \in Seq(Op)
          /\ Leads(g, wa, [g EXCEPT !["attr"] =
                     Page(IF Changed("attr", e) THEN Records("attr", e) ELSE Content("attr"))])
      BY <1>3, <1>7, <1>13, <2>4, RewriteFacts
    <3>2. QED BY <2>2, <3>1
  <2> HIDE DEF wa, h
  <2>7. job' = wb \o wa BY <1>1 DEF wb, wa
  <2>8. wb \o wa \in Seq(Op) BY <2>3, <2>6, ConcatProperties
  <2>9. Leads(flash, wb \o wa, h) BY <2>3, <2>6, LeadsThrough
  <2>10. QED BY <1>1, <2>5, <2>7, <2>8, <2>9
<1>20. flash' = [k \in Kind |-> flash'[k]] BY <1>1, <1>18
<1>21. cur' \in CurType /\ ~Bonded' /\ cur'.attr = None
  <2>1. cur' = [handle |-> NoHandle, id |-> NoPeer, div |-> NoDiv, attr |-> None,
                attrHandle |-> NoHandle]
    BY <1>1 DEF NoMaster
  <2>2. QED BY <2>1 DEF CurType, Bonded, NoHandle, Attr
<1>22. peerDiv' \in [Peers -> Div \cup {NoDiv}] BY <1>1 DEF IInv, SessionType
<1>23. \A k \in Kind : Content(k)' \in Seq(Body) /\ Len(Content(k)') = known'[k].count
  BY <1>11
<1>24. /\ db' \in Seq(MasterType) /\ Len(db') <= MaxMasters
       /\ \A i \in 1..Len(db') : db'[i].attr \in {None, Off, db'[i].id}
       /\ \A i \in 1..Len(db') : \/ db'[i].attrHandle = i - 1
                                 \/ emptied' /\ db'[i].attrHandle = NoHandle
  BY <1>1, <1>3, <1>7
<1>25. up' /\ ~stray' BY <1>1, <1>2
<1>26. QED
  BY <1>1, <1>12, <1>16, <1>17, <1>19, <1>20, <1>21, <1>22, <1>23, <1>24, <1>25, SettledStep

\* A deletion: both pages are erased and written again.
LEMMA DeleteStep ==
  ASSUME IInv, NEW d \in Div, Delete(d)
  PROVE  IInv'
<1> DEFINE i == WithDiv(d)
           N == Len(db)
           M(j) == IF j < i THEN db[j] ELSE [db[j + 1] EXCEPT !.attrHandle = HandleShifted(@)]
           rest == [j \in 1..(N - 1) |-> M(j)]
           rb == Records("bond", rest)
           ra == Records("attr", rest)
           ee == <<EraseOp("bond"), EraseOp("attr")>>
<1>1. /\ AtRest /\ ~Connected
      /\ \E j \in DOMAIN db : db[j].div = d
      /\ db' = rest
      /\ known' = [k \in Kind |-> StoredAll(known[k], Records(k, rest))]
      /\ job' = ee \o WriteAll("bond", rb) \o WriteAll("attr", ra)
      /\ emptied' = (emptied \/ rest = <<>>)
      /\ UNCHANGED <<cur, loaded, link, peerDiv, flash, up, stray>>
  BY DEF Delete
<1>2. job = <<>> /\ ~stray /\ up BY <1>1 DEF AtRest
<1>3. /\ link' = NoLink /\ ~Bonded /\ loaded' = NotLoaded /\ cur' = cur
      /\ cur.attr \in {None, Off, cur.id} /\ cur \in CurType
  BY <1>1 DEF IInv, LinkInv, MasterInv, SessionType
<1>4. /\ db \in Seq(MasterType) /\ N <= MaxMasters /\ N \in Nat
      /\ MaxMasters <= MaxRecords /\ MaxMasters \in Nat /\ MaxRecords \in Nat
  BY SizeAssumption, LenProperties DEF IInv, StoreType
<1>5. i \in 1..N BY <1>1, <1>4, FoundFacts, LenProperties
<1>6. \A j \in 1..N : /\ db[j] \in MasterType
                      /\ db[j].attr \in {None, Off, db[j].id}
                      /\ db[j].attrHandle = j - 1 \/ (emptied /\ db[j].attrHandle = NoHandle)
  <2>1. \A j \in 1..N : db[j] \in MasterType BY <1>4, ElementOfSeq
  <2>2. QED BY <1>3, <2>1 DEF IInv, MasterInv, Current
<1> HIDE DEF i
<1>7. ASSUME NEW j \in 1..(N - 1)
      PROVE  /\ M(j) \in MasterType /\ M(j).attr \in {None, Off, M(j).id}
             /\ M(j).attrHandle = j - 1 \/ (emptied /\ M(j).attrHandle = NoHandle)
  <2>1. j \in 1..N /\ j + 1 \in 1..N /\ (j + 1) - 1 = j BY <1>4
  <2>2. CASE j < i
    <3>1. M(j) = db[j] BY <2>2
    <3>2. QED BY <1>6, <2>1, <3>1
  <2>3. CASE ~(j < i)
    <3> DEFINE m == db[j + 1]
               x == [m EXCEPT !.attrHandle = HandleShifted(@)]
    <3>1. M(j) = x BY <2>3
    <3>2. /\ m \in MasterType /\ m.attr \in {None, Off, m.id}
          /\ m.attrHandle = j \/ (emptied /\ m.attrHandle = NoHandle)
      BY <1>6, <2>1
    <3> HIDE DEF m, M
    <3>3. HandleShifted(m.attrHandle) \in Int BY <3>2 DEF MasterType, HandleShifted, NoHandle
    <3>4. x \in MasterType BY <3>2, <3>3 DEF MasterType
    <3>5. x.attr = m.attr /\ x.id = m.id /\ x.attrHandle = HandleShifted(m.attrHandle)
      BY <3>2 DEF MasterType
    <3>6. m.attrHandle = j => HandleShifted(m.attrHandle) = j - 1
      BY <2>1 DEF HandleShifted, NoHandle
    <3>7. m.attrHandle = NoHandle => HandleShifted(m.attrHandle) = NoHandle
      BY DEF HandleShifted
    <3> HIDE DEF x
    <3>8. QED BY <3>1, <3>2, <3>4, <3>5, <3>6, <3>7
  <2>4. QED BY <2>2, <2>3
<1>8. /\ rest \in Seq(MasterType) /\ Len(rest) = N - 1
      /\ \A j \in 1..(N - 1) : rest[j] = M(j)
  <2> DEFINE K == N - 1
  <2>1. K \in Nat BY <1>4, <1>5
  <2>2. \A j \in 1..K : M(j) \in MasterType BY <1>7
  <2> HIDE DEF M, N, K
  <2>3. [j \in 1..K |-> M(j)] \in Seq(MasterType) /\ Len([j \in 1..K |-> M(j)]) = K
    BY <2>1, <2>2
  <2>4. QED BY <2>3 DEF K
<1> HIDE DEF rest
<1>9. /\ \A j \in 1..Len(rest) : rest[j].attr \in {None, Off, rest[j].id}
      /\ \A j \in 1..Len(rest) : rest[j].attrHandle = j - 1
                                 \/ (emptied /\ rest[j].attrHandle = NoHandle)
  <2> HIDE DEF M
  <2>1. QED BY <1>7, <1>8
<1>10. Len(rest) <= MaxMasters /\ Len(rest) <= MaxRecords BY <1>4, <1>8
<1>11. rb \in Seq(Body) /\ Len(rb) = Len(rest) /\ ra \in Seq(Body) /\ Len(ra) = Len(rest)
  BY <1>8, RecordsFacts DEF Kind
<1>12. known \in [Kind -> Stored] BY DEF IInv, StoreType, Stored
<1> HIDE DEF N, M
<1>13. ASSUME NEW k \in Kind
       PROVE  /\ known'[k] \in Stored /\ known'[k].count = Len(rest)
              /\ Content(k)' = Records(k, rest)
              /\ Content(k)' \in Seq(Body) /\ Len(Content(k)') = known'[k].count
  <2> DEFINE recs == Records(k, rest)
             t == StoredAll(known[k], recs)
  <2>1. recs \in Seq(Body) /\ Len(recs) = Len(rest) BY <1>8, RecordsFacts
  <2>2. known[k] \in Stored BY <1>12
  <2>3. known'[k] = t BY <1>1
  <2> HIDE DEF recs
  <2>4. /\ t \in Stored /\ t.count = Len(recs)
        /\ (IF t.count = 0 THEN <<>> ELSE t.crc) = recs
    BY <1>10, <2>1, <2>2, StoredAllFacts
  <2> HIDE DEF t
  <2>5. Content(k)' = recs BY <2>3, <2>4 DEF Content
  <2>6. QED BY <2>1, <2>3, <2>4, <2>5 DEF recs
<1>14. known' \in [Kind -> Stored] BY <1>1, <1>13
<1>15. Synced' BY <1>1, <1>13 DEF Synced, Kind
<1>16. ~emptied' /\ known'["attr"].count = 0 => known'["attr"].crc \in {<<>>, ZeroCrc}
  <2>1. known'["attr"].count = Len(rest) BY <1>13 DEF Kind
  <2>2. Len(rest) = 0 => rest = <<>> BY <1>8, EmptySeq
  <2>3. QED BY <1>1, <2>1, <2>2
<1>17. flash = [k \in Kind |-> flash[k]] BY DEF IInv, StoreType
<1>18. job' \in Seq(Op) /\ Leads(flash', job', Pages')
  <2> DEFINE wb == WriteAll("bond", rb)
             wa == WriteAll("attr", ra)
             b == [k \in Kind |-> BlankPage]
             g == [b EXCEPT !["bond"] = Page(rb)]
             h == [g EXCEPT !["attr"] = Page(ra)]
  <2>1. b = [k \in Kind |-> b[k]] /\ b["bond"] = BlankPage BY DEF Kind
  <2>2. g = [k \in Kind |-> g[k]] /\ g["attr"] = BlankPage BY DEF Kind
  <2>3. h = Pages'
    <3>1. Pages' = [k \in Kind |-> Page(Content(k)')] BY DEF Pages
    <3>2. Content("bond")' = rb /\ Content("attr")' = ra BY <1>13 DEF Kind
    <3>3. h = [k \in Kind |-> h[k]] /\ h["bond"] = Page(rb) /\ h["attr"] = Page(ra) BY DEF Kind
    <3> HIDE DEF h
    <3>4. QED BY <3>1, <3>2, <3>3 DEF Kind
  <2>4. Leads(flash, ee, b) /\ ee \in Seq(Op) BY <1>17, ErasesLead
  <2> HIDE DEF b, ee, rb, ra
  <2>5. Leads(b, wb, g) BY <1>10, <1>11, <2>1, WriteLeads DEF Kind
  <2> HIDE DEF g
  <2>6. Leads(g, wa, h) BY <1>10, <1>11, <2>2, WriteLeads DEF Kind
  <2>7. wb \in Seq(Op) /\ wa \in Seq(Op) BY <1>10, <1>11, WriteAllType DEF Kind
  <2>8. job' = ee \o wb \o wa BY <1>1 DEF ee, rb, ra
  <2> HIDE DEF wb, wa, h
  <2>9. ee \o wb \in Seq(Op) BY <2>4, <2>7, ConcatProperties
  <2>10. Leads(flash, ee \o wb, g) BY <2>4, <2>5, <2>7, LeadsThrough
  <2> DEFINE ew == ee \o wb
  <2> HIDE DEF ew
  <2>11. Leads(flash, ew \o wa, h) BY <2>6, <2>7, <2>9, <2>10, LeadsThrough DEF ew
  <2>12. ew \o wa \in Seq(Op) BY <2>7, <2>9, ConcatProperties DEF ew
  <2>13. QED BY <1>1, <2>3, <2>8, <2>11, <2>12 DEF ew
<1>19. flash' = [k \in Kind |-> flash'[k]] BY <1>1, <1>17
<1>20. peerDiv' \in [Peers -> Div \cup {NoDiv}] BY <1>1 DEF IInv, SessionType
<1>21. cur' \in CurType /\ ~Bonded' /\ cur'.attr \in {None, Off, cur'.id} BY <1>3 DEF Bonded
<1>22. /\ db' \in Seq(MasterType) /\ Len(db') <= MaxMasters
       /\ \A j \in 1..Len(db') : db'[j].attr \in {None, Off, db'[j].id}
       /\ \A j \in 1..Len(db') : \/ db'[j].attrHandle = j - 1
                                 \/ emptied' /\ db'[j].attrHandle = NoHandle
  BY <1>1, <1>8, <1>9, <1>10
<1>23. up' /\ ~stray' BY <1>1, <1>2
<1>24. \A k \in Kind : Content(k)' \in Seq(Body) /\ Len(Content(k)') = known'[k].count
  BY <1>13
<1>25. QED
  BY <1>3, <1>14, <1>15, <1>16, <1>18, <1>19, <1>20, <1>21, <1>22, <1>23, <1>24, SettledStep

LEMMA InitInv ==
  ASSUME Init
  PROVE  IInv
<1>1. /\ db = <<>> /\ cur = NoMaster /\ loaded = NotLoaded /\ link = NoLink
      /\ peerDiv = [p \in Peers |-> NoDiv]
      /\ flash = [k \in Kind |-> BlankPage]
      /\ known = [k \in Kind |-> [count |-> 0, crc |-> IF k = "bond" THEN <<>> ELSE ZeroCrc]]
      /\ job = <<>> /\ up = TRUE /\ stray = FALSE /\ emptied = FALSE
  BY DEF Init
<1>2. /\ known["bond"] = [count |-> 0, crc |-> <<>>]
      /\ known["attr"] = [count |-> 0, crc |-> ZeroCrc]
  BY <1>1 DEF Kind
<1>3. known["bond"].count = 0 /\ known["attr"].count = 0 /\ known["attr"].crc = ZeroCrc BY <1>2
<1>4. \A k \in Kind : Content(k) = <<>> /\ known[k].count = 0 BY <1>3 DEF Content, Kind
<1>5. MaxMasters \in Nat /\ MaxRecords \in Nat BY SizeAssumption
<1>6. StoreType
  <2>1. db \in Seq(MasterType) /\ Len(db) = 0 BY <1>1, EmptySeq
  <2>2. job \in Seq(Op) BY <1>1, EmptySeq
  <2>3. known \in [Kind -> [count : 0..MaxRecords, crc : Seq(Body) \cup {ZeroCrc}]]
    <3>1. <<>> \in Seq(Body) BY EmptySeq
    <3>2. \A k \in Kind : [count |-> 0, crc |-> IF k = "bond" THEN <<>> ELSE ZeroCrc]
                            \in [count : 0..MaxRecords, crc : Seq(Body) \cup {ZeroCrc}]
      BY <1>5, <3>1
    <3>3. QED BY <1>1, <3>2
  <2>4. QED BY <1>1, <1>5, <2>1, <2>2, <2>3 DEF StoreType
<1>7. SessionType
  <2>1. cur \in CurType BY <1>1 DEF CurType, NoMaster, NoHandle, Attr
  <2>2. loaded \in LoadedType BY <1>1 DEF LoadedType, NotLoaded
  <2>3. link \in LinkType BY <1>1 DEF LinkType, NoLink
  <2>4. QED BY <1>1, <2>1, <2>2, <2>3 DEF SessionType
<1>8. JobInv
  <2>1. \A k \in Kind : Content(k) \in Seq(Body) /\ Len(Content(k)) = known[k].count
    BY <1>4, EmptySeq
  <2>2. Pages = flash
    <3>1. \A k \in Kind : Page(Content(k)) = BlankPage BY <1>4, EmptyPage
    <3>2. QED BY <1>1, <3>1 DEF Pages
  <2>3. Leads(flash, <<>>, flash) BY LeadsNowhere
  <2>4. QED BY <1>1, <2>1, <2>2, <2>3 DEF JobInv
<1>9. ~Connected /\ ~Bonded BY <1>1 DEF Connected, Bonded, NoLink, NoMaster
<1>10. LinkInv BY <1>1, <1>9 DEF LinkInv, AttributesOfPeer, NoLink, NotLoaded
<1>11. Len(db) = 0 BY <1>1, EmptySeq
<1>12. MasterInv BY <1>1, <1>9, <1>11 DEF MasterInv, NoMaster
<1>13. SyncInv
  <2>1. Synced
    <3>1. Content("bond") = Records("bond", db) /\ Content("attr") = Records("attr", db)
      BY <1>1, <1>4, EmptyPage DEF Kind
    <3>2. QED BY <3>1 DEF Synced
  <2>2. QED BY <1>1, <1>3, <2>1 DEF SyncInv
<1>14. QED BY <1>6, <1>7, <1>8, <1>10, <1>12, <1>13 DEF IInv

LEMMA NextInv ==
  ASSUME ~ResetAnytime, IInv, [Next]_vars
  PROVE  IInv'
<1>1. CASE FlashStep BY <1>1, FlashStepStep
<1>2. CASE Reset BY <1>2, ResetStep
<1>3. CASE \E p \in Peers : Connect(p) BY <1>3, ConnectStep
<1>4. CASE SecInfoRequest BY <1>4, SecInfoRequestStep
<1>5. CASE SecParamsRequest BY <1>5, SecParamsRequestStep
<1>6. CASE ConnSecUpdate BY <1>6, ConnSecUpdateStep
<1>7. CASE \E d \in Div : AuthStatus(d) BY <1>7, AuthStatusStep
<1>8. CASE SysAttrMissing BY <1>8, SysAttrMissingStep
<1>9. CASE PeerWrites BY <1>9, PeerWritesStep
<1>10. CASE Disconnect BY <1>10, DisconnectStep
<1>11. CASE SysAttrStore BY <1>11, SysAttrStoreStep
<1>12. CASE DeleteAll BY <1>12, DeleteAllStep
<1>13. CASE \E d \in Div : Delete(d) BY <1>13, DeleteStep
<1>14. CASE UNCHANGED vars
  <2>1. UNCHANGED storeVars /\ UNCHANGED <<cur, loaded, link, peerDiv>>
    BY <1>14 DEF vars, ramVars, storeVars
  <2>2. UNCHANGED <<db, emptied>> BY <2>1 DEF storeVars
  <2>3. SessionType' /\ LinkInv'
    BY <2>1 DEF IInv, SessionType, LinkInv, Connected, Bonded, AttributesOfPeer
  <2>4. MasterInv' BY <2>1, <2>2 DEF IInv, MasterInv, Current, Bonded
  <2>5. Bonded => Bonded' BY <2>1 DEF Bonded
  <2>6. QED BY <2>1, <2>3, <2>4, <2>5, SessionStep
<1>15. QED
  BY <1>1, <1>2, <1>3, <1>4, <1>5, <1>6, <1>7, <1>8, <1>9, <1>10, <1>11, <1>12, <1>13, <1>14
     DEF Next

-----------------------------------------------------------------------------
(* What the invariant says about a reset.                                   *)

LEMMA BondsReloadFacts == IInv => BondsReload
<1> SUFFICES ASSUME IInv, AtRest, ~Connected
             PROVE  LET b == LoadBonds(flash["bond"])
                    IN  Succeeded(b) /\ Records("bond", b.db) = Records("bond", db)
  BY DEF BondsReload
<1>1. job = <<>> /\ ~stray /\ ~Bonded BY DEF AtRest, IInv, LinkInv
<1>2. db \in Seq(MasterType) /\ Len(db) <= MaxMasters BY DEF IInv, StoreType
<1>3. flash["bond"] = Page(Records("bond", db)) BY <1>1, RestLoadable DEF Loadable
<1>4. QED BY <1>2, <1>3, LoadBondsFacts, BareFacts

LEMMA AttributesReloadFacts == IInv => AttributesReload
<1> SUFFICES ASSUME IInv, ~emptied, AtRest, ~Connected
             PROVE  LET l == Load(flash, ZeroCrc) IN l.ok /\ ~l.stray /\ l.db = db
  BY DEF AttributesReload, AttributesStored
<1> DEFINE l == Load(flash, ZeroCrc)
           c == Records("attr", db)
<1>1. job = <<>> /\ ~stray /\ ~Bonded BY DEF AtRest, IInv, LinkInv
<1>2. /\ Loadable(db, Content("attr"), flash, ZeroCrc) /\ Content("attr") = c
      /\ \A i \in 1..Len(db) : db[i].attrHandle = i - 1
  BY <1>1, RestLoadable
<1>3. /\ db \in Seq(MasterType) /\ Len(db) <= MaxMasters
      /\ flash["bond"] = Page(Records("bond", db)) /\ flash["attr"] = Page(c)
  BY <1>2 DEF Loadable
<1>4. HandlesFit(db) BY <1>2 DEF HandlesFit
<1>5. /\ l.ok
      /\ l.db = IF c = <<>> THEN Bare(db) ELSE Reloaded(db)
      /\ l.known = [k \in Kind |->
                      IF k = "bond" THEN [count |-> Len(db), crc |-> Records("bond", db)]
                      ELSE [count |-> Len(c), crc |-> IF db = <<>> THEN ZeroCrc ELSE c]]
      /\ l.stray <=> \E i \in 1..Len(c) : c[i].handle \notin 0..(MaxMasters - 1)
  <2>1. c = Records("attr", db) \/ c = <<>> OBVIOUS
  <2>2. QED BY <1>3, <1>4, <2>1, LoadFacts
<1>6. /\ c \in Seq(Body) /\ Len(c) = Len(db)
      /\ \A i \in 1..Len(db) : c[i] = AttrRecord(db, i)
  BY <1>3, RecordsFacts DEF Kind
<1>7. Len(db) \in Nat /\ MaxMasters \in Nat BY <1>3, SizeAssumption, LenProperties
<1> HIDE DEF c, l
<1>8. ~l.stray
  <2>1. \A i : AttrRecord(db, i).handle = db[i].attrHandle BY DEF AttrRecord
  <2>2. \A i \in 1..Len(c) : c[i].handle = i - 1 BY <1>2, <1>6, <2>1
  <2>3. \A i \in 1..Len(c) : i - 1 \in 0..(MaxMasters - 1) BY <1>3, <1>6, <1>7
  <2>4. QED BY <1>5, <2>2, <2>3
<1>9. l.db = db
  <2>1. CASE c = <<>>
    <3>1. Len(db) = 0 /\ db = <<>> BY <1>3, <1>6, <2>1, EmptySeq
    <3>2. Bare(db) \in Seq(MasterType) /\ Len(Bare(db)) = 0 BY <1>3, <3>1, BareFacts
    <3>3. QED BY <1>5, <2>1, <3>1, <3>2, EmptySeq
  <2>2. CASE c # <<>> BY <1>2, <1>3, <1>5, <2>2, ReloadedFacts
  <2>3. QED BY <2>1, <2>2
<1>10. QED BY <1>5, <1>8, <1>9 DEF l

-----------------------------------------------------------------------------
(* Theorems.  The chip is reset only while the bond manager has nothing to  *)
(* do and no master is connected.                                           *)

\* The RAM copy of the counts and CRCs tells what the pages hold once the
\* flash operations queued by the last call are done, whatever the masters and
\* the application have done (ble_bondmngr.c).
THEOREM PagesFollow ==
  ASSUME ~ResetAnytime
  PROVE  Spec => []IInv
<1>1. Init => IInv BY InitInv
<1>2. IInv /\ [Next]_vars => IInv' BY NextInv
<1>3. QED BY <1>1, <1>2, PTL DEF Spec

\* Bonds written while masters come, bond, change keys, are deleted and go
\* again are all loaded by the next ble_bondmngr_init.
THEOREM BondsSurvive ==
  ASSUME ~ResetAnytime
  PROVE  Spec => []BondsReload
<1>1. Spec => []IInv BY PagesFollow
<1>2. IInv => BondsReload BY BondsReloadFacts
<1>3. QED BY <1>1, <1>2, PTL

\* So are the system attributes stored on disconnections, each with the master
\* it belongs to, unless the last master has once been deleted.
THEOREM AttributesSurvive ==
  ASSUME ~ResetAnytime
  PROVE  Spec => []AttributesReload
<1>1. Spec => []IInv BY PagesFollow
<1>2. IInv => AttributesReload BY AttributesReloadFacts
<1>3. QED BY <1>1, <1>2, PTL

\* The attributes kept with a master are the ones that master has written
\* (master_update, ble_bondmngr_sys_attr_store, sys_attr_load_from_flash).
THEOREM AttributesOwned ==
  ASSUME ~ResetAnytime
  PROVE  Spec => []OwnAttributes
<1>1. Spec => []IInv BY PagesFollow
<1>2. IInv => OwnAttributes
  <2>1. IInv => DOMAIN db = 1..Len(db) BY LenProperties DEF IInv, StoreType
  <2>2. QED BY <2>1 DEF IInv, MasterInv, OwnAttributes
<1>3. QED BY <1>1, <1>2, PTL

\* The bond manager never gives the SoftDevice the attributes of another
\* master for a link (master_sys_attr_set), not even where a peer has asked
\* for a key it does not have.
THEOREM AttributesOfThePeer ==
  ASSUME ~ResetAnytime
  PROVE  Spec => []AttributesOfPeer
<1>1. Spec => []IInv BY PagesFollow
<1>2. IInv => AttributesOfPeer BY DEF IInv, LinkInv
<1>3. QED BY <1>1, <1>2, PTL

\* ble_bondmngr_init never fails with what the bond manager has left in flash,
\* and writes outside its database only after the last master has been deleted.
THEOREM InitializationSucceeds ==
  ASSUME ~ResetAnytime
  PROVE  Spec => [](Boots /\ (emptied \/ NeverStray))
<1>1. Spec => []IInv BY PagesFollow
<1>2. IInv => Boots /\ (emptied \/ NeverStray) BY DEF IInv, JobInv, Boots, NeverStray
<1>3. QED BY <1>1, <1>2, PTL
=============================================================================
