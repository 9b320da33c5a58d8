------------------------------ MODULE BondMngr ------------------------------
(***************************************************************************)
(* The bond manager (ble_bondmngr.c): a database of bonded masters in RAM, *)
(* the master of the current connection, and two flash pages of records,   *)
(* one of bonds and one of system attributes, each record a body and a     *)
(* header with the CRC of the whole page so far.  Flash is written in      *)
(* steps between which the chip may be reset; a cell written twice with    *)
(* different data is garbled.  The client is the application the header    *)
(* file asks for: it stores on every disconnection, deletes only while not *)
(* connected, and stores attributes early only for a bonded master.        *)
(* CRCs are compared as the data they cover.                               *)
(***************************************************************************)
EXTENDS Integers, Sequences, SequencesExt

CONSTANTS
  Peers, NoPeer,
  Div,              \* diversifiers the SoftDevice may hand out in a bonding
  NoDiv,
  MaxMasters,       \* BLE_BONDMNGR_MAX_BONDED_MASTERS
  MaxRecords,       \* MAX_BONDS_IN_FLASH
  ResetAnytime      \* FALSE: the chip is reset only while nothing is going on

ASSUME SizeAssumption == MaxMasters \in Nat \ {0} /\ MaxRecords \in Nat /\ MaxMasters <= MaxRecords
ASSUME NoneAssumption == NoPeer \notin Peers /\ NoDiv \notin Div

VARIABLES
  db,        \* m_masters_db up to m_masters_in_db_count; index i is handle i - 1
  cur,       \* m_master
  loaded,    \* m_bond_loaded, m_sys_attr_loaded
  link,      \* the connection as the SoftDevice has it, and m_sec_con_status
  peerDiv,   \* the diversifier each peer has kept from its last bonding
  flash,     \* the two pages
  known,     \* m_..._in_flash_count and m_crc_... of the two pages
  job,       \* flash operations of the call in progress, still to be done
  up,        \* ble_bondmngr_init has succeeded
  stray,     \* a write to m_masters_db has missed the array
  emptied    \* history: the last master has been deleted

ramVars == <<db, cur, loaded, known>>
vars    == <<ramVars, link, peerDiv, flash, job, up, stray, emptied>>

NoHandle == -1                                       \* INVALID_MASTER_HANDLE
Missing  == "missing"                                \* attributes never set on the link
None     == "none"                                   \* sys_attr_size = 0
Off      == "off"                                    \* all notifications off
Kind     == {"bond", "attr"}
Slot     == 1..MaxRecords

Master(id, div, attr, attrHandle) ==
  [id |-> id, div |-> div, attr |-> attr, attrHandle |-> attrHandle]
BondRecord(d, i) == [handle |-> i - 1, data |-> <<d[i].id, d[i].div>>]
AttrRecord(d, i) == [handle |-> d[i].attrHandle, data |-> d[i].attr]
Records(k, d)    == [i \in DOMAIN d |-> IF k = "bond" THEN BondRecord(d, i) ELSE AttrRecord(d, i)]

HandleOf(i)  == i - 1
Connected    == link.peer # NoPeer
AtRest       == job = <<>> /\ up /\ ~stray
Bonded       == cur.handle # NoHandle

-----------------------------------------------------------------------------
(* Flash *)

Blank      == [handle |-> -3]                         \* an erased body
Garbled    == [handle |-> -2]                         \* two bodies on top of each other
NoCrc      == <<>>                                    \* an erased header
BadCrc     == <<Blank>>                               \* a header that fits nothing
BlankPage  == [i \in Slot |-> [body |-> Blank, head |-> NoCrc]]

\* Cells are not erased by writing: bits can only be cleared.
Burnt(old, blank, new, bad) == IF old \in {blank, new} THEN new ELSE bad

EraseOp(k)      == [op |-> "erase", page |-> k]
BodyOp(k, i, r) == [op |-> "body", page |-> k, slot |-> i, to |-> r]
HeadOp(k, i, c) == [op |-> "head", page |-> k, slot |-> i, to |-> c]

Performed(f, o) ==
  CASE o.op = "erase" -> [f EXCEPT ![o.page] = BlankPage]
    [] o.op = "body"  -> [f EXCEPT ![o.page][o.slot].body = Burnt(@, Blank, o.to, Garbled)]
    [] o.op = "head"  -> [f EXCEPT ![o.page][o.slot].head = Burnt(@, NoCrc, o.to, BadCrc)]

\* bond_info_store and sys_attr_store of one record: the page's new count and
\* CRC, and what is written.  A full page takes no more.
HasRoom(s)      == s.count < MaxRecords
\* Mutant: the CRC of a record does not go on from the one before.
ChainRestarted(s, r) == <<r>>
Chain(s, r)     == Append(IF s.count = 0 THEN <<>> ELSE s.crc, r)
StoredOne(s, r) == IF HasRoom(s) THEN [count |-> s.count + 1, crc |-> Chain(s, r)] ELSE s
StoreOne(k, s, r) == IF HasRoom(s)
                     THEN <<BodyOp(k, s.count + 1, r), HeadOp(k, s.count + 1, Chain(s, r))>>
                     ELSE <<>>

\* Storing all records in an erased page, each body before its header.
WriteAll(k, recs)  == [j \in 1..(2 * Len(recs)) |->
  LET i == (j + 1) \div 2
  IN  IF j = 2 * i - 1 THEN BodyOp(k, i, recs[i]) ELSE HeadOp(k, i, SubSeq(recs, 1, i))]
StoredAll(s, recs) == IF recs = <<>> THEN [s EXCEPT !.count = 0]
                      ELSE [count |-> Len(recs), crc |-> recs]
\* Erasing a page and storing all records again.
StoreAll(k, recs)  == <<EraseOp(k)>> \o WriteAll(k, recs)

\* The CRC of record n's header fits the bodies up to n.
Intact(page, n) == page[n].head = [i \in 1..n |-> page[i].body]

\* load_all_from_flash, bonds: stops at an erased header or with a full
\* database, fails on a wrong CRC or a handle that skips some.
BondLoaded(page, n, s) ==
  LET r == page[n].body
  IN  IF s.end # "open" THEN s
      ELSE IF Len(s.db) = MaxMasters \/ page[n].head = NoCrc THEN [s EXCEPT !.end = "found"]
      ELSE IF ~Intact(page, n) \/ r.handle > Len(s.db) THEN [s EXCEPT !.end = "failed"]
      ELSE [read |-> n, end |-> "open",
            db |-> IF r.handle = Len(s.db)
                   THEN Append(s.db, Master(r.data[1], r.data[2], None, NoHandle))
                   ELSE [s.db EXCEPT ![r.handle + 1] =
                           Master(r.data[1], r.data[2], @.attr, @.attrHandle)]]

LoadBonds(page) ==
  LET after[n \in 0..MaxRecords] ==
        IF n = 0 THEN [db |-> <<>>, read |-> 0, end |-> "open"]
        ELSE BondLoaded(page, n, after[n - 1])
  IN  after[MaxRecords]

\* Attributes: no more records than masters, in the order they were stored.
\* The only test of a handle is that it is not greater than the number of
\* masters; what it writes beyond them is cleared again or outside the array.
AttrLoaded(page, masters, n, s) ==
  LET r == page[n].body
  IN  IF s.end # "open" THEN s
      ELSE IF page[n].head = NoCrc THEN [s EXCEPT !.end = "found"]
      ELSE IF ~Intact(page, n) \/ r.handle > Len(masters) THEN [s EXCEPT !.end = "failed"]
      ELSE [read |-> n, end |-> "open",
            db |-> IF r.handle \in 0..(Len(masters) - 1)
                   THEN [s.db EXCEPT ![r.handle + 1] = Master(@.id, @.div, r.data, r.handle)]
                   ELSE s.db]

LoadAttrs(page, masters) ==
  LET after[n \in 0..Len(masters)] ==
        IF n = 0 THEN [db |-> masters, read |-> 0, end |-> "open"]
        ELSE AttrLoaded(page, masters, n, after[n - 1])
  IN  after[Len(masters)]

Bodies(page, n) == [i \in 1..n |-> page[i].body]
Outside(page, n) == \E i \in 1..n : page[i].body.handle \notin 0..(MaxMasters - 1)
Succeeded(l)     == l.end # "failed"

\* What initialization makes of the pages.  m_crc_sys_attr keeps its value
\* when there is no master to load attributes for.
Load(f, attrCrc) ==
  LET b == LoadBonds(f["bond"])
      a == LoadAttrs(f["attr"], b.db)
  IN  [ok |-> Succeeded(b) /\ Succeeded(a), db |-> a.db,
       stray |-> Succeeded(b) /\ Outside(f["attr"], a.read),
       known |-> [k \in Kind |->
         IF k = "bond" THEN [count |-> b.read, crc |-> Bodies(f["bond"], b.read)]
         ELSE [count |-> a.read,
               crc |-> IF b.db = <<>> THEN attrCrc ELSE Bodies(f["attr"], a.read)]]]

-----------------------------------------------------------------------------

NoMaster     == [handle |-> NoHandle, id |-> NoPeer, div |-> NoDiv, attr |-> None, attrHandle |-> 0]
NoLink       == [peer |-> NoPeer, enc |-> FALSE, bonding |-> FALSE, sec |-> "none", attr |-> Missing]
NotLoaded    == [bond |-> FALSE, attr |-> FALSE]
ZeroCrc      == <<Blank>>                             \* a static variable never assigned

Init == /\ db = <<>> /\ cur = NoMaster /\ loaded = NotLoaded
        /\ link = NoLink
        /\ peerDiv = [p \in Peers |-> NoDiv]
        /\ flash = [k \in Kind |-> BlankPage]
        /\ known = [k \in Kind |-> [count |-> 0, crc |-> IF k = "bond" THEN <<>> ELSE ZeroCrc]]
        /\ job = <<>> /\ up = TRUE /\ stray = FALSE /\ emptied = FALSE

FlashStep == /\ job # <<>>
             /\ flash' = Performed(flash, job[1])
             /\ job' = Tail(job)
             /\ UNCHANGED <<ramVars, link, peerDiv, up, stray, emptied>>

\* Reset and ble_bondmngr_init; RAM variables start from zero.
Restarted(f, attrCrc) ==
  LET l == Load(f, attrCrc)
  IN  /\ db' = l.db /\ known' = l.known
      /\ up' = l.ok /\ stray' = l.stray
      /\ cur' = NoMaster /\ loaded' = NotLoaded

Reset == /\ up /\ ~stray
         /\ ResetAnytime \/ (AtRest /\ ~Connected)
         /\ Restarted(flash, ZeroCrc)
         /\ link' = NoLink /\ job' = <<>>
         /\ UNCHANGED <<peerDiv, flash, emptied>>

\* The application's error_handler: it ignores the error or resets.
Failure == \/ UNCHANGED <<ramVars, flash, job, up, stray>>
           \/ Restarted(flash, ZeroCrc) /\ UNCHANGED <<flash, job>>

-----------------------------------------------------------------------------
(* Events of the SoftDevice: ble_bondmngr_on_ble_evt *)

\* The first master with an address, and the first with a diversifier.
WithId(p)  == SelectInSeq(db, LAMBDA m : m.id = p)
WithDiv(d) == SelectInSeq(db, LAMBDA m : m.div = d)

Entry(i) == [handle |-> HandleOf(i), id |-> db[i].id, div |-> db[i].div,
             attr |-> db[i].attr, attrHandle |-> db[i].attrHandle]

\* on_connect.  The peer is recognised by its address or identity key unless
\* it uses a private address the controller has not resolved.
Connect(p) ==
  /\ AtRest /\ ~Connected
  /\ link' = [NoLink EXCEPT !.peer = p]
  /\ \/ /\ \E i \in DOMAIN db : db[i].id = p
        /\ cur' = Entry(WithId(p))
        /\ loaded' = NotLoaded
     \/ /\ cur' = [cur EXCEPT !.handle = NoHandle, !.id = p, !.attr = None]
        /\ UNCHANGED loaded
  /\ UNCHANGED <<db, known, peerDiv, flash, job, up, stray, emptied>>

Attributes(m) == IF m.attr = None THEN Off ELSE m.attr

\* on_sec_info_request.  The peer can go on only with its own key.
SecInfoRequest ==
  LET d == peerDiv[link.peer]
  IN  /\ AtRest /\ Connected /\ link.sec = "none" /\ ~link.enc /\ d # NoDiv
      /\ IF \E i \in DOMAIN db : db[i].div = d
         THEN LET e == Entry(WithDiv(d))
              IN  /\ cur' = e
                  /\ loaded' = [loaded EXCEPT !.bond = TRUE]
                  /\ link' = [link EXCEPT !.sec = IF e.id = link.peer THEN "keyed" ELSE "refused"]
         ELSE /\ cur' = [cur EXCEPT !.div = d]
              /\ link' = [link EXCEPT !.attr = Off]
              /\ UNCHANGED loaded
      /\ UNCHANGED <<db, known, peerDiv, flash, job, up, stray, emptied>>

\* on_sec_param_request, for a bonding.
SecParamsRequest ==
  /\ AtRest /\ Connected /\ link.sec = "none"
  /\ link' = [link EXCEPT !.sec = "pairing", !.bonding = TRUE]
  /\ cur' = IF Bonded THEN [cur EXCEPT !.attr = None] ELSE cur
  /\ UNCHANGED <<db, loaded, known, peerDiv, flash, job, up, stray, emptied>>

\* on_sec_update
ConnSecUpdate ==
  /\ AtRest /\ Connected /\ link.sec \in {"keyed", "pairing"}
  /\ link' = [link EXCEPT !.enc = TRUE, !.attr = Attributes(cur),
                          !.sec = IF @ = "keyed" THEN "none" ELSE "paired"]
  /\ loaded' = [loaded EXCEPT !.attr = TRUE]
  /\ UNCHANGED <<db, cur, known, peerDiv, flash, job, up, stray, emptied>>

DbHasRoom == Len(db) < MaxMasters
DivUnknown(d) == \A i \in DOMAIN db : db[i].div # d

StoreBond(r) == /\ known' = [known EXCEPT !["bond"] = StoredOne(@, r)]
                /\ job' = StoreOne("bond", known["bond"], r)

\* on_auth_status_from_new_master
NewMaster(d) ==
  LET m == [cur EXCEPT !.handle = Len(db), !.div = d, !.attr = None]
  IN  /\ cur' = m
      /\ db' = Append(db, Master(m.id, d, None, m.attrHandle))
      /\ StoreBond(BondRecord(db', Len(db')))
      /\ loaded' = [loaded EXCEPT !.bond = TRUE]
      /\ link' = [link EXCEPT !.sec = "none", !.attr = Off]
      /\ UNCHANGED <<flash, up, stray>>

\* auth_status_update
KnownMaster(d) ==
  /\ cur' = [cur EXCEPT !.div = d]
  /\ db' = [db EXCEPT ![cur.handle + 1] = Master(cur.id, d, cur.attr, cur.attrHandle)]
  /\ StoreBond(BondRecord(db', cur.handle + 1))
  /\ loaded' = [loaded EXCEPT !.bond = TRUE]
  /\ link' = [link EXCEPT !.sec = "none"]
  /\ UNCHANGED <<flash, up, stray>>

\* on_auth_status: the peer keeps the new keys in any case.
AuthStatus(d) ==
  /\ AtRest /\ link.sec = "paired"
  /\ peerDiv' = [peerDiv EXCEPT ![link.peer] = d]
  /\ UNCHANGED emptied
  /\ \/ Bonded /\ KnownMaster(d)
     \/ ~Bonded /\ DivUnknown(d) /\ DbHasRoom /\ NewMaster(d)
     \/ /\ ~Bonded /\ ~(DivUnknown(d) /\ DbHasRoom)
        /\ Failure
        /\ link' = IF cur' = NoMaster THEN NoLink ELSE [link EXCEPT !.sec = "none"]

\* Mutant: the link need not be encrypted.
AttrsOfAnyMaster == Bonded
\* The link has shown that its peer is the current master.
AttrsOfMaster == Bonded /\ link.enc /\ ~link.bonding

\* on_sys_attr_missing
SysAttrMissing ==
  /\ AtRest /\ Connected /\ link.attr = Missing
  /\ IF AttrsOfMaster
     THEN /\ link' = [link EXCEPT !.attr = Attributes(cur)]
          /\ loaded' = [loaded EXCEPT !.attr = TRUE]
     ELSE link' = [link EXCEPT !.attr = Off] /\ UNCHANGED loaded
  /\ UNCHANGED <<db, cur, known, peerDiv, flash, job, up, stray, emptied>>

\* The peer writes a CCCD.
PeerWrites ==
  /\ AtRest /\ Connected /\ link.attr # Missing
  /\ \E a \in {Off, link.peer} : a # link.attr /\ link' = [link EXCEPT !.attr = a]
  /\ UNCHANGED <<ramVars, peerDiv, flash, job, up, stray, emptied>>

-----------------------------------------------------------------------------
(* Calls of the application *)

LinkAttributes == IF link.attr = Missing THEN Off ELSE link.attr

\* Mutant: the attributes of the link go to the current master in any case.
AttrsAlwaysUsed == TRUE
\* master_update copies only what the connection has used.
AttrsUsed == loaded.attr

MasterUpdated ==
  IF ~Bonded THEN db
  ELSE LET i == cur.handle + 1
           b == IF loaded.bond THEN cur ELSE db[i]
       IN  [db EXCEPT ![i] = IF AttrsUsed
              THEN Master(b.id, b.div, LinkAttributes, cur.handle)
              ELSE Master(b.id, b.div, db[i].attr, db[i].attrHandle)]

\* bond_info_changed, sys_attr_changed
Changed(k, d) == Records(k, d) # known[k].crc

Rewrite(k, d) == IF Changed(k, d) THEN StoreAll(k, Records(k, d)) ELSE <<>>

\* DISCONNECTED, then ble_bondmngr_bonded_masters_store.  The attributes can be
\* fetched and the flash calls succeed; an error would end the function at once,
\* with the state of the connection still set, and is not followed further.
Disconnect ==
  /\ AtRest /\ Connected
  /\ db' = MasterUpdated
  /\ known' = [k \in Kind |-> IF Changed(k, db') THEN StoredAll(known[k], Records(k, db'))
                                                 ELSE known[k]]
  /\ job' = Rewrite("bond", db') \o Rewrite("attr", db')
  /\ cur' = [NoMaster EXCEPT !.attrHandle = NoHandle]
  /\ loaded' = NotLoaded
  /\ link' = NoLink
  /\ UNCHANGED <<peerDiv, flash, up, stray, emptied>>

\* ble_bondmngr_sys_attr_store, for a master whose attributes are not in flash.
SysAttrStore ==
  /\ AtRest /\ Connected /\ Bonded /\ link.enc /\ cur.attr = None
  /\ cur' = [cur EXCEPT !.attr = LinkAttributes, !.attrHandle = cur.handle]
  /\ db' = [db EXCEPT ![cur.handle + 1] = Master(@.id, @.div, LinkAttributes, cur.handle)]
  /\ LET r == AttrRecord(db', cur.handle + 1)
     IN  /\ known' = [known EXCEPT !["attr"] = StoredOne(@, r)]
         /\ job' = StoreOne("attr", known["attr"], r)
  /\ UNCHANGED <<loaded, link, peerDiv, flash, up, stray, emptied>>

\* ble_bondmngr_bonded_masters_delete, then ble_bondmngr_init.
DeleteAll ==
  /\ AtRest /\ ~Connected
  /\ job' = <<EraseOp("bond"), EraseOp("attr")>>
  /\ Restarted([k \in Kind |-> BlankPage], known["attr"].crc)
  /\ emptied' = TRUE
  /\ UNCHANGED <<link, peerDiv, flash>>

\* Mutant: the handles of the masters behind the deleted one stay.
HandleStays(h) == h
HandleShifted(h) == IF h = NoHandle THEN h ELSE h - 1

\* ble_bondmngr_bonded_master_delete: the masters behind it move up.
Delete(d) ==
  LET i    == WithDiv(d)
      rest == [j \in 1..(Len(db) - 1) |->
                 IF j < i THEN db[j]
                 ELSE [db[j + 1] EXCEPT !.attrHandle = HandleShifted(@)]]
  IN  /\ AtRest /\ ~Connected
      /\ \E j \in DOMAIN db : db[j].div = d
      /\ db' = rest
      /\ known' = [k \in Kind |-> StoredAll(known[k], Records(k, rest))]
      /\ job' = <<EraseOp("bond"), EraseOp("attr")>>
                \o WriteAll("bond", Records("bond", rest)) \o WriteAll("attr", Records("attr", rest))
      /\ emptied' = (emptied \/ rest = <<>>)
      /\ UNCHANGED <<cur, loaded, link, peerDiv, flash, up, stray>>

Next == \/ FlashStep
        \/ Reset
        \/ \E p \in Peers : Connect(p)
        \/ SecInfoRequest
        \/ SecParamsRequest
        \/ ConnSecUpdate
        \/ \E d \in Div : AuthStatus(d)
        \/ SysAttrMissing
        \/ PeerWrites
        \/ Disconnect
        \/ SysAttrStore
        \/ DeleteAll
        \/ \E d \in Div : Delete(d)

Spec == Init /\ [][Next]_vars

-----------------------------------------------------------------------------
(* Properties *)

\* A reset while not connected loses no bond.
BondsReload ==
  AtRest /\ ~Connected =>
    LET b == LoadBonds(flash["bond"])
    IN  Succeeded(b) /\ Records("bond", b.db) = Records("bond", db)

\* Nor does it lose the attributes stored on disconnections.
AttributesStored ==
  AtRest /\ ~Connected =>
    LET l == Load(flash, ZeroCrc) IN l.ok /\ ~l.stray /\ l.db = db

\* Nor the attributes, as long as the database has not been emptied: the CRC of
\* the attributes outlives them.
AttributesReload == ~emptied => AttributesStored

\* Every master keeps its own attributes, never those of another one.
OwnAttributes == \A i \in DOMAIN db : db[i].attr \in {None, Off, db[i].id}

\* The attributes in force on a link are those of its peer.
AttributesOfPeer == link.attr \in {Missing, Off, link.peer}

\* No write misses the database.
NeverStray == ~stray

\* Initialization succeeds with whatever a reset has left in flash.
Boots == up

\* Two masters never answer to one diversifier.
DivsDistinct == \A i, j \in DOMAIN db : db[i].div = db[j].div => i = j

\* A bond is in flash as soon as the bonding is finished.
BondWritten ==
  AtRest /\ known["bond"].count < MaxRecords =>
    LET b == LoadBonds(flash["bond"])
    IN  Succeeded(b) /\ Records("bond", b.db) = Records("bond", db)

\* A page is erased at a disconnection only when its records differ from the
\* database.
Written(k)      == SelectSeq([i \in Slot |-> flash[k][i].body], LAMBDA r : r # Blank)
NoNeedlessErase ==
  [][Connected /\ job' # <<>> =>
       \A k \in Kind : EraseOp(k) \in ToSet(job') => Written(k) # Records(k, db')]_vars
=============================================================================
