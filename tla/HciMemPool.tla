----------------------------- MODULE HciMemPool -----------------------------
(***************************************************************************)
(* The RX memory pool of hci_mem_pool.c: its queue as a record, and the    *)
(* calls as operators.  Slots 0..RxQueueSize-1 are used round and round:   *)
(* produced for the SLIP layer (write), extracted by the application       *)
(* (read) and consumed; bits is the set of slots whose bit in free_index   *)
(* is 1.  No call is protected from the interrupts, so those made by the   *)
(* thread are taken in steps, cut wherever what was read may be stale when *)
(* it is used: what such a call has read so far is its progress.           *)
(***************************************************************************)
EXTENDS Integers, FiniteSets

CONSTANT RxQueueSize      \* RX_BUF_QUEUE_SIZE, a power of two

ASSUME RxQueueSizeAssumption == RxQueueSize \in Nat \ {0}

PoolSlot == 0..(RxQueueSize - 1)
NoSlot   == -1                                                        \* NULL

SlotAfter(i) == IF i = RxQueueSize - 1 THEN 0 ELSE i + 1

\* The counters are only known to be natural numbers: a call that is
\* interrupted by another may lose what that one has counted.
PoolType == [window: Nat, available: Nat, readable: Nat,
             write: PoolSlot, read: PoolSlot, bits: SUBSET PoolSlot]

PoolOpened == [window |-> RxQueueSize, available |-> 0, readable |-> 0,
               write |-> 0, read |-> 0, bits |-> {}]

\* hci_mem_pool_rx_produce
CanProduce(q) == q.window # 0
Produced(q)   == [q EXCEPT !.window = @ - 1, !.readable = @ + 1,
                           !.bits = @ \cup {q.write}, !.write = SlotAfter(@)]

\* hci_mem_pool_rx_extract, at once and from a value of read_available_count
\* that was read before
CanExtract(q) == q.readable # 0
ExtractedFrom(q, readable) == [q EXCEPT !.readable = readable - 1, !.available = @ + 1,
                                        !.read = SlotAfter(@)]
Extracted(q) == ExtractedFrom(q, q.readable)

-----------------------------------------------------------------------------
(* A call of the thread *)

\* pc: what the call does next. consume looks for slot and finds found;
\* start is start_index, and count and bits are what it has read and not yet
\* written back.
ProgressType ==
  [pc: {"none", "extract", "find", "turn", "test", "count", "free"},
   slot: PoolSlot \cup {NoSlot}, start: PoolSlot, found: PoolSlot,
   count: Nat, bits: SUBSET PoolSlot]

NoCall       == [pc |-> "none", slot |-> NoSlot, start |-> 0, found |-> 0, count |-> 0, bits |-> {}]
Extracting(readable) == [NoCall EXCEPT !.pc = "extract", !.count = readable]
\* hci_mem_pool_rx_consume(b) finds nothing extracted, or reads read_index.
Consuming(q, b) == IF q.available = 0 THEN NoCall
                   ELSE [NoCall EXCEPT !.pc = "find", !.slot = b, !.count = q.read]

\* consume_index - free_available_count, modulo the size of the queue
SlotBack(i, k) == (i - k) % RxQueueSize

\* The slots the first loop of consume looks at: from start to before read,
\* all of them if these are the same.
Searched(start, read) ==
  {i \in PoolSlot : IF start < read THEN start <= i /\ i < read ELSE start <= i \/ i < read}

\* Reads free_available_count and searches from the oldest slot extracted to
\* the read position, then reads free_index.
ConsumeFind(q, c) ==
  LET start == SlotBack(c.count, q.available)
  IN  IF c.slot \in Searched(start, q.read)
      THEN [c EXCEPT !.pc = "turn", !.start = start, !.found = c.slot, !.bits = q.bits, !.count = 0]
      ELSE [c EXCEPT !.pc = "test", !.start = start, !.found = q.read, !.count = 0]

\* The bit of the slot found is turned over.
TurnedOver(c) == IF c.found \in c.bits THEN c.bits \ {c.found} ELSE c.bits \cup {c.found}

\* The condition of the second loop, which frees slots: start_index is the
\* oldest slot in its first round and, in every later one, the slot after the
\* one that was found.
ConsumeTest(q, c) == IF c.start \in q.bits \/ q.available = 0 THEN NoCall
                     ELSE [c EXCEPT !.pc = "count", !.count = q.available]
=============================================================================
