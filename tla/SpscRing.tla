------------------------------ MODULE SpscRing ------------------------------
(***************************************************************************)
(* The ring buffer of isr_buffer.c as a data type: a record for            *)
(* sch_spsc_ring_t and one operator per function.  Every function runs its *)
(* body between sch_port_enter_critical and sch_port_exit_critical, so an  *)
(* operator is one atomic step of the process that calls it.               *)
(*                                                                         *)
(* Storage is counted in elements: the byte offset index * element_size    *)
(* and the memcpy of element_size bytes are the read or write of one slot. *)
(***************************************************************************)
EXTENDS Integers

CONSTANTS
  Items,    \* what one element can hold
  NoItem,   \* a slot of caller memory that no push has written yet
  SizeMod   \* SIZE_MAX + 1: size_t counters wrap at this value

ASSUME RingAssumption ==
  /\ NoItem \notin Items
  /\ SizeMod \in Nat \ {0}

DROP_NEWEST == "SCH_OVERFLOW_DROP_NEWEST"
DROP_OLDEST == "SCH_OVERFLOW_DROP_OLDEST"
OverflowModes == {DROP_NEWEST, DROP_OLDEST}

PUSH_OK             == "SCH_RING_PUSH_OK"
PUSH_DROPPED_NEWEST == "SCH_RING_PUSH_DROPPED_NEWEST"
PUSH_DROPPED_OLDEST == "SCH_RING_PUSH_DROPPED_OLDEST"
PushStatuses == {PUSH_OK, PUSH_DROPPED_NEWEST, PUSH_DROPPED_OLDEST}

(* A zero-initialised sch_spsc_ring_t: the state before its init call.     *)
(* The overflow field is then 0, which is the value of DROP_NEWEST.        *)
ZeroRing ==
  [storage |-> [k \in {} |-> NoItem], capacity |-> 0, head |-> 0, tail |-> 0,
   count |-> 0, drops |-> 0, overflow |-> DROP_NEWEST]

(* sch_ring_valid: the NULL tests on ring and storage come down to         *)
(* capacity > 0, because storage and capacity are only ever set together.  *)
SchRingValid(r) == r.capacity > 0 /\ r.overflow \in OverflowModes

(* The argument tests of sch_spsc_ring_init.                               *)
InitArgsValid(capacity, overflow) ==
  capacity # 0 /\ overflow \in OverflowModes

(* sch_spsc_ring_init on valid arguments.  The caller hands over memory    *)
(* whose contents nobody has pushed.                                       *)
SchSpscRingInit(capacity, overflow) ==
  [storage |-> [k \in 0..(capacity - 1) |-> NoItem], capacity |-> capacity,
   head |-> 0, tail |-> 0, count |-> 0, drops |-> 0, overflow |-> overflow]

(* sch_spsc_ring_reset of a valid ring: the old bytes stay in storage.     *)
SchSpscRingReset(r) ==
  IF SchRingValid(r)
    THEN [r EXCEPT !.head = 0, !.tail = 0, !.count = 0, !.drops = 0]
    ELSE r

IsFull(r) == r.count = r.capacity

(* Index step of head and tail.                                            *)
NextIndex(r, k) == (k + 1) % r.capacity

(* Faulty variant of DiscardOldest: the tail is not advanced.              *)
DiscardOldestKeepTail(r) == [r EXCEPT !.count = r.count - 1]

(* The DROP_OLDEST branch: discard the oldest element to make room.        *)
DiscardOldest(r) ==
  [r EXCEPT !.tail = NextIndex(r, r.tail), !.count = r.count - 1]

(* Faulty variant of CountDrop: the counter sticks at its largest value.   *)
CountDropSaturating(r) ==
  [r EXCEPT !.drops = IF r.drops + 1 = SizeMod THEN r.drops ELSE r.drops + 1]

(* ring->drops++ in size_t arithmetic.                                     *)
CountDrop(r) == [r EXCEPT !.drops = (r.drops + 1) % SizeMod]

(* Faulty variant of Store: head is not wrapped to the start of storage.   *)
StoreNoWrap(r, item) ==
  [r EXCEPT !.storage = [r.storage EXCEPT ![r.head] = item],
            !.head = r.head + 1,
            !.count = r.count + 1]

(* Copy the item into the head slot and advance head.                      *)
Store(r, item) ==
  [r EXCEPT !.storage = [r.storage EXCEPT ![r.head] = item],
            !.head = NextIndex(r, r.head),
            !.count = r.count + 1]

(* Faulty variant of SchSpscRingPushIsr: an overwrite is not counted.      *)
PushIsrOverwriteUncounted(r, item) ==
  IF ~SchRingValid(r) THEN r
  ELSE IF ~IsFull(r) THEN Store(r, item)
  ELSE IF r.overflow = DROP_NEWEST THEN CountDrop(r)
  ELSE Store(DiscardOldest(r), item)

(* The ring after sch_spsc_ring_push_isr.                                  *)
SchSpscRingPushIsr(r, item) ==
  IF ~SchRingValid(r) THEN r
  ELSE IF ~IsFull(r) THEN Store(r, item)
  ELSE IF r.overflow = DROP_NEWEST THEN CountDrop(r)
  ELSE Store(DiscardOldest(CountDrop(r)), item)

(* What sch_spsc_ring_push_isr returns.                                    *)
PushStatus(r) ==
  IF ~SchRingValid(r) THEN PUSH_DROPPED_NEWEST
  ELSE IF ~IsFull(r) THEN PUSH_OK
  ELSE IF r.overflow = DROP_NEWEST THEN PUSH_DROPPED_NEWEST
  ELSE PUSH_DROPPED_OLDEST

(* sch_spsc_ring_pop_task: whether it returns true, the element it copies  *)
(* out, and the ring it leaves.                                            *)
PopSucceeds(r) == SchRingValid(r) /\ r.count # 0

PoppedItem(r) == r.storage[r.tail]

SchSpscRingPopTask(r) ==
  IF PopSucceeds(r)
    THEN [r EXCEPT !.tail = NextIndex(r, r.tail), !.count = r.count - 1]
    ELSE r

(* sch_spsc_ring_size, sch_spsc_ring_drop_count, is_empty and is_full.     *)
SchSpscRingSize(r)      == IF SchRingValid(r) THEN r.count ELSE 0
SchSpscRingDropCount(r) == IF SchRingValid(r) THEN r.drops ELSE 0
SchSpscRingIsEmpty(r)   == SchSpscRingSize(r) = 0
SchSpscRingIsFull(r)    == SchRingValid(r) /\ IsFull(r)

(* The event queue is a ring of event ids: sch_event_queue_* forwards.     *)
SchEventQueueInit(capacity, overflow) == SchSpscRingInit(capacity, overflow)
SchEventQueuePushIsr(q, id) == SchSpscRingPushIsr(q, id)
SchEventQueuePopTask(q)     == SchSpscRingPopTask(q)
SchEventQueueSize(q)        == SchSpscRingSize(q)
SchEventQueueDropCount(q)   == SchSpscRingDropCount(q)

-----------------------------------------------------------------------------
(* The buffered elements, oldest first.                                    *)
Contents(r) ==
  [k \in 1..r.count |-> r.storage[(r.tail + (k - 1)) % r.capacity]]

(* The fields of sch_spsc_ring_t; element_size is a constant of the model. *)
RingFields ==
  {"storage", "capacity", "head", "tail", "count", "drops", "overflow"}

(* The rings a program can hold.  head is determined by tail and count.    *)
RingOK(r) ==
  /\ DOMAIN r = RingFields
  /\ r.capacity \in Nat
  /\ r.storage \in [0..(r.capacity - 1) -> Items \cup {NoItem}]
  /\ r.count \in 0..r.capacity
  /\ r.drops \in 0..(SizeMod - 1)
  /\ r.overflow \in OverflowModes
  /\ r.capacity = 0 => r.head = 0 /\ r.tail = 0 /\ r.drops = 0
  /\ r.capacity > 0 => /\ r.tail \in 0..(r.capacity - 1)
                       /\ r.head = (r.tail + r.count) % r.capacity
  /\ \A k \in 1..r.count : Contents(r)[k] \in Items
=============================================================================
