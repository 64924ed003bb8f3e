-------------------------- MODULE SpscRingTheorems --------------------------
(***************************************************************************)
(* What the operations of SpscRing do, for every capacity, every element   *)
(* set and every width of size_t.  The proofs about the ring itself and    *)
(* about the services that own rings rest on these facts.                  *)
(***************************************************************************)
EXTENDS SpscRing, SequenceTheorems, FiniteSetTheorems, TLAPS

-----------------------------------------------------------------------------
(* Index arithmetic.                                                       *)

(* A step of head or tail stays in storage and wraps at its end.           *)
LEMMA StepIndex ==
  ASSUME NEW m \in Nat \ {0}, NEW k \in 0..(m - 1)
  PROVE  /\ (k + 1) % m = IF k + 1 = m THEN 0 ELSE k + 1
         /\ (k + 1) % m \in 0..(m - 1)
  OBVIOUS

(* The slot n places past k, for n at most one turn.                       *)
LEMMA SlotAt ==
  ASSUME NEW m \in Nat \ {0}, NEW k \in 0..(m - 1), NEW n \in 0..m
  PROVE  /\ (k + n) % m = IF k + n < m THEN k + n ELSE (k + n) - m
         /\ (k + n) % m \in 0..(m - 1)
<1>1. CASE k + n < m
  BY <1>1
<1>2. CASE k + n >= m
  BY <1>2
<1> QED BY <1>1, <1>2

(* Shifting the tail by one shifts every slot by one.                      *)
LEMMA SlotShift ==
  ASSUME NEW m \in Nat \ {0}, NEW k \in 0..(m - 1), NEW n \in 0..(m - 1)
  PROVE  (((k + 1) % m) + n) % m = (k + (n + 1)) % m
<1>1. CASE k + 1 = m
  <2>1. (k + 1) % m = 0
    BY <1>1
  <2>2. n % m = n /\ (m + n) % m = n
    OBVIOUS
  <2>3. k + (n + 1) = m + n
    BY <1>1
  <2> QED BY <2>1, <2>2, <2>3
<1>2. CASE k + 1 < m
  <2>1. (k + 1) % m = k + 1
    BY <1>2
  <2>2. (k + 1) + n = k + (n + 1)
    OBVIOUS
  <2> QED BY <2>1, <2>2
<1> QED BY <1>1, <1>2

(* The head slot is not one of the buffered slots unless the ring is full. *)
LEMMA HeadIsFree ==
  ASSUME NEW m \in Nat \ {0}, NEW k \in 0..(m - 1), NEW c \in 0..(m - 1), NEW n \in 0..(c - 1)
  PROVE  (k + n) % m # (k + c) % m
<1>1. CASE k + c < m
  BY <1>1
<1>2. CASE k + n < m /\ k + c >= m
  <2>1. (k + n) % m = k + n
    BY <1>2
  <2>2. (k + c) % m = (k + c) - m
    BY <1>2
  <2> QED BY <2>1, <2>2
<1>3. CASE k + n >= m
  <2>1. (k + n) % m = (k + n) - m
    BY <1>3
  <2>2. (k + c) % m = (k + c) - m
    BY <1>3
  <2> QED BY <2>1, <2>2
<1> QED BY <1>1, <1>2, <1>3

-----------------------------------------------------------------------------
(* The operations on a ring.                                               *)

(* The contents are a sequence of pushed elements, count long.             *)
LEMMA ContentsType ==
  ASSUME NEW r, RingOK(r)
  PROVE  Contents(r) \in Seq(Items) /\ Len(Contents(r)) = r.count
<1>1. r.count \in Nat /\ \A j \in 1..r.count : Contents(r)[j] \in Items
  BY DEF RingOK
<1>2. Contents(r) \in [1..r.count -> Items]
  BY <1>1 DEF Contents
<1> QED BY <1>1, <1>2

(* The fields after Store.                                                 *)
LEMMA StoreFields ==
  ASSUME NEW r, RingOK(r), NEW item \in Items, NEW s, s = Store(r, item)
  PROVE  /\ DOMAIN s = RingFields
         /\ s.storage = [r.storage EXCEPT ![r.head] = item]
         /\ s.head = (r.head + 1) % r.capacity
         /\ s.count = r.count + 1
         /\ s.capacity = r.capacity /\ s.tail = r.tail
         /\ s.drops = r.drops /\ s.overflow = r.overflow
<1>1. DOMAIN r = RingFields
  BY DEF RingOK
<1> QED BY <1>1 DEF Store, NextIndex, RingFields

(* The scalar fields after Store.                                          *)
LEMMA StoreKeeps ==
  ASSUME NEW r, RingOK(r), NEW item \in Items, NEW s, s = Store(r, item)
  PROVE  /\ s.count = r.count + 1
         /\ s.capacity = r.capacity /\ s.drops = r.drops /\ s.overflow = r.overflow
<1>1. DOMAIN r = RingFields
  BY DEF RingOK
<1> QED BY <1>1 DEF Store, RingFields

(* The fields after the oldest element is discarded.                       *)
LEMMA DiscardFields ==
  ASSUME NEW r, RingOK(r), NEW s, s = DiscardOldest(r)
  PROVE  /\ DOMAIN s = RingFields
         /\ s.tail = (r.tail + 1) % r.capacity
         /\ s.count = r.count - 1
         /\ s.storage = r.storage /\ s.capacity = r.capacity /\ s.head = r.head
         /\ s.drops = r.drops /\ s.overflow = r.overflow
<1>1. DOMAIN r = RingFields
  BY DEF RingOK
<1> QED BY <1>1 DEF DiscardOldest, NextIndex, RingFields

(* Storing into a ring with room appends to its contents.                  *)
LEMMA StoreAppends ==
  ASSUME NEW r, RingOK(r), r.count < r.capacity, NEW item \in Items
  PROVE  /\ RingOK(Store(r, item))
         /\ Contents(Store(r, item)) = Append(Contents(r), item)
<1> DEFINE s == Store(r, item)
           m == r.capacity
           c == r.count
           k == r.tail
<1>1. /\ m \in Nat \ {0} /\ k \in 0..(m - 1) /\ c \in 0..(m - 1)
      /\ r.head = (k + c) % m /\ r.head \in 0..(m - 1)
      /\ r.storage \in [0..(m - 1) -> Items \cup {NoItem}]
  <2>1. /\ m \in Nat /\ c \in 0..m /\ r.storage \in [0..(m - 1) -> Items \cup {NoItem}]
        /\ m > 0 => k \in 0..(m - 1) /\ r.head = (k + c) % m
    BY DEF RingOK
  <2>2. m \in Nat \ {0} /\ c \in 0..(m - 1)
    BY <2>1
  <2>3. k \in 0..(m - 1) /\ r.head = (k + c) % m
    BY <2>1, <2>2
  <2> HIDE DEF m, c, k
  <2>4. (k + c) % m \in 0..(m - 1)
    BY <2>2, <2>3
  <2> QED BY <2>1, <2>2, <2>3, <2>4
<1>2. /\ DOMAIN s = RingFields
      /\ s.storage = [r.storage EXCEPT ![r.head] = item]
      /\ s.head = (r.head + 1) % m /\ s.count = c + 1
      /\ s.capacity = m /\ s.tail = k
      /\ s.drops = r.drops /\ s.overflow = r.overflow
  <2> HIDE DEF s
  <2>1. s = Store(r, item)
    BY DEF s
  <2> QED BY <2>1, StoreFields
<1>3. (r.head + 1) % m = (k + (c + 1)) % m
  <2> HIDE DEF m, c, k
  <2>1. (((k + c) % m) + 1) % m = (k + (c + 1)) % m
    <3>1. CASE k + c < m
      BY <1>1, <3>1
    <3>2. CASE k + c >= m
      <4>1. (k + c) % m = (k + c) - m
        BY <1>1, <3>2
      <4>2. k + (c + 1) = m + (((k + c) - m) + 1)
        BY <1>1
      <4>3. ((k + c) - m) + 1 \in 0..(m - 1)
        BY <1>1, <3>2
      <4> QED BY <1>1, <4>1, <4>2, <4>3
    <3> QED BY <1>1, <3>1, <3>2
  <2> QED BY <1>1, <2>1
<1>4. \A j \in 1..c : s.storage[(k + (j - 1)) % m] = r.storage[(k + (j - 1)) % m]
  <2> SUFFICES ASSUME NEW j \in 1..c
               PROVE  s.storage[(k + (j - 1)) % m] = r.storage[(k + (j - 1)) % m]
    OBVIOUS
  <2> DEFINE n == j - 1
  <2>1. n \in 0..(c - 1)
    BY <1>1
  <2> HIDE DEF m, c, k, n
  <2>2. (k + n) % m # (k + c) % m
    BY <1>1, <2>1, HeadIsFree
  <2>3. (k + n) % m \in 0..(m - 1)
    BY <1>1, <2>1
  <2>4. s.storage[(k + n) % m] = r.storage[(k + n) % m]
    BY <1>1, <1>2, <2>2, <2>3
  <2> QED BY <2>4 DEF n
<1>5. s.storage[(k + ((c + 1) - 1)) % m] = item
  <2>1. (c + 1) - 1 = c
    BY <1>1
  <2> QED BY <1>1, <1>2, <2>1
<1>6. Contents(s) = Append(Contents(r), item)
  <2>1. Contents(s) = [j \in 1..(c + 1) |-> s.storage[(k + (j - 1)) % m]]
    BY <1>2 DEF Contents
  <2>2. Contents(r) = [j \in 1..c |-> r.storage[(k + (j - 1)) % m]]
    BY DEF Contents
  <2>3. Len(Contents(r)) = c
    BY <1>1, <2>2
  <2> DEFINE q == Append(Contents(r), item)
  <2>4. q = [j \in 1..(c + 1) |-> IF j = c + 1 THEN item ELSE Contents(r)[j]]
    BY <1>1, <2>2, <2>3
  <2>5. \A j \in 1..(c + 1) : s.storage[(k + (j - 1)) % m]
                               = IF j = c + 1 THEN item ELSE Contents(r)[j]
    BY <1>1, <1>4, <1>5, <2>2
  <2> QED BY <2>1, <2>4, <2>5
<1>7. \A j \in 1..s.count : Contents(s)[j] \in Items
  <2>1. \A j \in 1..c : Contents(r)[j] \in Items
    BY DEF RingOK
  <2>2. Append(Contents(r), item) \in Seq(Items)
    BY ContentsType
  <2>3. Len(Append(Contents(r), item)) = c + 1
    BY ContentsType
  <2>4. s.count = c + 1
    BY <1>2
  <2> QED BY <1>6, <2>2, <2>3, <2>4
<1>8. RingOK(s)
  <2>1. s.storage \in [0..(m - 1) -> Items \cup {NoItem}]
    BY <1>1, <1>2
  <2>2. s.count \in 0..m
    BY <1>1, <1>2
  <2>3. s.head = (k + (c + 1)) % m
    BY <1>2, <1>3
  <2>4. r.drops \in 0..(SizeMod - 1) /\ r.overflow \in OverflowModes
    BY DEF RingOK
  <2> HIDE DEF s
  <2> QED BY <1>1, <1>2, <1>7, <2>1, <2>2, <2>3, <2>4 DEF RingOK
<1> QED BY <1>6, <1>8

(* Counting a drop touches nothing but the counter.                        *)
LEMMA CountDropKeepsContents ==
  ASSUME NEW r, RingOK(r), r.capacity > 0
  PROVE  /\ RingOK(CountDrop(r))
         /\ Contents(CountDrop(r)) = Contents(r)
         /\ CountDrop(r).drops = (r.drops + 1) % SizeMod
         /\ CountDrop(r).count = r.count
         /\ CountDrop(r).capacity = r.capacity
         /\ CountDrop(r).overflow = r.overflow
<1> DEFINE s == CountDrop(r)
<1>0. DOMAIN r = RingFields
  BY DEF RingOK
<1>1. /\ DOMAIN s = RingFields
      /\ s.storage = r.storage /\ s.capacity = r.capacity /\ s.head = r.head
      /\ s.tail = r.tail /\ s.count = r.count
      /\ s.drops = (r.drops + 1) % SizeMod /\ s.overflow = r.overflow
  BY <1>0 DEF CountDrop, RingFields
<1>2. (r.drops + 1) % SizeMod \in 0..(SizeMod - 1)
  BY RingAssumption DEF RingOK
<1>3. Contents(CountDrop(r)) = Contents(r)
  BY <1>1 DEF Contents
<1> HIDE DEF s
<1>4. /\ r.capacity \in Nat /\ r.storage \in [0..(r.capacity - 1) -> Items \cup {NoItem}]
      /\ r.count \in 0..r.capacity /\ r.overflow \in OverflowModes
      /\ r.tail \in 0..(r.capacity - 1) /\ r.head = (r.tail + r.count) % r.capacity
      /\ \A j \in 1..r.count : Contents(r)[j] \in Items
  BY DEF RingOK
<1>5. Contents(s) = Contents(r)
  BY <1>3 DEF s
<1>6. RingOK(s)
  BY <1>1, <1>2, <1>4, <1>5 DEF RingOK
<1> QED BY <1>1, <1>3, <1>6 DEF s

(* Taking from a ring that is not empty takes the head of its contents.    *)
LEMMA PopTakesHead ==
  ASSUME NEW r, RingOK(r), r.count # 0
  PROVE  /\ RingOK(DiscardOldest(r))
         /\ Contents(DiscardOldest(r)) = Tail(Contents(r))
         /\ PoppedItem(r) = Head(Contents(r))
         /\ PoppedItem(r) \in Items
<1> DEFINE s == DiscardOldest(r)
           m == r.capacity
           c == r.count
           k == r.tail
<1>1. /\ m \in Nat \ {0} /\ k \in 0..(m - 1) /\ c \in 1..m
      /\ r.head = (k + c) % m
  BY DEF RingOK
<1>2. /\ DOMAIN s = RingFields
      /\ s.tail = (k + 1) % m /\ s.count = c - 1
      /\ s.storage = r.storage /\ s.capacity = m /\ s.head = r.head
      /\ s.drops = r.drops /\ s.overflow = r.overflow
  BY DiscardFields, Zenon
<1>3. (k + 1) % m \in 0..(m - 1)
  BY <1>1
<1>4. \A j \in 1..c : (((k + 1) % m) + (j - 1)) % m = (k + ((j + 1) - 1)) % m
  <2> SUFFICES ASSUME NEW j \in 1..c
               PROVE  (((k + 1) % m) + (j - 1)) % m = (k + ((j + 1) - 1)) % m
    OBVIOUS
  <2> DEFINE n == j - 1
  <2>1. n \in 0..(m - 1) /\ n + 1 = (j + 1) - 1
    BY <1>1
  <2> HIDE DEF m, c, k, n
  <2>2. (((k + 1) % m) + n) % m = (k + (n + 1)) % m
    BY <1>1, <2>1, SlotShift
  <2> QED BY <2>1, <2>2 DEF n
<1>5. r.head = (((k + 1) % m) + (c - 1)) % m
  <2> DEFINE n == c - 1
  <2>1. n \in 0..(m - 1) /\ n + 1 = c
    BY <1>1
  <2> HIDE DEF m, c, k, n
  <2>2. (((k + 1) % m) + n) % m = (k + (n + 1)) % m
    BY <1>1, <2>1, SlotShift
  <2> QED BY <1>1, <2>1, <2>2 DEF n
<1>6. Contents(r) \in Seq(Items) /\ Len(Contents(r)) = c
  BY ContentsType
<1>7. Contents(s) = Tail(Contents(r))
  <2>1. Contents(s) = [j \in 1..(c - 1) |-> r.storage[(((k + 1) % m) + (j - 1)) % m]]
    BY <1>2 DEF Contents
  <2>2. Tail(Contents(r)) = [j \in 1..(c - 1) |-> Contents(r)[j + 1]]
    <3>1. Contents(r) # << >>
      BY <1>1, <1>6
    <3>2. /\ Tail(Contents(r)) \in Seq(Items)
          /\ Len(Tail(Contents(r))) = c - 1
          /\ \A j \in 1..Len(Tail(Contents(r))) : Tail(Contents(r))[j] = Contents(r)[j + 1]
      BY <1>1, <1>6, <3>1, HeadTailProperties
    <3>3. Tail(Contents(r)) \in [1..(c - 1) -> Items]
      BY <3>2, LenProperties
    <3> QED BY <3>2, <3>3
  <2>3. \A j \in 1..(c - 1) : Contents(r)[j + 1] = r.storage[(k + ((j + 1) - 1)) % m]
    BY <1>1 DEF Contents
  <2>4. \A j \in 1..(c - 1) : r.storage[(((k + 1) % m) + (j - 1)) % m] = Contents(r)[j + 1]
    <3> SUFFICES ASSUME NEW j \in 1..(c - 1)
                 PROVE  r.storage[(((k + 1) % m) + (j - 1)) % m] = Contents(r)[j + 1]
      OBVIOUS
    <3>1. j \in 1..c
      BY <1>1
    <3> QED BY <1>4, <2>3, <3>1
  <2> QED BY <2>1, <2>2, <2>4
<1>8. PoppedItem(r) = Head(Contents(r)) /\ PoppedItem(r) \in Items
  <2>1. Contents(r)[1] = r.storage[(k + (1 - 1)) % m]
    BY <1>1 DEF Contents
  <2>2. (k + (1 - 1)) % m = k
    BY <1>1
  <2>3. Head(Contents(r)) = Contents(r)[1]
    BY <1>1, <1>6
  <2>4. Contents(r)[1] \in Items
    BY <1>1, <1>6
  <2> QED BY <2>1, <2>2, <2>3, <2>4 DEF PoppedItem
<1>9. \A j \in 1..s.count : Contents(s)[j] \in Items
  <2>1. Contents(s) \in Seq(Items) /\ Len(Contents(s)) = c - 1
    BY <1>1, <1>6, <1>7
  <2> QED BY <1>2, <2>1
<1>10. RingOK(s)
  <2>1. /\ r.storage \in [0..(m - 1) -> Items \cup {NoItem}]
        /\ r.overflow \in OverflowModes /\ r.drops \in 0..(SizeMod - 1)
    BY DEF RingOK
  <2>2. c - 1 \in 0..m
    BY <1>1
  <2> HIDE DEF s
  <2> QED BY <1>1, <1>2, <1>3, <1>5, <1>9, <2>1, <2>2 DEF RingOK
<1> QED BY <1>7, <1>8, <1>10

(* sch_spsc_ring_push_isr, by what it finds.                               *)
LEMMA PushEffect ==
  ASSUME NEW r, RingOK(r), NEW item \in Items, NEW s, s = SchSpscRingPushIsr(r, item)
  PROVE  /\ RingOK(s) /\ s.capacity = r.capacity /\ s.overflow = r.overflow
         /\ r.capacity = 0 => s = r
         /\ r.count < r.capacity =>
              /\ Contents(s) = Append(Contents(r), item)
              /\ s.drops = r.drops /\ s.count = r.count + 1
         /\ r.capacity > 0 /\ r.count = r.capacity =>
              /\ s.drops = (r.drops + 1) % SizeMod /\ s.count = r.count
              /\ Contents(s) = IF r.overflow = DROP_NEWEST THEN Contents(r)
                               ELSE Append(Tail(Contents(r)), item)
<1>1. r.capacity \in Nat /\ r.count \in 0..r.capacity /\ (SchRingValid(r) <=> r.capacity > 0)
  BY DEF RingOK, SchRingValid
<1>2. CASE r.capacity = 0
  <2>1. s = r
    BY <1>1, <1>2 DEF SchSpscRingPushIsr
  <2> QED BY <1>1, <1>2, <2>1
<1>3. CASE r.count < r.capacity
  <2>1. s = Store(r, item)
    BY <1>1, <1>3 DEF SchSpscRingPushIsr, IsFull
  <2>2. RingOK(s) /\ Contents(s) = Append(Contents(r), item)
    BY <1>3, <2>1, StoreAppends
  <2>3. /\ s.count = r.count + 1 /\ s.capacity = r.capacity
        /\ s.drops = r.drops /\ s.overflow = r.overflow
    BY <2>1, StoreKeeps
  <2> QED BY <1>1, <1>3, <2>2, <2>3
<1>4. CASE r.capacity > 0 /\ r.count = r.capacity /\ r.overflow = DROP_NEWEST
  <2>1. s = CountDrop(r)
    BY <1>1, <1>4 DEF SchSpscRingPushIsr, IsFull
  <2> QED BY <1>1, <1>4, <2>1, CountDropKeepsContents
<1>5. CASE r.capacity > 0 /\ r.count = r.capacity /\ r.overflow # DROP_NEWEST
  <2> DEFINE d == CountDrop(r)
             e == DiscardOldest(d)
  <2>1. s = Store(e, item)
    BY <1>1, <1>5 DEF SchSpscRingPushIsr, IsFull
  <2>2. /\ RingOK(d) /\ Contents(d) = Contents(r) /\ d.drops = (r.drops + 1) % SizeMod
        /\ d.count = r.count /\ d.capacity = r.capacity /\ d.overflow = r.overflow
    BY <1>5, CountDropKeepsContents
  <2> HIDE DEF d
  <2>3. RingOK(e) /\ Contents(e) = Tail(Contents(r))
    BY <1>1, <1>5, <2>2, PopTakesHead
  <2>4. /\ e.count = d.count - 1 /\ e.capacity = d.capacity
        /\ e.drops = d.drops /\ e.overflow = d.overflow
    BY <2>2, DiscardFields
  <2> HIDE DEF e
  <2>5. e.count < e.capacity
    BY <1>1, <1>5, <2>2, <2>4
  <2>6. RingOK(s) /\ Contents(s) = Append(Contents(e), item)
    BY <2>1, <2>3, <2>5, StoreAppends
  <2>7. /\ s.count = e.count + 1 /\ s.capacity = e.capacity
        /\ s.drops = e.drops /\ s.overflow = e.overflow
    BY <2>1, <2>3, StoreKeeps
  <2>8. s.count = r.count
    BY <1>1, <2>2, <2>4, <2>7
  <2> QED BY <1>1, <1>5, <2>2, <2>3, <2>4, <2>6, <2>7, <2>8
<1> QED BY <1>1, <1>2, <1>3, <1>4, <1>5

(* sch_spsc_ring_pop_task on a ring that is not empty.                     *)
LEMMA PopEffect ==
  ASSUME NEW r, RingOK(r), PopSucceeds(r), NEW s, s = SchSpscRingPopTask(r)
  PROVE  /\ RingOK(s) /\ s.capacity = r.capacity /\ s.overflow = r.overflow
         /\ s.drops = r.drops /\ s.count = r.count - 1
         /\ Contents(s) = Tail(Contents(r)) /\ Contents(r) # << >>
         /\ PoppedItem(r) = Head(Contents(r)) /\ PoppedItem(r) \in Items
<1>1. s = DiscardOldest(r)
  BY DEF SchSpscRingPopTask, DiscardOldest
<1>2. r.count \in Nat \ {0} /\ r.count # 0
  BY DEF RingOK, PopSucceeds
<1>3. Contents(r) # << >>
  BY <1>2, ContentsType, EmptySeq
<1> QED BY <1>1, <1>2, <1>3, PopTakesHead, DiscardFields

(* An empty ring, as sch_spsc_ring_init leaves it.                         *)
LEMMA InitEffect ==
  ASSUME NEW c \in Nat \ {0}, NEW m \in OverflowModes, NEW s, s = SchSpscRingInit(c, m)
  PROVE  /\ RingOK(s) /\ s.capacity = c /\ s.overflow = m /\ s.drops = 0 /\ s.count = 0
         /\ Contents(s) = << >>
<1>1. /\ DOMAIN s = RingFields /\ s.storage = [k \in 0..(c - 1) |-> NoItem]
      /\ s.capacity = c /\ s.head = 0 /\ s.tail = 0 /\ s.count = 0 /\ s.drops = 0
      /\ s.overflow = m
  BY DEF SchSpscRingInit, RingFields
<1>2. Contents(s) = << >>
  BY <1>1 DEF Contents
<1>3. (0 + 0) % c = 0 /\ 0 \in 0..(c - 1) /\ 0 \in 0..c /\ 0 \in 0..(SizeMod - 1)
  BY RingAssumption
<1>4. RingOK(s)
  BY <1>1, <1>3 DEF RingOK
<1> QED BY <1>1, <1>2, <1>4

(* A zeroed ring is well formed and empty.                                 *)
LEMMA ZeroRingOK ==
  RingOK(ZeroRing) /\ ZeroRing.count = 0 /\ ZeroRing.drops = 0 /\ ZeroRing.capacity = 0
<1> DEFINE z == ZeroRing
<1>1. /\ DOMAIN z = RingFields /\ z.storage = [k \in {} |-> NoItem]
      /\ z.capacity = 0 /\ z.head = 0 /\ z.tail = 0 /\ z.count = 0
      /\ z.drops = 0 /\ z.overflow \in OverflowModes
  BY DEF ZeroRing, RingFields, OverflowModes
<1> HIDE DEF z
<1>2. z.storage \in [0..(0 - 1) -> Items \cup {NoItem}]
  BY <1>1
<1>3. RingOK(z)
  BY <1>1, <1>2, RingAssumption DEF RingOK
<1> QED BY <1>1, <1>3 DEF z

(* sch_spsc_ring_reset.                                                    *)
LEMMA ResetEffect ==
  ASSUME NEW r, RingOK(r), NEW s, s = SchSpscRingReset(r)
  PROVE  /\ RingOK(s) /\ s.capacity = r.capacity /\ s.overflow = r.overflow
         /\ s.drops = 0 /\ s.count = 0 /\ Contents(s) = << >>
         /\ r.capacity = 0 => s = r
<1>1. /\ r.capacity \in Nat /\ r.overflow \in OverflowModes /\ DOMAIN r = RingFields
      /\ (SchRingValid(r) <=> r.capacity > 0)
      /\ r.storage \in [0..(r.capacity - 1) -> Items \cup {NoItem}]
  BY DEF RingOK, SchRingValid
<1>2. CASE r.capacity = 0
  <2>1. s = r
    BY <1>1, <1>2 DEF SchSpscRingReset
  <2>2. r.count = 0 /\ r.drops = 0
    BY <1>2 DEF RingOK
  <2>3. Contents(r) = << >>
    BY <2>2 DEF Contents
  <2> QED BY <2>1, <2>2, <2>3
<1>3. CASE r.capacity > 0
  <2>1. /\ DOMAIN s = RingFields /\ s.storage = r.storage
        /\ s.capacity = r.capacity /\ s.head = 0 /\ s.tail = 0 /\ s.count = 0
        /\ s.drops = 0 /\ s.overflow = r.overflow
    BY <1>1, <1>3 DEF SchSpscRingReset, RingFields
  <2>2. Contents(s) = << >>
    BY <2>1 DEF Contents
  <2>3. /\ (0 + 0) % r.capacity = 0 /\ 0 \in 0..(r.capacity - 1) /\ 0 \in 0..r.capacity
        /\ 0 \in 0..(SizeMod - 1)
    BY <1>1, <1>3, RingAssumption
  <2>4. RingOK(s)
    BY <1>1, <1>3, <2>1, <2>3 DEF RingOK
  <2> QED BY <1>3, <2>1, <2>2, <2>4
<1> QED BY <1>1, <1>2, <1>3

(* Incrementing before or after reducing modulo the counter's width.       *)
LEMMA ModSucc ==
  ASSUME NEW w \in Nat \ {0}, NEW x \in Int
  PROVE  ((x % w) + 1) % w = (x + 1) % w
<1> DEFINE q == x \div w
           d == x % w
<1>1. x = w * q + d /\ q \in Int /\ d \in 0..(w - 1)
  OBVIOUS
<1> HIDE DEF q, d
<1>2. CASE d + 1 < w
  <2>1. x + 1 = w * q + (d + 1)
    BY <1>1
  <2>2. (w * q + (d + 1)) % w = d + 1
    BY <1>1, <1>2
  <2>3. (d + 1) % w = d + 1
    BY <1>1, <1>2
  <2> QED BY <2>1, <2>2, <2>3 DEF d
<1>3. CASE d + 1 = w
  <2>1. x + 1 = w * (q + 1) + 0
    BY <1>1, <1>3
  <2>2. (w * (q + 1) + 0) % w = 0
    BY <1>1
  <2>3. (d + 1) % w = 0
    BY <1>1, <1>3
  <2> QED BY <2>1, <2>2, <2>3 DEF d
<1> QED BY <1>1, <1>2, <1>3

-----------------------------------------------------------------------------
(* How often an element occurs in a queue.                                 *)
Occurrences(q, x) == {k \in 1..Len(q) : q[k] = x}

(* 1 if e is the element counted, 0 if not.                                *)
Match(e, x) == IF e = x THEN 1 ELSE 0

(* A queue is finite, so its occurrences can be counted.                   *)
LEMMA OccurrencesFinite ==
  ASSUME NEW S, NEW q \in Seq(S), NEW x
  PROVE  /\ IsFiniteSet(Occurrences(q, x))
         /\ Cardinality(Occurrences(q, x)) \in Nat
         /\ Cardinality(Occurrences(q, x)) <= Len(q)
<1>1. Len(q) \in Nat /\ Occurrences(q, x) \in SUBSET (1..Len(q))
  BY DEF Occurrences
<1>2. IsFiniteSet(1..Len(q)) /\ Cardinality(1..Len(q)) = Len(q)
  <2>1. 1 \in Int /\ Len(q) \in Int
    BY <1>1
  <2>2. /\ IsFiniteSet(1..Len(q))
        /\ Cardinality(1..Len(q)) = IF 1 > Len(q) THEN 0 ELSE (Len(q) - 1) + 1
    BY <2>1, FS_Interval
  <2> QED BY <1>1, <2>2
<1> QED BY <1>1, <1>2, FS_Subset, FS_CardinalityType

(* No element occurs in the empty queue.                                   *)
LEMMA OccurrencesEmpty ==
  ASSUME NEW x
  PROVE  Cardinality(Occurrences(<< >>, x)) = 0
<1>1. Occurrences(<< >>, x) = {}
  BY DEF Occurrences
<1> QED BY <1>1, FS_EmptySet

(* A put adds one occurrence of the element put.                           *)
LEMMA OccurrencesAppend ==
  ASSUME NEW S, NEW q \in Seq(S), NEW e \in S, NEW x
  PROVE  Cardinality(Occurrences(Append(q, e), x))
           = Cardinality(Occurrences(q, x)) + Match(e, x)
<1> DEFINE n == Len(q)
           O == Occurrences(q, x)
<1>1. n \in Nat /\ IsFiniteSet(O) /\ Cardinality(O) \in Nat /\ n + 1 \notin O
  <2>1. n \in Nat /\ n + 1 \notin O
    BY DEF Occurrences
  <2> QED BY <2>1, OccurrencesFinite
<1>2. /\ Len(Append(q, e)) = n + 1 /\ Append(q, e)[n + 1] = e
      /\ \A k \in 1..n : Append(q, e)[k] = q[k]
  BY AppendProperties
<1>3. CASE e = x
  <2>1. Occurrences(Append(q, e), x) = O \cup {n + 1}
    BY <1>1, <1>2, <1>3 DEF Occurrences
  <2> QED BY <1>1, <1>3, <2>1, FS_AddElement DEF Match
<1>4. CASE e # x
  <2>1. Occurrences(Append(q, e), x) = O
    BY <1>1, <1>2, <1>4 DEF Occurrences
  <2> QED BY <1>1, <1>4, <2>1 DEF Match
<1> QED BY <1>3, <1>4

(* A take removes one occurrence of the element taken.                     *)
LEMMA OccurrencesTail ==
  ASSUME NEW S, NEW q \in Seq(S), q # << >>, NEW x
  PROVE  Cardinality(Occurrences(q, x))
           = Cardinality(Occurrences(Tail(q), x)) + Match(Head(q), x)
<1> DEFINE n == Len(q)
           O == Occurrences(q, x)
           T == Occurrences(Tail(q), x)
           f == [k \in T |-> k + 1]
<1>1. /\ n \in Nat \ {0} /\ Tail(q) \in Seq(S) /\ Len(Tail(q)) = n - 1
      /\ Head(q) = q[1] /\ \A k \in 1..(n - 1) : Tail(q)[k] = q[k + 1]
  BY HeadTailProperties, EmptySeq
<1>2. IsFiniteSet(T) /\ IsFiniteSet(O) /\ Cardinality(O) \in Nat /\ Cardinality(T) \in Nat
  BY <1>1, OccurrencesFinite
<1>3. f \in Bijection(T, O \ {1})
  <2>1. \A k \in T : k \in Nat /\ k + 1 \in O \ {1}
    BY <1>1 DEF Occurrences
  <2>2. \A k \in O \ {1} : k - 1 \in T /\ (k - 1) + 1 = k
    BY <1>1 DEF Occurrences
  <2>3. f \in [T -> O \ {1}] /\ \A k \in T : f[k] = k + 1
    BY <2>1
  <2>4. \A j, k \in T : f[j] = f[k] => j = k
    BY <2>1, <2>3
  <2>5. \A k \in O \ {1} : \E j \in T : f[j] = k
    BY <2>2, <2>3
  <2> HIDE DEF f, T, O
  <2> QED BY <2>3, <2>4, <2>5 DEF Bijection, Injection, Surjection, IsInjective
<1>4. Cardinality(O \ {1}) = Cardinality(T)
  <2> HIDE DEF f, T, O
  <2> QED BY <1>2, <1>3, FS_Bijection DEF ExistsBijection
<1>5. Cardinality(O \ {1}) = IF 1 \in O THEN Cardinality(O) - 1 ELSE Cardinality(O)
  <2> HIDE DEF O
  <2> QED BY <1>2, FS_RemoveElement
<1>6. 1 \in O <=> Head(q) = x
  BY <1>1 DEF Occurrences
<1> HIDE DEF T, O
<1> QED BY <1>2, <1>4, <1>5, <1>6 DEF T, O, Match

(* How many buffered elements of a ring equal x.                           *)
HowMany(r, x) == Cardinality({k \in 1..r.count : Contents(r)[k] = x})

(* The same, as occurrences in the contents.                               *)
LEMMA HowManyOccurs ==
  ASSUME NEW r, RingOK(r), NEW x
  PROVE  /\ HowMany(r, x) = Cardinality(Occurrences(Contents(r), x))
         /\ HowMany(r, x) \in Nat /\ HowMany(r, x) <= r.count
<1>1. Contents(r) \in Seq(Items) /\ Len(Contents(r)) = r.count
  BY ContentsType
<1>2. HowMany(r, x) = Cardinality(Occurrences(Contents(r), x))
  BY <1>1 DEF HowMany, Occurrences
<1> QED BY <1>1, <1>2, OccurrencesFinite

(* An empty ring holds none.                                               *)
LEMMA HowManyEmpty ==
  ASSUME NEW r, RingOK(r), r.count = 0, NEW x
  PROVE  HowMany(r, x) = 0
<1>1. HowMany(r, x) \in Nat /\ HowMany(r, x) <= 0
  BY HowManyOccurs
<1> QED BY <1>1

(* A push to a ring with room adds the element; a push to a full ring adds *)
(* it and loses exactly one element, old or new.                           *)
LEMMA PushHowMany ==
  ASSUME NEW r, RingOK(r), NEW item \in Items, NEW s, s = SchSpscRingPushIsr(r, item)
  PROVE  /\ r.count < r.capacity =>
              \A x : HowMany(s, x) = HowMany(r, x) + Match(item, x)
         /\ r.capacity > 0 /\ r.count = r.capacity =>
              \E lost \in Items : \A x :
                HowMany(s, x) = (HowMany(r, x) + Match(item, x))
                                  - Match(lost, x)
<1>1. /\ RingOK(s)
      /\ r.count < r.capacity => Contents(s) = Append(Contents(r), item)
      /\ r.capacity > 0 /\ r.count = r.capacity =>
           Contents(s) = IF r.overflow = DROP_NEWEST THEN Contents(r)
                         ELSE Append(Tail(Contents(r)), item)
  BY PushEffect
<1>2. Contents(r) \in Seq(Items) /\ Len(Contents(r)) = r.count
  BY ContentsType
<1>3. \A x : /\ HowMany(r, x) = Cardinality(Occurrences(Contents(r), x))
             /\ HowMany(s, x) = Cardinality(Occurrences(Contents(s), x))
             /\ HowMany(r, x) \in Nat
  BY <1>1, HowManyOccurs
<1>4. ASSUME r.count < r.capacity, NEW x
      PROVE  HowMany(s, x) = HowMany(r, x) + Match(item, x)
  <2>1. Cardinality(Occurrences(Append(Contents(r), item), x))
          = Cardinality(Occurrences(Contents(r), x)) + Match(item, x)
    BY <1>2, OccurrencesAppend, Zenon
  <2> QED BY <1>1, <1>3, <1>4, <2>1
<1>5. ASSUME r.capacity > 0, r.count = r.capacity, r.overflow = DROP_NEWEST
      PROVE  \A x : HowMany(s, x) = (HowMany(r, x) + Match(item, x))
                                      - Match(item, x)
  <2> SUFFICES ASSUME NEW x
               PROVE  HowMany(s, x) = (HowMany(r, x) + Match(item, x))
                                        - Match(item, x)
    OBVIOUS
  <2>1. HowMany(s, x) = HowMany(r, x) /\ HowMany(r, x) \in Nat
    BY <1>1, <1>3, <1>5
  <2> QED BY <2>1 DEF Match
<1>6. ASSUME r.capacity > 0, r.count = r.capacity, r.overflow # DROP_NEWEST
      PROVE  \E lost \in Items : \A x :
                HowMany(s, x) = (HowMany(r, x) + Match(item, x))
                                  - Match(lost, x)
  <2> DEFINE q == Contents(r)
             lost == Head(q)
  <2>1. q # << >>
    BY <1>2, <1>6 DEF RingOK
  <2>2. Tail(q) \in Seq(Items) /\ lost \in Items
    BY <1>2, <2>1, HeadTailProperties
  <2>3. ASSUME NEW x
        PROVE  HowMany(s, x) = (HowMany(r, x) + Match(item, x))
                                 - Match(lost, x)
    <3>1. Cardinality(Occurrences(q, x))
            = Cardinality(Occurrences(Tail(q), x)) + Match(lost, x)
      BY <1>2, <2>1, OccurrencesTail
    <3>2. Cardinality(Occurrences(Append(Tail(q), item), x))
            = Cardinality(Occurrences(Tail(q), x)) + Match(item, x)
      BY <2>2, OccurrencesAppend, Zenon
    <3>3. Cardinality(Occurrences(Tail(q), x)) \in Nat
      BY <2>2, OccurrencesFinite
    <3>4. /\ HowMany(r, x) = Cardinality(Occurrences(q, x))
          /\ HowMany(s, x) = Cardinality(Occurrences(Append(Tail(q), item), x))
      BY <1>1, <1>3, <1>6
    <3> QED BY <3>1, <3>2, <3>3, <3>4 DEF Match
  <2> HIDE DEF lost
  <2> QED BY <2>2, <2>3
<1>7. r.overflow = DROP_NEWEST \/ r.overflow # DROP_NEWEST
  OBVIOUS
<1> QED BY <1>4, <1>5, <1>6, <1>7

(* A successful pop removes the element it hands out.                      *)
LEMMA PopHowMany ==
  ASSUME NEW r, RingOK(r), PopSucceeds(r), NEW s, s = SchSpscRingPopTask(r), NEW x
  PROVE  HowMany(r, x) = HowMany(s, x) + Match(PoppedItem(r), x)
<1>1. /\ RingOK(s) /\ Contents(s) = Tail(Contents(r)) /\ Contents(r) # << >>
      /\ PoppedItem(r) = Head(Contents(r))
  BY PopEffect
<1>2. Contents(r) \in Seq(Items)
  BY ContentsType
<1>3. /\ HowMany(r, x) = Cardinality(Occurrences(Contents(r), x))
      /\ HowMany(s, x) = Cardinality(Occurrences(Contents(s), x))
  BY <1>1, HowManyOccurs
<1> QED BY <1>1, <1>2, <1>3, OccurrencesTail

-----------------------------------------------------------------------------
(* The elements a ring holds.                                              *)
Elements(r) == {Contents(r)[k] : k \in 1..r.count}

(* A push brings in no element but the one pushed.                         *)
LEMMA PushElements ==
  ASSUME NEW r, RingOK(r), NEW item \in Items, NEW s, s = SchSpscRingPushIsr(r, item)
  PROVE  Elements(s) \subseteq Elements(r) \cup {item}
<1>1. /\ Contents(r) \in Seq(Items) /\ Len(Contents(r)) = r.count
      /\ r.count \in Nat /\ r.capacity \in Nat /\ r.count <= r.capacity
  <2>1. r.count \in Nat /\ r.capacity \in Nat /\ r.count <= r.capacity
    BY DEF RingOK
  <2> QED BY <2>1, ContentsType
<1> SUFFICES ASSUME NEW k \in 1..s.count, Contents(s)[k] # item
             PROVE  \E j \in 1..r.count : Contents(s)[k] = Contents(r)[j]
  BY DEF Elements
<1>3. CASE r.count < r.capacity
  <2>1. Contents(s) = Append(Contents(r), item) /\ s.count = r.count + 1
    BY <1>3, PushEffect
  <2>2. Contents(s)[r.count + 1] = item /\ \A j \in 1..r.count : Contents(s)[j] = Contents(r)[j]
    BY <1>1, <2>1, AppendProperties
  <2>3. k \in 1..r.count
    BY <1>1, <2>1, <2>2
  <2> QED BY <2>2, <2>3
<1>4. CASE r.capacity = 0
  <2>1. s = r
    BY <1>4, PushEffect
  <2> QED BY <2>1
<1>5. CASE r.capacity > 0 /\ r.count = r.capacity /\ r.overflow = DROP_NEWEST
  <2>1. Contents(s) = Contents(r) /\ s.count = r.count
    BY <1>5, PushEffect
  <2> QED BY <2>1
<1>6. CASE r.capacity > 0 /\ r.count = r.capacity /\ r.overflow # DROP_NEWEST
  <2> DEFINE t == Tail(Contents(r))
  <2>1. Contents(s) = Append(t, item) /\ s.count = r.count
    BY <1>6, PushEffect
  <2>2. Contents(r) # << >>
    BY <1>1, <1>6, EmptySeq
  <2>3. /\ t \in Seq(Items) /\ Len(t) = r.count - 1
        /\ \A j \in 1..(r.count - 1) : t[j] = Contents(r)[j + 1]
    BY <1>1, <2>2, HeadTailProperties
  <2> HIDE DEF t
  <2>4. /\ Contents(s)[(r.count - 1) + 1] = item
        /\ \A j \in 1..(r.count - 1) : Contents(s)[j] = t[j]
    BY <2>1, <2>3, AppendProperties
  <2>5. (r.count - 1) + 1 = r.count
    BY <1>1
  <2>6. k # r.count /\ k \in 1..r.count
    BY <2>1, <2>4, <2>5
  <2>7. k \in 1..(r.count - 1) /\ k + 1 \in 1..r.count
    BY <1>1, <2>6
  <2> QED BY <2>3, <2>4, <2>7
<1> QED BY <1>1, <1>3, <1>4, <1>5, <1>6

(* A pop hands out an element and brings in none.                          *)
LEMMA PopElements ==
  ASSUME NEW r, RingOK(r), PopSucceeds(r), NEW s, s = SchSpscRingPopTask(r)
  PROVE  Elements(s) \subseteq Elements(r) /\ PoppedItem(r) \in Elements(r)
<1>1. /\ s.count = r.count - 1 /\ Contents(s) = Tail(Contents(r)) /\ Contents(r) # << >>
      /\ PoppedItem(r) = Head(Contents(r))
  BY PopEffect
<1>2. Contents(r) \in Seq(Items) /\ Len(Contents(r)) = r.count /\ r.count \in Nat \ {0}
  BY ContentsType DEF PopSucceeds, RingOK
<1>3. /\ Head(Contents(r)) = Contents(r)[1]
      /\ \A j \in 1..(r.count - 1) : Tail(Contents(r))[j] = Contents(r)[j + 1]
  BY <1>1, <1>2, HeadTailProperties
<1>4. 1 \in 1..r.count /\ \A j \in 1..(r.count - 1) : j + 1 \in 1..r.count
  BY <1>2
<1>5. \A j \in 1..s.count : \E n \in 1..r.count : Contents(s)[j] = Contents(r)[n]
  BY <1>1, <1>3, <1>4
<1>6. PoppedItem(r) = Contents(r)[1]
  BY <1>1, <1>3
<1> QED BY <1>4, <1>5, <1>6 DEF Elements

(* An empty ring holds no element.                                         *)
LEMMA EmptyElements ==
  ASSUME NEW r, r.count = 0
  PROVE  Elements(r) = {}
BY DEF Elements
=============================================================================
