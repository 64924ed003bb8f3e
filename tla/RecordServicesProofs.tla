------------------------ MODULE RecordServicesProofs ------------------------
(***************************************************************************)
(* TLAPS proofs about the FSI and the IPC service, for every capacity,     *)
(* overflow mode, budget, number of interrupts and width of size_t.        *)
(***************************************************************************)
EXTENDS RecordServices, SpscRingTheorems

-----------------------------------------------------------------------------
(* The inductive invariant.                                                *)

(* The records of q are numbered in increasing order, above lo and at most *)
(* hi.                                                                     *)
Ordered(q, lo, hi) ==
  /\ \A k \in 1..Len(q) : lo < q[k].id /\ q[k].id <= hi
  /\ \A j, k \in 1..Len(q) : j < k => q[j].id < q[k].id

(* The latest number dispatched or about to be.                            *)
Floor == IF record = NoItem THEN last ELSE record.id

Held == IF record = NoItem THEN 0 ELSE 1

(* What is in the ring is newer than what has left it.                     *)
OrderInv ==
  /\ record # NoItem => last < record.id /\ record.id <= captured
  /\ Ordered(Contents(ring), Floor, captured)

(* Interrupts are dispatched, in flight or counted, and the first two do   *)
(* not exceed them: TypeOK needs this for delivered.                       *)
AccountInv ==
  /\ delivered + Held + ring.count <= captured
  /\ ring.drops = (captured - (delivered + Held + ring.count)) % SizeMod

(* The loop counter starts at 0 and a popped record was within the budget. *)
LoopInv ==
  /\ pc \in {"idle", "check"} => i = 0
  /\ pc = "dispatch" => i < budget

Inv == TypeOK /\ OrderInv /\ AccountInv /\ LoopInv

-----------------------------------------------------------------------------
(* Serial numbers are positive integers.                                   *)
LEMMA RecordIds ==
  /\ \A r \in Records : r.id \in Nat /\ r.id \in 1..MaxIrqs
  /\ \A q \in Seq(Records) : \A k \in 1..Len(q) : q[k] \in Records /\ q[k].id \in Nat
<1>1. \A r \in Records : r.id \in 1..MaxIrqs
  BY DEF Records
<1>2. \A r \in Records : r.id \in Nat
  BY <1>1, ServiceAssumption
<1>3. \A q \in Seq(Records) : \A k \in 1..Len(q) : q[k] \in Records
  OBVIOUS
<1> QED BY <1>1, <1>2, <1>3

(* A record numbered next keeps a queue in order.                          *)
LEMMA OrderedAppend ==
  ASSUME NEW q \in Seq(Records), NEW lo \in Nat, NEW hi \in Nat, lo <= hi,
         Ordered(q, lo, hi), NEW r \in Records, r.id = hi + 1
  PROVE  Ordered(Append(q, r), lo, hi + 1)
<1> DEFINE n == Len(q)
           s == Append(q, r)
<1>1. n \in Nat /\ Len(s) = n + 1 /\ s[n + 1] = r /\ \A k \in 1..n : s[k] = q[k]
  BY AppendProperties
<1>2. \A k \in 1..n : q[k].id \in Nat
  BY RecordIds
<1>3. \A k \in 1..n : lo < q[k].id /\ q[k].id <= hi
  BY DEF Ordered
<1>4. \A j, k \in 1..n : j < k => q[j].id < q[k].id
  BY DEF Ordered
<1> HIDE DEF n, s
<1>5. \A k \in 1..(n + 1) : k \in 1..n \/ k = n + 1
  BY <1>1
<1>6. ASSUME NEW k \in 1..(n + 1)
      PROVE  lo < s[k].id /\ s[k].id <= hi + 1
  BY <1>1, <1>2, <1>3, <1>5
<1>7. ASSUME NEW j \in 1..(n + 1), NEW k \in 1..(n + 1), j < k
      PROVE  s[j].id < s[k].id
  <2>1. j \in 1..n
    BY <1>1, <1>7
  <2>2. CASE k \in 1..n
    BY <1>1, <1>4, <1>7, <2>1, <2>2
  <2>3. CASE k = n + 1
    <3>1. s[j].id \in Nat /\ s[j].id <= hi /\ s[k].id = hi + 1
      BY <1>1, <1>2, <1>3, <2>1, <2>3
    <3> QED BY <3>1
  <2> QED BY <1>5, <2>2, <2>3
<1> QED BY <1>1, <1>6, <1>7 DEF Ordered, s

(* What follows the first record is newer than it.                         *)
LEMMA OrderedTail ==
  ASSUME NEW q \in Seq(Records), NEW lo, NEW hi, Ordered(q, lo, hi), q # << >>
  PROVE  /\ Ordered(Tail(q), Head(q).id, hi)
         /\ lo < Head(q).id /\ Head(q).id <= hi
<1> DEFINE n == Len(q)
           t == Tail(q)
<1>1. /\ n \in Nat \ {0} /\ Len(t) = n - 1 /\ Head(q) = q[1]
      /\ \A k \in 1..(n - 1) : t[k] = q[k + 1]
  BY HeadTailProperties, EmptySeq
<1>2. \A k \in 1..n : lo < q[k].id /\ q[k].id <= hi
  BY DEF Ordered
<1>3. \A j, k \in 1..n : j < k => q[j].id < q[k].id
  BY DEF Ordered
<1> HIDE DEF n, t
<1>4. \A k \in 1..(n - 1) : k + 1 \in 1..n /\ 1 \in 1..n /\ 1 < k + 1
  BY <1>1
<1>5. \A k \in 1..(n - 1) : q[1].id < t[k].id /\ t[k].id <= hi
  BY <1>1, <1>2, <1>3, <1>4
<1>6. ASSUME NEW j \in 1..(n - 1), NEW k \in 1..(n - 1), j < k
      PROVE  t[j].id < t[k].id
  <2>1. j + 1 \in 1..n /\ k + 1 \in 1..n /\ j + 1 < k + 1
    BY <1>1, <1>6
  <2> QED BY <1>1, <1>3, <2>1
<1>7. 1 \in 1..n
  BY <1>1
<1> QED BY <1>1, <1>2, <1>5, <1>6, <1>7 DEF Ordered, t

(* A lower bound may be lowered.                                           *)
LEMMA OrderedBelow ==
  ASSUME NEW q \in Seq(Records), NEW lo \in Nat, NEW m \in Nat, lo <= m, NEW hi, Ordered(q, m, hi)
  PROVE  Ordered(q, lo, hi)
<1>1. \A k \in 1..Len(q) : q[k].id \in Nat /\ m < q[k].id
  BY RecordIds DEF Ordered
<1>2. \A k \in 1..Len(q) : lo < q[k].id
  BY <1>1
<1> QED BY <1>2 DEF Ordered

(* An upper bound may be raised.                                           *)
LEMMA OrderedAbove ==
  ASSUME NEW q \in Seq(Records), NEW lo, NEW hi \in Nat, Ordered(q, lo, hi)
  PROVE  Ordered(q, lo, hi + 1)
<1>1. \A k \in 1..Len(q) : q[k].id \in Nat /\ q[k].id <= hi
  BY RecordIds DEF Ordered
<1>2. \A k \in 1..Len(q) : q[k].id <= hi + 1
  BY <1>1
<1> QED BY <1>2 DEF Ordered

(* An empty queue is in order.                                             *)
LEMMA OrderedEmpty == \A lo, hi : Ordered(<< >>, lo, hi)
BY DEF Ordered

-----------------------------------------------------------------------------
(* The steps of either service.                                            *)
AnyStep ==
  \/ \E c \in Capacities, b \in Budgets, m \in Modes :
       ServiceInit(c, b, m) \/ ServiceInitRingFails(c, b, m)
  \/ \E t \in Tags : IsrPush(t) \/ IsrSetBit(t)
  \/ ServiceRun

(* Both services are made of them.                                         *)
LEMMA StepOfEither == [RecordNext]_recordVars => AnyStep \/ UNCHANGED vars
<1>1. /\ "RX" \in Tags /\ "TX" \in Tags /\ "ERROR" \in Tags
      /\ "NOTIFY" \in Tags /\ "ACK" \in Tags /\ "FAULT" \in Tags
  BY TagsAssumption DEF FsiTags, IpcTags
<1>2. FsiNext => AnyStep
  BY <1>1 DEF AnyStep, FsiNext, SchFsiServiceInit, SchFsiIsrRx, SchFsiIsrTx, SchFsiIsrError,
              SchFsiServiceRun
<1>3. IpcNext => AnyStep
  BY <1>1 DEF AnyStep, IpcNext, SchIpcServiceInit, SchIpcIsrNotify, SchIpcIsrAck,
              SchIpcIsrFault, SchIpcIsrPush, SchIpcServiceRun
<1> QED BY <1>2, <1>3 DEF RecordNext, recordVars

(* The invariant at start.                                                 *)
LEMMA InitInv == RecordInit => Inv
<1> SUFFICES ASSUME Init PROVE Inv
  BY DEF RecordInit
<1>1. RingOK(ring) /\ ring.count = 0 /\ ring.drops = 0
  BY ZeroRingOK DEF Init
<1>2. Contents(ring) = << >>
  BY <1>1 DEF Contents
<1>3. TypeOK
  BY <1>1, ServiceAssumption DEF Init, TypeOK
<1>4. OrderInv
  BY <1>2, OrderedEmpty DEF Init, OrderInv
<1>5. (0 - ((0 + 0) + 0)) % SizeMod = 0
  BY RingAssumption
<1>6. AccountInv
  BY <1>1, <1>5 DEF Init, AccountInv, Held
<1> QED BY <1>3, <1>4, <1>6 DEF Inv, Init, LoopInv

(* What the invariant says of the types, for the steps below.              *)
LEMMA InvTypes ==
  ASSUME Inv
  PROVE  /\ TypeOK /\ OrderInv /\ AccountInv /\ LoopInv
         /\ RingOK(ring) /\ Contents(ring) \in Seq(Records)
         /\ ring.count \in Nat /\ ring.capacity \in Nat /\ ring.count <= ring.capacity
         /\ (SchRingValid(ring) <=> ring.capacity > 0)
         /\ captured \in Nat /\ delivered \in Nat /\ last \in Nat /\ captured <= MaxIrqs
         /\ MaxIrqs \in Nat /\ budget \in Nat /\ i \in 0..budget /\ SizeMod \in Nat \ {0}
         /\ Floor \in Nat /\ Floor <= captured /\ last <= Floor /\ Held \in 0..1
         /\ NoItem \notin Records
<1>1. TypeOK /\ OrderInv /\ AccountInv /\ LoopInv /\ RingOK(ring)
  BY DEF Inv, TypeOK
<1>2. /\ ring.count \in Nat /\ ring.capacity \in Nat /\ ring.count <= ring.capacity
      /\ (SchRingValid(ring) <=> ring.capacity > 0)
  BY <1>1 DEF RingOK, SchRingValid
<1>3. Contents(ring) \in Seq(Records)
  BY <1>1, ContentsType, ServiceAssumption
<1>4. /\ captured \in Nat /\ delivered \in Nat /\ last \in Nat /\ captured <= MaxIrqs
      /\ MaxIrqs \in Nat /\ budget \in Nat /\ i \in 0..budget /\ SizeMod \in Nat \ {0}
      /\ last <= captured /\ NoItem \notin Records
  BY <1>1, ServiceAssumption, RingAssumption DEF TypeOK
<1>5. record # NoItem => record.id \in Nat /\ last < record.id /\ record.id <= captured
  BY <1>1, RecordIds DEF TypeOK, OrderInv
<1>6. Floor \in Nat /\ Floor <= captured /\ last <= Floor
  BY <1>4, <1>5 DEF Floor
<1>7. Held \in 0..1
  BY DEF Held
<1> QED BY <1>1, <1>2, <1>3, <1>4, <1>6, <1>7

(* An ISR's push.                                                          *)
LEMMA PushInv ==
  ASSUME Inv, NEW t \in Tags, IsrPush(t)
  PROVE  Inv'
<1>0. /\ TypeOK /\ OrderInv /\ AccountInv /\ LoopInv
      /\ RingOK(ring) /\ Contents(ring) \in Seq(Records)
      /\ ring.count \in Nat /\ ring.capacity \in Nat /\ ring.count <= ring.capacity
      /\ (SchRingValid(ring) <=> ring.capacity > 0)
      /\ captured \in Nat /\ delivered \in Nat /\ last \in Nat /\ captured <= MaxIrqs
      /\ MaxIrqs \in Nat /\ SizeMod \in Nat \ {0}
      /\ Floor \in Nat /\ Floor <= captured /\ Held \in 0..1
  BY InvTypes
<1>1. /\ record' = record /\ last' = last /\ delivered' = delivered
      /\ pc' = pc /\ bits' = bits /\ i' = i /\ budget' = budget /\ eventBits' = eventBits
      /\ isr' \subseteq Tags
  BY <1>0 DEF IsrPush, runVars, TypeOK
<1>2. Floor' = Floor /\ Held' = Held
  BY <1>1 DEF Floor, Held
<1>3. CASE ~SchRingValid(ring)
  <2>1. ring' = ring /\ captured' = captured
    BY <1>3 DEF IsrPush
  <2> QED BY <1>0, <1>1, <1>2, <2>1 DEF Inv, TypeOK, OrderInv, AccountInv, LoopInv
<1>4. CASE SchRingValid(ring)
  <2> DEFINE item == [tag |-> t, id |-> captured + 1]
  <2>1. /\ ring' = SchSpscRingPushIsr(ring, item) /\ captured' = captured + 1
        /\ captured < MaxIrqs
    BY <1>4 DEF IsrPush
  <2>2. item \in Records /\ item.id = captured + 1 /\ item \in Items
    BY <1>0, <2>1, ServiceAssumption DEF Records
  <2> HIDE DEF item
  <2>3. RingOK(ring')
    BY <1>0, <2>1, <2>2, PushEffect
  <2>4. TypeOK'
    <3>1. captured' \in 0..MaxIrqs /\ delivered' \in 0..captured' /\ last' \in 0..captured'
      BY <1>0, <1>1, <2>1 DEF TypeOK
    <3> QED BY <1>0, <1>1, <2>3, <3>1 DEF TypeOK
  <2>5. record' # NoItem => last' < record'.id /\ record'.id <= captured'
    <3>1. record # NoItem => record.id \in Nat /\ last < record.id /\ record.id <= captured
      BY <1>0, RecordIds DEF OrderInv, TypeOK
    <3> QED BY <1>0, <1>1, <2>1, <3>1
  <2>6. Ordered(Contents(ring), Floor, captured)
    BY <1>0 DEF OrderInv
  <2>7. CASE ring.count < ring.capacity
    <3>1. Contents(ring') = Append(Contents(ring), item) /\ ring'.drops = ring.drops
          /\ ring'.count = ring.count + 1
      BY <1>0, <2>1, <2>2, <2>7, PushEffect
    <3>2. Ordered(Contents(ring'), Floor', captured')
      BY <1>0, <1>2, <2>1, <2>2, <2>6, <3>1, OrderedAppend
    <3>3. AccountInv'
      <4>1. /\ captured' - (delivered' + Held' + ring'.count)
                 = captured - (delivered + Held + ring.count)
            /\ delivered' + Held' + ring'.count <= captured'
        BY <1>0, <1>1, <1>2, <2>1, <3>1 DEF AccountInv
      <4> QED BY <1>0, <3>1, <4>1 DEF AccountInv
    <3> QED BY <1>0, <1>1, <2>4, <2>5, <3>2, <3>3 DEF Inv, OrderInv, LoopInv
  <2>8. CASE ring.count = ring.capacity
    <3>1. ring'.drops = (ring.drops + 1) % SizeMod /\ ring'.count = ring.count
      BY <1>0, <1>4, <2>1, <2>2, <2>8, PushEffect
    <3>2. AccountInv'
      <4> DEFINE x == captured - (delivered + Held + ring.count)
      <4>1. /\ x \in Int /\ ring.drops = x % SizeMod
            /\ delivered + Held + ring.count <= captured
        BY <1>0 DEF AccountInv
      <4>2. captured' - (delivered' + Held' + ring'.count) = x + 1
        BY <1>0, <1>1, <1>2, <2>1, <3>1
      <4>3. delivered' + Held' + ring'.count <= captured'
        BY <1>0, <1>1, <1>2, <2>1, <3>1, <4>1
      <4> HIDE DEF x
      <4>4. ((x % SizeMod) + 1) % SizeMod = (x + 1) % SizeMod
        BY <1>0, <4>1, ModSucc
      <4> QED BY <3>1, <4>1, <4>2, <4>3, <4>4 DEF AccountInv
    <3>3. CASE ring.overflow = DROP_NEWEST
      <4>1. Contents(ring') = Contents(ring)
        BY <1>0, <1>4, <2>1, <2>2, <2>8, <3>3, PushEffect
      <4>2. Ordered(Contents(ring'), Floor', captured')
        BY <1>0, <1>2, <2>1, <2>6, <4>1, OrderedAbove
      <4> QED BY <1>0, <1>1, <2>4, <2>5, <3>2, <4>2 DEF Inv, OrderInv, LoopInv
    <3>4. CASE ring.overflow # DROP_NEWEST
      <4> DEFINE q == Contents(ring)
      <4>1. Contents(ring') = Append(Tail(q), item)
        BY <1>0, <1>4, <2>1, <2>2, <2>8, <3>4, PushEffect
      <4>2. q # << >>
        <5>1. Len(q) = ring.count /\ ring.count # 0
          BY <1>0, <1>4, <2>8, ContentsType
        <5> QED BY <5>1
      <4>3. Tail(q) \in Seq(Records) /\ Head(q) \in Records
        BY <1>0, <4>2, HeadTailProperties
      <4>4. Ordered(Tail(q), Head(q).id, captured) /\ Floor < Head(q).id
        BY <1>0, <2>6, <4>2, OrderedTail
      <4>5. Ordered(Tail(q), Floor, captured)
        <5>1. Head(q).id \in Nat /\ Floor <= Head(q).id
          BY <1>0, <4>3, <4>4, RecordIds
        <5> QED BY <1>0, <4>3, <4>4, <5>1, OrderedBelow
      <4>6. Ordered(Contents(ring'), Floor', captured')
        BY <1>0, <1>2, <2>1, <2>2, <4>1, <4>3, <4>5, OrderedAppend
      <4> QED BY <1>0, <1>1, <2>4, <2>5, <3>2, <4>6 DEF Inv, OrderInv, LoopInv
    <3> QED BY <3>3, <3>4
  <2> QED BY <1>0, <2>7, <2>8
<1> QED BY <1>3, <1>4

(* Every step preserves the invariant.                                     *)
LEMMA NextInv == Inv /\ [RecordNext]_recordVars => Inv'
<1> SUFFICES ASSUME Inv, AnyStep \/ UNCHANGED vars PROVE Inv'
  BY StepOfEither
<1>0. /\ TypeOK /\ OrderInv /\ AccountInv /\ LoopInv
      /\ RingOK(ring) /\ Contents(ring) \in Seq(Records) /\ ring.count \in Nat
      /\ captured \in Nat /\ delivered \in Nat /\ last \in Nat
      /\ MaxIrqs \in Nat /\ budget \in Nat /\ i \in 0..budget /\ SizeMod \in Nat \ {0}
      /\ NoItem \notin Records
  BY InvTypes
<1>1. ASSUME NEW c \in Capacities, NEW b \in Budgets, NEW m \in Modes, ServiceInit(c, b, m)
      PROVE  Inv'
  <2>1. c \in Nat \ {0} /\ m \in OverflowModes /\ b \in Nat
    BY <1>1, ServiceAssumption DEF ServiceInit, InitArgsValid
  <2>2. /\ RingOK(ring') /\ ring'.count = 0 /\ ring'.drops = 0 /\ Contents(ring') = << >>
    BY <1>1, <2>1, InitEffect DEF ServiceInit
  <2>3. record = NoItem /\ record' = NoItem /\ pc' = pc /\ i' = i /\ bits' = bits
    BY <1>0, <1>1 DEF ServiceInit, TypeOK, runVars
  <2>4. i = 0
    BY <1>0, <1>1 DEF ServiceInit, LoopInv
  <2>5. TypeOK' /\ LoopInv'
    BY <1>0, <1>1, <2>1, <2>2, <2>3, <2>4 DEF ServiceInit, TypeOK, LoopInv
  <2>6. OrderInv'
    BY <2>2, <2>3, OrderedEmpty DEF OrderInv
  <2>7. (0 - ((0 + 0) + 0)) % SizeMod = 0
    BY <1>0
  <2>8. AccountInv'
    BY <1>1, <2>2, <2>3, <2>7 DEF ServiceInit, AccountInv, Held
  <2> QED BY <2>5, <2>6, <2>8 DEF Inv
<1>2. ASSUME NEW c \in Capacities, NEW b \in Budgets, NEW m \in Modes,
             ServiceInitRingFails(c, b, m)
      PROVE  Inv'
  <2>1. b \in Nat /\ i = 0
    BY <1>0, <1>2, ServiceAssumption DEF ServiceInitRingFails, LoopInv
  <2> QED BY <1>0, <1>2, <2>1 DEF ServiceInitRingFails, Inv, TypeOK, OrderInv, AccountInv, LoopInv,
                                  Floor, Held, runVars, histVars
<1>3. ASSUME NEW t \in Tags, IsrPush(t)
      PROVE  Inv'
  BY <1>3, PushInv
<1>4. ASSUME NEW t \in Tags, IsrSetBit(t)
      PROVE  Inv'
  BY <1>0, <1>4 DEF IsrSetBit, Inv, TypeOK, OrderInv, AccountInv, LoopInv, Floor, Held,
                    runVars, histVars
<1>5. ASSUME RunTakeBits \/ RunCheck \/ RunEnd
      PROVE  Inv'
  BY <1>0, <1>5 DEF RunTakeBits, RunCheck, RunEnd, Inv, TypeOK, OrderInv, AccountInv, LoopInv,
                    Floor, Held, histVars
<1>6. ASSUME RunPop
      PROVE  Inv'
  <2>1. PopSucceeds(ring) /\ ring' = SchSpscRingPopTask(ring) /\ record' = PoppedItem(ring)
    BY <1>6 DEF RunPop
  <2>2. /\ RingOK(ring') /\ ring'.drops = ring.drops /\ ring'.count = ring.count - 1
        /\ Contents(ring') = Tail(Contents(ring)) /\ Contents(ring) # << >>
        /\ record' = Head(Contents(ring)) /\ record' \in Records
    BY <1>0, <2>1, PopEffect, ServiceAssumption
  <2>3. record = NoItem /\ record' # NoItem /\ pc' = "dispatch" /\ i' = i /\ budget' = budget
        /\ i < budget
    BY <1>0, <1>6, <2>2 DEF RunPop, TypeOK
  <2>4. TypeOK' /\ LoopInv'
    BY <1>0, <1>6, <2>2, <2>3 DEF RunPop, TypeOK, LoopInv, histVars
  <2>5. last' = last /\ captured' = captured /\ delivered' = delivered
    BY <1>6 DEF RunPop, histVars
  <2>6. OrderInv'
    <3>1. Ordered(Contents(ring), last, captured)
      BY <1>0, <2>3 DEF OrderInv, Floor
    <3>2. /\ Ordered(Contents(ring'), record'.id, captured)
          /\ last < record'.id /\ record'.id <= captured
      BY <1>0, <2>2, <3>1, OrderedTail
    <3> QED BY <2>3, <2>5, <3>2 DEF OrderInv, Floor
  <2>7. AccountInv'
    <3>1. Held = 0 /\ Held' = 1
      BY <2>3 DEF Held
    <3>2. delivered' + Held' + ring'.count = delivered + Held + ring.count
      BY <1>0, <2>2, <2>5, <3>1
    <3> QED BY <1>0, <2>2, <2>5, <3>2 DEF AccountInv
  <2> QED BY <2>4, <2>6, <2>7 DEF Inv
<1>7. ASSUME RunDispatch
      PROVE  Inv'
  <2>1. /\ record # NoItem /\ record' = NoItem /\ ring' = ring /\ captured' = captured
        /\ delivered' = delivered + 1 /\ last' = record.id /\ pc' = "drain"
        /\ i' = i + 1 /\ budget' = budget /\ i < budget
    BY <1>0, <1>7 DEF RunDispatch, TypeOK, LoopInv
  <2>2. last < record.id /\ record.id <= captured /\ record.id \in Nat
    BY <1>0, <2>1, RecordIds DEF OrderInv, TypeOK
  <2>3. Held = 1 /\ Held' = 0 /\ Floor = record.id /\ Floor' = record.id
    BY <2>1 DEF Held, Floor
  <2>4. OrderInv'
    BY <1>0, <2>1, <2>3 DEF OrderInv
  <2>5. delivered' + Held' + ring'.count = delivered + Held + ring.count
    BY <1>0, <2>1, <2>3
  <2>6. AccountInv'
    BY <1>0, <2>1, <2>5 DEF AccountInv
  <2>7. delivered' \in 0..captured' /\ last' \in 0..captured' /\ i' \in 0..budget'
    BY <1>0, <2>1, <2>2, <2>3 DEF AccountInv
  <2>8. TypeOK' /\ LoopInv'
    BY <1>0, <1>7, <2>1, <2>7 DEF RunDispatch, TypeOK, LoopInv
  <2> QED BY <2>4, <2>6, <2>8 DEF Inv
<1>8. ASSUME UNCHANGED vars
      PROVE  Inv'
  BY <1>0, <1>8 DEF vars, Inv, TypeOK, OrderInv, AccountInv, LoopInv, Floor, Held
<1> QED BY <1>1, <1>2, <1>3, <1>4, <1>5, <1>6, <1>7, <1>8 DEF AnyStep, ServiceRun

-----------------------------------------------------------------------------
(* Type correctness: among the rest, no run exceeds its budget and every   *)
(* record handed to a callback is one an ISR pushed.                       *)
THEOREM RecordTypeCorrect == RecordSpec => []TypeOK
<1>1. Inv => TypeOK
  BY DEF Inv
<1> QED BY <1>1, InitInv, NextInv, PTL DEF RecordSpec

(* The numbers in flight, by position.                                     *)
LEMMA InFlightIs ==
  ASSUME Inv
  PROVE  /\ Len(InFlight) = Held + ring.count
         /\ \A k \in 1..Len(InFlight) :
              InFlight[k] = IF k <= Held THEN record.id ELSE Contents(ring)[k - Held].id
<1> DEFINE a == IF record = NoItem THEN << >> ELSE <<record.id>>
           b == [k \in 1..ring.count |-> Contents(ring)[k].id]
<1>1. /\ ring.count \in Nat /\ Contents(ring) \in Seq(Records) /\ Len(Contents(ring)) = ring.count
      /\ record \in Records \cup {NoItem}
  BY InvTypes, ContentsType DEF TypeOK
<1>2. a \in Seq(Nat) /\ Len(a) = Held /\ (Held = 1 => a[1] = record.id) /\ Held \in 0..1
  BY <1>1, RecordIds DEF Held
<1>3. b \in Seq(Nat) /\ Len(b) = ring.count /\ \A k \in 1..ring.count : b[k] = Contents(ring)[k].id
  <2>1. \A k \in 1..ring.count : Contents(ring)[k].id \in Nat
    BY <1>1, RecordIds
  <2>2. b \in [1..ring.count -> Nat]
    BY <2>1
  <2> QED BY <1>1, <2>2
<1>4. InFlight = a \o b
  BY DEF InFlight
<1> HIDE DEF a, b
<1>5. /\ Len(a \o b) = Len(a) + Len(b)
      /\ \A k \in 1..(Len(a) + Len(b)) : (a \o b)[k] = IF k <= Len(a) THEN a[k] ELSE b[k - Len(a)]
  BY <1>2, <1>3, ConcatProperties
<1>6. ASSUME NEW k \in 1..(Held + ring.count)
      PROVE  (a \o b)[k] = IF k <= Held THEN record.id ELSE Contents(ring)[k - Held].id
  <2>1. CASE k <= Held
    <3>1. k = 1 /\ Held = 1
      BY <1>1, <1>2, <2>1
    <3> QED BY <1>2, <1>3, <1>5, <2>1, <3>1
  <2>2. CASE ~(k <= Held)
    <3>1. k - Held \in 1..ring.count
      BY <1>1, <1>2, <2>2
    <3> QED BY <1>2, <1>3, <1>5, <2>2, <3>1
  <2> QED BY <2>1, <2>2
<1> QED BY <1>2, <1>3, <1>4, <1>5, <1>6

(* Records reach the callbacks in the order of their interrupts and none   *)
(* twice, whatever ISRs overwrite in the middle of a run.                  *)
THEOREM RecordsDispatchedInOrder == RecordSpec => []RecordsInOrder
<1>1. Inv => RecordsInOrder
  <2> SUFFICES ASSUME Inv PROVE RecordsInOrder
    OBVIOUS
  <2> DEFINE q == Contents(ring)
             n == ring.count
  <2>1. /\ n \in Nat /\ q \in Seq(Records) /\ Len(q) = n /\ last \in Nat
        /\ Floor \in Nat /\ last <= Floor /\ Held \in 0..1
    BY InvTypes, ContentsType
  <2>2. /\ \A k \in 1..n : Floor < q[k].id /\ q[k].id \in Nat
        /\ \A j, k \in 1..n : j < k => q[j].id < q[k].id
    BY <2>1, RecordIds DEF Inv, OrderInv, Ordered
  <2>3. Held = 1 => Floor = record.id /\ last < record.id
    BY DEF Held, Floor, Inv, OrderInv
  <2>4. /\ Len(InFlight) = Held + n
        /\ \A k \in 1..(Held + n) :
             InFlight[k] = IF k <= Held THEN record.id ELSE q[k - Held].id
    BY InFlightIs
  <2> HIDE DEF q, n
  <2>5. ASSUME NEW k \in 1..(Held + n)
        PROVE  last < InFlight[k]
    <3>1. CASE k <= Held
      BY <2>1, <2>3, <2>4, <3>1
    <3>2. CASE ~(k <= Held)
      <4>1. k - Held \in 1..n
        BY <2>1, <3>2
      <4>2. Floor < q[k - Held].id /\ q[k - Held].id \in Nat /\ InFlight[k] = q[k - Held].id
        BY <2>2, <2>4, <3>2, <4>1
      <4> QED BY <2>1, <4>2
    <3> QED BY <3>1, <3>2
  <2>6. ASSUME NEW k \in 1..((Held + n) - 1)
        PROVE  InFlight[k] < InFlight[k + 1]
    <3>1. k \in 1..(Held + n) /\ k + 1 \in 1..(Held + n) /\ ~(k + 1 <= Held)
      BY <2>1
    <3>2. (k + 1) - Held \in 1..n /\ InFlight[k + 1] = q[(k + 1) - Held].id
      BY <2>1, <2>4, <3>1
    <3>3. CASE k <= Held
      <4>1. InFlight[k] = Floor
        BY <2>1, <2>3, <2>4, <3>1, <3>3
      <4> QED BY <2>2, <3>2, <4>1
    <3>4. CASE ~(k <= Held)
      <4>1. k - Held \in 1..n /\ InFlight[k] = q[k - Held].id /\ k - Held < (k + 1) - Held
        BY <2>1, <2>4, <3>1, <3>4
      <4> QED BY <2>2, <3>2, <4>1
    <3> QED BY <3>3, <3>4
  <2> QED BY <2>1, <2>4, <2>5, <2>6 DEF RecordsInOrder
<1> QED BY <1>1, InitInv, NextInv, PTL DEF RecordSpec

(* Every interrupt since init is dispatched, in flight, or in the reported *)
(* drop count, modulo the width of size_t.                                 *)
THEOREM RecordsNoSilentLoss == RecordSpec => []NoSilentLoss
<1>1. Inv => NoSilentLoss
  <2> SUFFICES ASSUME Inv PROVE NoSilentLoss
    OBVIOUS
  <2>1. /\ RingOK(ring) /\ ring.count \in Nat /\ ring.capacity \in Nat /\ Held \in 0..1
        /\ (SchRingValid(ring) <=> ring.capacity > 0) /\ delivered \in Nat
        /\ ring.drops = (captured - (delivered + Held + ring.count)) % SizeMod
    BY InvTypes DEF AccountInv
  <2>2. ServiceDropCount = ring.drops
    BY <2>1 DEF ServiceDropCount, SchSpscRingDropCount, RingOK
  <2>3. delivered + Len(InFlight) = delivered + Held + ring.count
    <3>1. Len(InFlight) = Held + ring.count
      BY InFlightIs
    <3> QED BY <2>1, <3>1
  <2> QED BY <2>1, <2>2, <2>3 DEF NoSilentLoss
<1> QED BY <1>1, InitInv, NextInv, PTL DEF RecordSpec
=============================================================================
