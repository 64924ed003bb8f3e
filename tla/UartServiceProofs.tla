------------------------- MODULE UartServiceProofs --------------------------
(***************************************************************************)
(* TLAPS proofs about the UART service, for every capacity, budget, number *)
(* of bytes and width of size_t.                                           *)
(***************************************************************************)
EXTENDS UartLatency, SpscRingTheorems

-----------------------------------------------------------------------------
(* The inductive invariant.                                                *)

(* Bytes taken by the transmitter, in flight or still in the ring.         *)
TxSeen == (sent + InFlight) + txRing.count

RxSeen == handed + rxRing.count

(* What is missing was counted, modulo the width of the drop counter.      *)
RxInv ==
  /\ RxSeen <= received
  /\ rxRing.drops = (received - RxSeen) % SizeMod

TxInv ==
  /\ TxSeen <= queued
  /\ txRing.drops = (queued - TxSeen) % SizeMod

(* The transmit side holds only bytes that queue_tx was called with.       *)
TxQueued ==
  /\ Elements(txRing) \subseteq 1..queued
  /\ byte # NoItem => byte \in 1..queued

(* A byte in flight was popped within the budget from a valid ring, where  *)
(* it left a place that only queue_tx can have taken.                      *)
RoomInv ==
  pc \in {"write", "requeue"} =>
    /\ i < maxTxItems
    /\ txRing.capacity > 0
    /\ ~intruded => txRing.count < txRing.capacity

Inv == TypeOK /\ RxInv /\ TxInv /\ TxQueued /\ RoomInv

(* Both rings take every byte.                                             *)
LEMMA BytesPushed ==
  /\ Items = 1..(MaxRx + MaxTx) /\ NoItem \notin 1..(MaxRx + MaxTx)
  /\ MaxRx \in Nat /\ MaxTx \in Nat /\ SizeMod \in Nat \ {0}
BY UartAssumption, RingAssumption DEF Bytes

(* What the invariant says of the types, for the steps below.              *)
LEMMA InvTypes ==
  ASSUME Inv
  PROVE  /\ TypeOK /\ RxInv /\ TxInv /\ TxQueued /\ RoomInv
         /\ RingOK(rxRing) /\ RingOK(txRing)
         /\ rxRing.count \in Nat /\ rxRing.capacity \in Nat /\ rxRing.count <= rxRing.capacity
         /\ (SchRingValid(rxRing) <=> rxRing.capacity > 0)
         /\ txRing.count \in Nat /\ txRing.capacity \in Nat /\ txRing.count <= txRing.capacity
         /\ (SchRingValid(txRing) <=> txRing.capacity > 0)
         /\ received \in Nat /\ handed \in Nat /\ queued \in Nat /\ sent \in Nat
         /\ InFlight \in 0..1 /\ RxSeen \in Nat /\ TxSeen \in Nat
         /\ maxRxItems \in Nat /\ maxTxItems \in Nat
<1>1. /\ TypeOK /\ RxInv /\ TxInv /\ TxQueued /\ RoomInv /\ RingOK(rxRing) /\ RingOK(txRing)
  BY DEF Inv, TypeOK
<1>2. /\ rxRing.count \in Nat /\ rxRing.capacity \in Nat /\ rxRing.count <= rxRing.capacity
      /\ (SchRingValid(rxRing) <=> rxRing.capacity > 0)
  BY <1>1 DEF RingOK, SchRingValid
<1>3. /\ txRing.count \in Nat /\ txRing.capacity \in Nat /\ txRing.count <= txRing.capacity
      /\ (SchRingValid(txRing) <=> txRing.capacity > 0)
  BY <1>1 DEF RingOK, SchRingValid
<1>4. /\ received \in Nat /\ handed \in Nat /\ queued \in Nat /\ sent \in Nat
      /\ maxRxItems \in Nat /\ maxTxItems \in Nat
  BY <1>1, UartAssumption DEF TypeOK
<1>5. InFlight \in 0..1
  BY DEF InFlight
<1>6. RxSeen \in Nat /\ TxSeen \in Nat
  BY <1>2, <1>3, <1>4, <1>5 DEF RxSeen, TxSeen
<1> QED BY <1>1, <1>2, <1>3, <1>4, <1>5, <1>6

(* The invariant at start.                                                 *)
LEMMA InitInv == Init => Inv
<1> SUFFICES ASSUME Init PROVE Inv
  OBVIOUS
<1>1. /\ RingOK(rxRing) /\ rxRing.count = 0 /\ rxRing.drops = 0
      /\ RingOK(txRing) /\ txRing.count = 0 /\ txRing.drops = 0
  BY ZeroRingOK DEF Init
<1>2. Elements(txRing) = {}
  BY <1>1, EmptyElements
<1>3. (0 - 0) % SizeMod = 0
  BY BytesPushed
<1>4. {rxHint, txHint, hint, rxIsr, intruded} \subseteq BOOLEAN
  BY DEF Init
<1>5. TypeOK
  BY <1>1, <1>4, BytesPushed DEF Init, TypeOK
<1>6. RxSeen = 0 /\ TxSeen = 0
  BY <1>1 DEF Init, RxSeen, TxSeen, InFlight
<1>7. RxInv /\ TxInv
  BY <1>1, <1>3, <1>6 DEF Init, RxInv, TxInv
<1>8. TxQueued /\ RoomInv
  BY <1>2 DEF Init, TxQueued, RoomInv
<1> QED BY <1>5, <1>7, <1>8 DEF Inv

-----------------------------------------------------------------------------
(* The steps on the rings.                                                 *)

(* A received byte is buffered, or costs one that is counted.              *)
LEMMA RxPush ==
  ASSUME Inv, SchUartIsrRxPush
  PROVE  /\ RingOK(rxRing') /\ RxInv'
         /\ received' \in 0..MaxRx /\ handed' \in 0..received'
<1> DEFINE r == rxRing
           n == received + 1
           lost == received - RxSeen
<1>0. /\ TypeOK /\ RxInv /\ RingOK(r) /\ r.count \in Nat /\ r.capacity \in Nat
      /\ r.count <= r.capacity /\ (SchRingValid(r) <=> r.capacity > 0)
      /\ received \in Nat /\ handed \in Nat /\ RxSeen \in Nat
      /\ MaxRx \in Nat /\ MaxTx \in Nat /\ SizeMod \in Nat \ {0}
  BY InvTypes, BytesPushed
<1>1. /\ r' = SchSpscRingPushIsr(r, n) /\ received < MaxRx /\ handed' = handed
      /\ received' = IF SchRingValid(r) THEN n ELSE received
  BY DEF SchUartIsrRxPush
<1>2. n \in Items
  BY <1>0, <1>1, BytesPushed
<1>3. RingOK(r')
  BY <1>0, <1>1, <1>2, PushEffect
<1>4. received' \in 0..MaxRx /\ handed' \in 0..received'
  <2>1. handed \in 0..received
    BY <1>0 DEF TypeOK
  <2> QED BY <1>0, <1>1, <2>1
<1>5. CASE r.capacity = 0
  <2>1. r' = r /\ received' = received
    BY <1>0, <1>1, <1>2, <1>5, PushEffect
  <2>2. RxSeen' = RxSeen
    BY <1>1, <2>1 DEF RxSeen
  <2> QED BY <1>0, <1>3, <1>4, <2>1, <2>2 DEF RxInv
<1>6. CASE r.count < r.capacity
  <2>1. r'.count = r.count + 1 /\ r'.drops = r.drops /\ received' = received + 1
    BY <1>0, <1>1, <1>2, <1>6, PushEffect
  <2>2. RxSeen' = RxSeen + 1
    BY <1>0, <1>1, <2>1 DEF RxSeen
  <2>3. RxSeen' <= received' /\ received' - RxSeen' = received - RxSeen
    BY <1>0, <2>1, <2>2 DEF RxInv
  <2> QED BY <1>0, <1>3, <1>4, <2>1, <2>3 DEF RxInv
<1>7. CASE r.capacity > 0 /\ r.count = r.capacity
  <2>1. r'.count = r.count /\ r'.drops = (r.drops + 1) % SizeMod /\ received' = received + 1
    BY <1>0, <1>1, <1>2, <1>7, PushEffect
  <2>2. RxSeen' = RxSeen
    BY <1>1, <2>1 DEF RxSeen
  <2>3. RxSeen <= received /\ r.drops = lost % SizeMod
    BY <1>0 DEF RxInv
  <2>4. RxSeen' <= received' /\ received' - RxSeen' = lost + 1 /\ lost \in Int
    BY <1>0, <2>1, <2>2, <2>3
  <2> HIDE DEF lost
  <2>5. ((lost % SizeMod) + 1) % SizeMod = (lost + 1) % SizeMod
    BY <1>0, <2>4, ModSucc
  <2> QED BY <1>3, <1>4, <2>1, <2>3, <2>4, <2>5 DEF RxInv
<1> QED BY <1>0, <1>5, <1>6, <1>7

(* The run takes a received byte.                                          *)
LEMMA RxPop ==
  ASSUME Inv, RunPopRx
  PROVE  /\ RingOK(rxRing') /\ RxInv'
         /\ received' \in 0..MaxRx /\ handed' \in 0..received'
<1> DEFINE r == rxRing
<1>0. /\ TypeOK /\ RxInv /\ RingOK(r) /\ r.count \in Nat
      /\ received \in Nat /\ handed \in Nat /\ RxSeen \in Nat /\ MaxRx \in Nat
  BY InvTypes, BytesPushed
<1>1. /\ PopSucceeds(r) /\ r' = SchSpscRingPopTask(r)
      /\ handed' = handed + 1 /\ received' = received
  BY DEF RunPopRx
<1>2. RingOK(r') /\ r'.drops = r.drops /\ r'.count = r.count - 1 /\ r.count # 0
  BY <1>0, <1>1, PopEffect DEF PopSucceeds
<1>3. RxSeen' = RxSeen
  BY <1>0, <1>1, <1>2 DEF RxSeen
<1>4. handed + r.count <= received
  BY <1>0 DEF RxInv, RxSeen
<1>5. handed' \in 0..received'
  BY <1>0, <1>1, <1>2, <1>4
<1>6. received' \in 0..MaxRx
  BY <1>0, <1>1 DEF TypeOK
<1> QED BY <1>0, <1>1, <1>2, <1>3, <1>5, <1>6 DEF RxInv

(* A push to the transmit ring, by queue_tx or after a refused write: the  *)
(* ring gains the byte or counts a loss, and holds no byte from nowhere.   *)
LEMMA TxPush ==
  ASSUME Inv, NEW b \in Items, txRing' = SchSpscRingPushIsr(txRing, b), txRing.capacity > 0
  PROVE  /\ RingOK(txRing') /\ txRing'.capacity = txRing.capacity
         /\ Elements(txRing') \subseteq Elements(txRing) \cup {b}
         /\ \/ txRing'.count = txRing.count + 1 /\ txRing'.drops = txRing.drops
            \/ txRing'.count = txRing.count /\ txRing'.drops = (txRing.drops + 1) % SizeMod
<1>0. RingOK(txRing) /\ txRing.count \in Nat /\ txRing.capacity \in Nat
      /\ txRing.count <= txRing.capacity
  BY InvTypes
<1>1. RingOK(txRing') /\ txRing'.capacity = txRing.capacity
  BY <1>0, PushEffect
<1>2. Elements(txRing') \subseteq Elements(txRing) \cup {b}
  BY <1>0, PushElements
<1>3. CASE txRing.count < txRing.capacity
  BY <1>0, <1>1, <1>2, <1>3, PushEffect
<1>4. CASE txRing.count = txRing.capacity
  BY <1>0, <1>1, <1>2, <1>4, PushEffect
<1> QED BY <1>0, <1>3, <1>4

(* Bytes known to the transmit side after such a push, n of which are new  *)
(* calls of queue_tx and m of which were in flight.                        *)
LEMMA TxAccount ==
  ASSUME Inv, NEW n \in 0..1, NEW m \in 0..1, n + m = 1,
         queued' = queued + n, sent' = sent, InFlight = InFlight' + m,
         InFlight' \in 0..1,
         \/ txRing'.count = txRing.count + 1 /\ txRing'.drops = txRing.drops
         \/ txRing'.count = txRing.count /\ txRing'.drops = (txRing.drops + 1) % SizeMod
  PROVE  TxInv'
<1> DEFINE lost == queued - TxSeen
<1>0. /\ TxInv /\ txRing.count \in Nat /\ queued \in Nat /\ sent \in Nat /\ TxSeen \in Nat
      /\ SizeMod \in Nat \ {0} /\ InFlight \in 0..1
  BY InvTypes, BytesPushed
<1>1. TxSeen <= queued /\ txRing.drops = lost % SizeMod
  BY <1>0 DEF TxInv
<1>2. CASE txRing'.count = txRing.count + 1 /\ txRing'.drops = txRing.drops
  <2>1. TxSeen' = TxSeen + n
    BY <1>0, <1>2 DEF TxSeen
  <2>2. TxSeen' <= queued' /\ queued' - TxSeen' = lost
    BY <1>0, <1>1, <2>1
  <2> QED BY <1>1, <1>2, <2>2 DEF TxInv
<1>3. CASE txRing'.count = txRing.count /\ txRing'.drops = (txRing.drops + 1) % SizeMod
  <2>1. TxSeen' = TxSeen - m
    BY <1>0, <1>3 DEF TxSeen
  <2>2. TxSeen' <= queued' /\ queued' - TxSeen' = lost + 1 /\ lost \in Int
    BY <1>0, <1>1, <2>1
  <2> HIDE DEF lost
  <2>3. ((lost % SizeMod) + 1) % SizeMod = (lost + 1) % SizeMod
    BY <1>0, <2>2, ModSucc
  <2> QED BY <1>1, <1>3, <2>2, <2>3 DEF TxInv
<1> QED BY <1>2, <1>3

-----------------------------------------------------------------------------
(* A new init: each ring restarts empty, or is left as it was.             *)
LEMMA InitStep ==
  ASSUME Inv, NEW rc \in RxCapacities, NEW tc \in TxCapacities,
         NEW rb \in RxBudgets, NEW tb \in TxBudgets,
         SchUartServiceInit(rc, tc, rb, tb)
  PROVE  Inv'
<1>0. TypeOK /\ RxInv /\ TxInv /\ TxQueued /\ RingOK(rxRing) /\ RingOK(txRing)
  BY InvTypes
<1>1. rc \in Nat /\ tc \in Nat
  BY UartAssumption
<1>2. /\ pc = "idle" /\ pc' = "idle" /\ i' = i /\ hint' = hint /\ byte' = byte
      /\ rxIsr' = rxIsr /\ rxHint' = FALSE /\ txHint' = FALSE /\ intruded' = intruded
      /\ maxRxItems' = rb /\ maxTxItems' = tb
  BY DEF SchUartServiceInit, runVars, txHist
<1>3. byte = NoItem /\ InFlight = 0 /\ InFlight' = 0 /\ i = 0
  BY <1>0, <1>2 DEF TypeOK, InFlight
<1>4. (0 - 0) % SizeMod = 0
  BY BytesPushed
<1>5. /\ RingOK(rxRing') /\ RxInv' /\ received' \in 0..MaxRx /\ handed' \in 0..received'
  <2>1. CASE InitArgsValid(rc, DROP_OLDEST)
    <3>1. rxRing' = SchSpscRingInit(rc, DROP_OLDEST) /\ received' = 0 /\ handed' = 0
      BY <2>1 DEF SchUartServiceInit
    <3>2. rc \in Nat \ {0} /\ DROP_OLDEST \in OverflowModes
      BY <1>1, <2>1 DEF InitArgsValid, OverflowModes
    <3>3. RingOK(rxRing') /\ rxRing'.drops = 0 /\ rxRing'.count = 0
      BY <3>1, <3>2, InitEffect
    <3>4. RxSeen' = 0
      BY <3>1, <3>3 DEF RxSeen
    <3> QED BY <1>4, <3>1, <3>3, <3>4, BytesPushed DEF RxInv
  <2>2. CASE ~InitArgsValid(rc, DROP_OLDEST)
    <3>1. rxRing' = rxRing /\ received' = received /\ handed' = handed
      BY <2>2 DEF SchUartServiceInit, rxHist
    <3> QED BY <1>0, <3>1 DEF RxInv, RxSeen, TypeOK
  <2> QED BY <2>1, <2>2
<1>6. /\ RingOK(txRing') /\ TxInv' /\ TxQueued'
      /\ queued' \in 0..MaxTx /\ sent' \in 0..queued' /\ lastSent' \in 0..queued'
  <2>1. CASE InitArgsValid(tc, DROP_NEWEST)
    <3>1. /\ txRing' = SchSpscRingInit(tc, DROP_NEWEST)
          /\ queued' = 0 /\ sent' = 0 /\ lastSent' = 0
      BY <2>1 DEF SchUartServiceInit
    <3>2. tc \in Nat \ {0} /\ DROP_NEWEST \in OverflowModes
      BY <1>1, <2>1 DEF InitArgsValid, OverflowModes
    <3>3. RingOK(txRing') /\ txRing'.drops = 0 /\ txRing'.count = 0
      BY <3>1, <3>2, InitEffect
    <3>4. TxSeen' = 0
      BY <1>3, <3>1, <3>3 DEF TxSeen
    <3>5. Elements(txRing') = {}
      BY <3>3, EmptyElements
    <3>6. TxQueued'
      BY <1>2, <1>3, <3>5 DEF TxQueued
    <3> QED BY <1>4, <3>1, <3>3, <3>4, <3>6, BytesPushed DEF TxInv
  <2>2. CASE ~InitArgsValid(tc, DROP_NEWEST)
    <3>1. txRing' = txRing /\ queued' = queued /\ sent' = sent /\ lastSent' = lastSent
      BY <2>2 DEF SchUartServiceInit, txHist
    <3>2. TxInv'
      BY <1>0, <1>3, <3>1 DEF TxInv, TxSeen
    <3>3. TxQueued'
      BY <1>0, <1>2, <3>1 DEF TxQueued
    <3> QED BY <1>0, <3>1, <3>2, <3>3 DEF TypeOK
  <2> QED BY <2>1, <2>2
<1>7. {rxHint', txHint', hint', rxIsr', intruded'} \subseteq BOOLEAN
  BY <1>0, <1>2 DEF TypeOK
<1>8. TypeOK'
  BY <1>2, <1>3, <1>5, <1>6, <1>7 DEF TypeOK
<1> QED BY <1>2, <1>5, <1>6, <1>8 DEF Inv, RoomInv

(* What a step that leaves a ring and its history alone keeps.             *)
LEMMA Untouched ==
  ASSUME Inv
  PROVE  /\ UNCHANGED <<rxRing, rxHist>> => RxInv'
         /\ UNCHANGED <<txRing, byte, queued, sent>> => TxInv' /\ TxQueued'
<1>1. RxInv /\ TxInv /\ TxQueued
  BY DEF Inv
<1>2. UNCHANGED <<rxRing, rxHist>> => RxInv'
  BY <1>1 DEF RxInv, RxSeen, rxHist
<1>3. UNCHANGED <<txRing, byte, queued, sent>> => TxInv'
  BY <1>1 DEF TxInv, TxSeen, InFlight
<1>4. UNCHANGED <<txRing, byte, queued, sent>> => TxQueued'
  BY <1>1 DEF TxQueued
<1> QED BY <1>2, <1>3, <1>4

(* queue_tx: whatever the ring does with the byte is accounted for.        *)
LEMMA QueueTxStep ==
  ASSUME Inv, SchUartServiceQueueTx
  PROVE  Inv'
<1> DEFINE n == queued + 1
<1>0. /\ TypeOK /\ TxQueued /\ RoomInv /\ RingOK(txRing) /\ queued \in Nat /\ InFlight \in 0..1
      /\ MaxTx \in Nat /\ MaxRx \in Nat /\ (SchRingValid(txRing) <=> txRing.capacity > 0)
  BY InvTypes, BytesPushed
<1>1. /\ UNCHANGED <<rxRing, rxHint, txHint, maxRxItems, maxTxItems, pc, hint, i, byte, rxIsr,
                     rxHist, sent, lastSent>>
      /\ SchRingValid(txRing) /\ queued < MaxTx /\ queued' = n
      /\ txRing' = SchSpscRingPushIsr(txRing, n) /\ intruded' = (byte # NoItem)
  BY DEF SchUartServiceQueueTx, runVars
<1>2. n \in Items /\ txRing.capacity > 0
  BY <1>0, <1>1, BytesPushed
<1>3. /\ RingOK(txRing') /\ txRing'.capacity = txRing.capacity
      /\ Elements(txRing') \subseteq Elements(txRing) \cup {n}
      /\ \/ txRing'.count = txRing.count + 1 /\ txRing'.drops = txRing.drops
         \/ txRing'.count = txRing.count /\ txRing'.drops = (txRing.drops + 1) % SizeMod
  BY <1>1, <1>2, TxPush
<1>4. TxInv'
  <2>1. InFlight' = InFlight /\ InFlight = InFlight' + 0 /\ InFlight' \in 0..1
    BY <1>0, <1>1 DEF InFlight
  <2>2. queued' = queued + 1 /\ 1 + 0 = 1 /\ sent' = sent
    BY <1>1
  <2> QED BY <1>3, <2>1, <2>2, TxAccount
<1>5. TxQueued'
  <2>1. 1..queued \subseteq 1..n /\ n \in 1..n
    BY <1>0
  <2> QED BY <1>0, <1>1, <1>3, <2>1 DEF TxQueued
<1>6. RxInv'
  BY <1>1, Untouched
<1>7. RoomInv'
  BY <1>0, <1>1, <1>3 DEF RoomInv, TypeOK
<1>8. {rxHint', txHint', hint', rxIsr', intruded'} \subseteq BOOLEAN
  BY <1>0, <1>1 DEF TypeOK
<1>9. queued' \in 0..MaxTx /\ sent' \in 0..queued' /\ lastSent' \in 0..queued'
  BY <1>0, <1>1 DEF TypeOK
<1>10. TypeOK'
  BY <1>0, <1>1, <1>3, <1>8, <1>9 DEF TypeOK, rxHist
<1> QED BY <1>4, <1>5, <1>6, <1>7, <1>10 DEF Inv

(* The run pops the next byte to send: it leaves a free place behind.      *)
LEMMA PopTxStep ==
  ASSUME Inv, RunPopTx
  PROVE  Inv'
<1> DEFINE b == PoppedItem(txRing)
<1>0. /\ TypeOK /\ TxInv /\ TxQueued /\ RingOK(txRing) /\ queued \in Nat /\ sent \in Nat
      /\ txRing.count \in Nat /\ txRing.capacity \in Nat /\ txRing.count <= txRing.capacity
      /\ MaxTx \in Nat /\ MaxRx \in Nat /\ (SchRingValid(txRing) <=> txRing.capacity > 0)
  BY InvTypes, BytesPushed
<1>1. /\ UNCHANGED <<rxRing, rxHint, txHint, maxRxItems, maxTxItems, hint, i, rxIsr, rxHist,
                     queued, sent, lastSent, intruded>>
      /\ pc = "tx" /\ pc' = "write" /\ i < maxTxItems /\ byte' = b
      /\ PopSucceeds(txRing) /\ txRing' = SchSpscRingPopTask(txRing)
  BY DEF RunPopTx, txHist
<1>2. /\ RingOK(txRing') /\ txRing'.drops = txRing.drops /\ txRing'.count = txRing.count - 1
      /\ txRing'.capacity = txRing.capacity /\ b \in Items /\ txRing.count # 0
  BY <1>0, <1>1, PopEffect DEF PopSucceeds
<1>3. Elements(txRing') \subseteq Elements(txRing) /\ b \in Elements(txRing)
  BY <1>0, <1>1, PopElements
<1>4. b \in Bytes /\ b # NoItem
  BY <1>2, BytesPushed DEF Bytes
<1>5. InFlight = 0 /\ InFlight' = 1
  BY <1>0, <1>1, <1>4 DEF TypeOK, InFlight
<1>6. TxSeen' = TxSeen
  BY <1>0, <1>1, <1>2, <1>5 DEF TxSeen
<1>7. TxInv'
  BY <1>0, <1>1, <1>2, <1>6 DEF TxInv
<1>8. TxQueued'
  BY <1>0, <1>1, <1>3 DEF TxQueued
<1>9. RxInv'
  BY <1>1, Untouched
<1>10. RoomInv'
  BY <1>0, <1>1, <1>2 DEF RoomInv
<1>11. {rxHint', txHint', hint', rxIsr', intruded'} \subseteq BOOLEAN
  BY <1>0, <1>1 DEF TypeOK
<1>12. TypeOK'
  BY <1>0, <1>1, <1>2, <1>4, <1>11 DEF TypeOK, rxHist
<1> QED BY <1>7, <1>8, <1>9, <1>10, <1>12 DEF Inv

(* The transmitter takes the byte.                                         *)
LEMMA WriteAcceptedStep ==
  ASSUME Inv, RunWriteAccepted
  PROVE  Inv'
<1>0. /\ TypeOK /\ TxInv /\ TxQueued /\ RoomInv /\ queued \in Nat /\ sent \in Nat
      /\ txRing.count \in Nat /\ maxTxItems \in Nat
  BY InvTypes
<1>1. /\ UNCHANGED <<rxRing, txRing, rxHint, txHint, maxRxItems, maxTxItems, hint, rxIsr,
                     rxHist, queued>>
      /\ pc = "write" /\ pc' = "tx" /\ i' = i + 1 /\ byte' = NoItem
      /\ sent' = sent + 1 /\ lastSent' = byte /\ intruded' = FALSE
  BY DEF RunWriteAccepted, serviceVars
<1>2. byte # NoItem /\ InFlight = 1 /\ InFlight' = 0
  BY <1>0, <1>1 DEF TypeOK, InFlight
<1>3. i \in 0..maxTxItems /\ i < maxTxItems
  BY <1>0, <1>1 DEF TypeOK, RoomInv
<1>4. TxSeen' = TxSeen
  BY <1>0, <1>1, <1>2 DEF TxSeen
<1>5. TxInv'
  BY <1>0, <1>1, <1>4 DEF TxInv
<1>6. TxQueued'
  BY <1>0, <1>1 DEF TxQueued
<1>7. RxInv'
  BY <1>1, Untouched
<1>8. sent' \in 0..queued
  <2>1. (sent + 1) + txRing.count <= queued
    BY <1>0, <1>2 DEF TxInv, TxSeen
  <2> QED BY <1>0, <1>1, <2>1
<1>9. lastSent' \in 0..queued
  BY <1>0, <1>1, <1>2 DEF TxQueued
<1>10. {rxHint', txHint', hint', rxIsr', intruded'} \subseteq BOOLEAN
  BY <1>0, <1>1 DEF TypeOK
<1>11. TypeOK'
  BY <1>0, <1>1, <1>3, <1>8, <1>9, <1>10 DEF TypeOK, rxHist
<1> QED BY <1>1, <1>5, <1>6, <1>7, <1>11 DEF Inv, RoomInv

(* The refused byte is pushed back.                                        *)
LEMMA RequeueStep ==
  ASSUME Inv, RunRequeue
  PROVE  Inv'
<1>0. /\ TypeOK /\ TxQueued /\ RoomInv /\ RingOK(txRing) /\ queued \in Nat /\ sent \in Nat
      /\ MaxTx \in Nat /\ MaxRx \in Nat /\ maxRxItems \in Nat
  BY InvTypes, BytesPushed
<1>1. /\ UNCHANGED <<rxRing, rxHint, txHint, maxRxItems, maxTxItems, hint, rxIsr, rxHist,
                     queued, sent, lastSent>>
      /\ pc = "requeue" /\ pc' = "rx" /\ i' = 0 /\ byte' = NoItem /\ intruded' = FALSE
      /\ txRing' = SchSpscRingPushIsr(txRing, byte)
  BY DEF RunRequeue
<1>2. byte # NoItem /\ InFlight = 1 /\ InFlight' = 0 /\ byte \in Bytes
  BY <1>0, <1>1 DEF TypeOK, InFlight
<1>3. byte \in Items /\ txRing.capacity > 0
  BY <1>0, <1>1, <1>2, BytesPushed DEF RoomInv, Bytes
<1>4. /\ RingOK(txRing')
      /\ Elements(txRing') \subseteq Elements(txRing) \cup {byte}
      /\ \/ txRing'.count = txRing.count + 1 /\ txRing'.drops = txRing.drops
         \/ txRing'.count = txRing.count /\ txRing'.drops = (txRing.drops + 1) % SizeMod
  BY <1>1, <1>3, TxPush
<1>5. TxInv'
  <2>1. InFlight = InFlight' + 1 /\ InFlight' \in 0..1 /\ 0 + 1 = 1
    BY <1>2
  <2>2. queued' = queued + 0 /\ sent' = sent
    BY <1>0, <1>1
  <2> QED BY <1>4, <2>1, <2>2, TxAccount
<1>6. TxQueued'
  BY <1>0, <1>1, <1>2, <1>4 DEF TxQueued
<1>7. RxInv'
  BY <1>1, Untouched
<1>8. {rxHint', txHint', hint', rxIsr', intruded'} \subseteq BOOLEAN
  BY <1>0, <1>1 DEF TypeOK
<1>9. TypeOK'
  BY <1>0, <1>1, <1>4, <1>8 DEF TypeOK, rxHist
<1> QED BY <1>1, <1>5, <1>6, <1>7, <1>9 DEF Inv, RoomInv

(* Every step keeps the invariant.                                         *)
LEMMA NextInv == Inv /\ [Next]_vars => Inv'
<1> SUFFICES ASSUME Inv, [Next]_vars PROVE Inv'
  OBVIOUS
<1>0. /\ TypeOK /\ RoomInv /\ maxRxItems \in Nat /\ maxTxItems \in Nat
  BY InvTypes
<1>1. CASE \E rc \in RxCapacities, tc \in TxCapacities, rb \in RxBudgets, tb \in TxBudgets :
              SchUartServiceInit(rc, tc, rb, tb)
  BY <1>1, InitStep
<1>2. CASE SchUartIsrRxPush
  <2>1. /\ UNCHANGED <<txRing, rxHint, txHint, maxRxItems, maxTxItems, pc, hint, i, byte,
                       queued, sent, lastSent, intruded>>
        /\ rxIsr' = TRUE
    BY <1>2 DEF SchUartIsrRxPush, runVars, txHist
  <2>2. RingOK(rxRing') /\ RxInv' /\ received' \in 0..MaxRx /\ handed' \in 0..received'
    BY <1>2, RxPush
  <2>3. TxInv' /\ TxQueued'
    BY <2>1, Untouched
  <2>4. {rxHint', txHint', hint', rxIsr', intruded'} \subseteq BOOLEAN
    BY <1>0, <2>1 DEF TypeOK
  <2>5. TypeOK'
    BY <1>0, <2>1, <2>2, <2>4 DEF TypeOK
  <2> QED BY <1>0, <2>1, <2>2, <2>3, <2>5 DEF Inv, RoomInv
<1>3. CASE SchUartIsrRxHint
  <2>1. /\ UNCHANGED <<rxRing, txRing, txHint, maxRxItems, maxTxItems, pc, hint, i, byte,
                       rxHist, queued, sent, lastSent, intruded>>
        /\ rxHint' = TRUE /\ rxIsr' = FALSE
    BY <1>3 DEF SchUartIsrRxHint, runVars, txHist
  <2>2. RxInv' /\ TxInv' /\ TxQueued'
    BY <2>1, Untouched
  <2>3. {rxHint', txHint', hint', rxIsr', intruded'} \subseteq BOOLEAN
    BY <1>0, <2>1 DEF TypeOK
  <2>4. TypeOK'
    BY <1>0, <2>1, <2>3 DEF TypeOK, rxHist
  <2> QED BY <1>0, <2>1, <2>2, <2>4 DEF Inv, RoomInv
<1>4. CASE SchUartIsrTxReady
  <2>1. /\ UNCHANGED <<rxRing, txRing, rxHint, maxRxItems, maxTxItems, pc, hint, i, byte,
                       rxIsr, rxHist, queued, sent, lastSent, intruded>>
        /\ txHint' = TRUE
    BY <1>4 DEF SchUartIsrTxReady, runVars, txHist
  <2>2. RxInv' /\ TxInv' /\ TxQueued'
    BY <2>1, Untouched
  <2>3. {rxHint', txHint', hint', rxIsr', intruded'} \subseteq BOOLEAN
    BY <1>0, <2>1 DEF TypeOK
  <2>4. TypeOK'
    BY <1>0, <2>1, <2>3 DEF TypeOK, rxHist
  <2> QED BY <1>0, <2>1, <2>2, <2>4 DEF Inv, RoomInv
<1>5. CASE SchUartServiceQueueTx
  BY <1>5, QueueTxStep
<1>6. CASE RunTakeHints
  <2>1. /\ UNCHANGED <<rxRing, txRing, maxRxItems, maxTxItems, i, byte, rxIsr, rxHist,
                       queued, sent, lastSent, intruded>>
        /\ hint' = (rxHint \/ txHint) /\ rxHint' = FALSE /\ txHint' = FALSE
        /\ pc = "idle" /\ pc' = "check"
    BY <1>6 DEF RunTakeHints, txHist
  <2>2. RxInv' /\ TxInv' /\ TxQueued'
    BY <2>1, Untouched
  <2>3. {rxHint', txHint', hint', rxIsr', intruded'} \subseteq BOOLEAN
    BY <1>0, <2>1 DEF TypeOK
  <2>4. TypeOK'
    BY <1>0, <2>1, <2>3 DEF TypeOK, rxHist
  <2> QED BY <1>0, <2>1, <2>2, <2>4 DEF Inv, RoomInv
<1>7. CASE RunCheck
  <2>1. /\ UNCHANGED <<rxRing, txRing, rxHint, txHint, maxRxItems, maxTxItems, i, byte,
                       rxIsr, rxHist, queued, sent, lastSent, intruded>>
        /\ hint' = FALSE /\ pc = "check" /\ pc' \in {"idle", "tx"}
    BY <1>7 DEF RunCheck, serviceVars, txHist
  <2>2. RxInv' /\ TxInv' /\ TxQueued'
    BY <2>1, Untouched
  <2>3. {rxHint', txHint', hint', rxIsr', intruded'} \subseteq BOOLEAN
    BY <1>0, <2>1 DEF TypeOK
  <2>4. TypeOK'
    BY <1>0, <2>1, <2>3 DEF TypeOK, rxHist
  <2> QED BY <1>0, <2>1, <2>2, <2>4 DEF Inv, RoomInv
<1>8. CASE RunPopTx
  BY <1>8, PopTxStep
<1>9. CASE RunWriteAccepted
  BY <1>9, WriteAcceptedStep
<1>10. CASE RunWriteRefused
  <2>1. /\ UNCHANGED <<rxRing, txRing, rxHint, txHint, maxRxItems, maxTxItems, hint, i,
                       byte, rxIsr, rxHist, queued, sent, lastSent, intruded>>
        /\ pc = "write" /\ pc' = "requeue"
    BY <1>10 DEF RunWriteRefused, serviceVars, txHist
  <2>2. RxInv' /\ TxInv' /\ TxQueued'
    BY <2>1, Untouched
  <2>3. {rxHint', txHint', hint', rxIsr', intruded'} \subseteq BOOLEAN
    BY <1>0, <2>1 DEF TypeOK
  <2>4. TypeOK'
    BY <1>0, <2>1, <2>3 DEF TypeOK, rxHist
  <2> QED BY <1>0, <2>1, <2>2, <2>4 DEF Inv, RoomInv
<1>11. CASE RunRequeue
  BY <1>11, RequeueStep
<1>12. CASE RunTxEnd
  <2>1. /\ UNCHANGED <<rxRing, txRing, rxHint, txHint, maxRxItems, maxTxItems, hint,
                       byte, rxIsr, rxHist, queued, sent, lastSent, intruded>>
        /\ pc = "tx" /\ pc' = "rx" /\ i' = 0
    BY <1>12 DEF RunTxEnd, serviceVars, txHist
  <2>2. RxInv' /\ TxInv' /\ TxQueued'
    BY <2>1, Untouched
  <2>3. {rxHint', txHint', hint', rxIsr', intruded'} \subseteq BOOLEAN
    BY <1>0, <2>1 DEF TypeOK
  <2>4. TypeOK'
    BY <1>0, <2>1, <2>3 DEF TypeOK, rxHist
  <2> QED BY <1>0, <2>1, <2>2, <2>4 DEF Inv, RoomInv
<1>13. CASE RunPopRx
  <2>1. /\ UNCHANGED <<txRing, rxHint, txHint, maxRxItems, maxTxItems, pc, hint, byte, rxIsr,
                       queued, sent, lastSent, intruded>>
        /\ pc = "rx" /\ i < maxRxItems /\ i' = i + 1
    BY <1>13 DEF RunPopRx, txHist
  <2>2. RingOK(rxRing') /\ RxInv' /\ received' \in 0..MaxRx /\ handed' \in 0..received'
    BY <1>13, RxPop
  <2>3. TxInv' /\ TxQueued'
    BY <2>1, Untouched
  <2>4. {rxHint', txHint', hint', rxIsr', intruded'} \subseteq BOOLEAN
    BY <1>0, <2>1 DEF TypeOK
  <2>5. TypeOK'
    BY <1>0, <2>1, <2>2, <2>4 DEF TypeOK
  <2> QED BY <2>1, <2>2, <2>3, <2>5 DEF Inv, RoomInv
<1>14. CASE RunEnd
  <2>1. /\ UNCHANGED <<rxRing, txRing, rxHint, txHint, maxRxItems, maxTxItems, hint,
                       byte, rxIsr, rxHist, queued, sent, lastSent, intruded>>
        /\ pc = "rx" /\ pc' = "idle" /\ i' = 0
    BY <1>14 DEF RunEnd, serviceVars, txHist
  <2>2. RxInv' /\ TxInv' /\ TxQueued'
    BY <2>1, Untouched
  <2>3. {rxHint', txHint', hint', rxIsr', intruded'} \subseteq BOOLEAN
    BY <1>0, <2>1 DEF TypeOK
  <2>4. TypeOK'
    BY <1>0, <2>1, <2>3 DEF TypeOK, rxHist
  <2> QED BY <1>0, <2>1, <2>2, <2>4 DEF Inv, RoomInv
<1>15. CASE UNCHANGED vars
  <2>1. /\ UNCHANGED <<rxRing, txRing, rxHint, txHint, maxRxItems, maxTxItems, pc, hint,
                       i, byte, rxIsr, rxHist, queued, sent, lastSent, intruded>>
    BY <1>15 DEF vars, serviceVars, runVars, txHist
  <2>2. RxInv' /\ TxInv' /\ TxQueued'
    BY <2>1, Untouched
  <2>3. {rxHint', txHint', hint', rxIsr', intruded'} \subseteq BOOLEAN
    BY <1>0, <2>1 DEF TypeOK
  <2>4. TypeOK'
    BY <1>0, <2>1, <2>3 DEF TypeOK, rxHist
  <2> QED BY <1>0, <2>1, <2>2, <2>4 DEF Inv, RoomInv
<1> QED
  BY <1>1, <1>2, <1>3, <1>4, <1>5, <1>6, <1>7, <1>8, <1>9, <1>10, <1>11, <1>12, <1>13, <1>14,
     <1>15
  DEF Next, SchUartServiceRun

(* The invariant holds throughout.                                         *)
LEMMA InvHolds == Spec => []Inv
BY InitInv, NextInv, PTL DEF Spec

-----------------------------------------------------------------------------
(* What the invariant gives.                                               *)

(* The service keeps its types, whatever init was given and however the    *)
(* interrupts fall between its steps.                                      *)
THEOREM UartTypeCorrect == Spec => []TypeOK
<1>1. Inv => TypeOK
  BY DEF Inv
<1> QED BY <1>1, InvHolds, PTL

(* Every byte is passed on, buffered, in flight or counted as dropped, a   *)
(* byte pushed back after a refused write included, as long as fewer bytes *)
(* pass between two inits than the drop counters can count.                *)
THEOREM UartByteAccounting ==
  ASSUME MaxRx < SizeMod, MaxTx < SizeMod
  PROVE  Spec => []ByteAccounting
<1>1. ASSUME Inv PROVE ByteAccounting
  <2>0. /\ TypeOK /\ RxInv /\ TxInv /\ RingOK(rxRing) /\ RingOK(txRing)
        /\ rxRing.count \in Nat /\ rxRing.capacity \in Nat
        /\ (SchRingValid(rxRing) <=> rxRing.capacity > 0)
        /\ txRing.count \in Nat /\ txRing.capacity \in Nat
        /\ (SchRingValid(txRing) <=> txRing.capacity > 0)
        /\ received \in Nat /\ handed \in Nat /\ queued \in Nat /\ sent \in Nat
        /\ InFlight \in 0..1 /\ RxSeen \in Nat /\ TxSeen \in Nat
        /\ MaxRx \in Nat /\ MaxTx \in Nat /\ SizeMod \in Nat \ {0}
    BY <1>1, InvTypes, BytesPushed
  <2>1. \A r : RingOK(r) => /\ SchSpscRingSize(r) = r.count
                            /\ SchSpscRingDropCount(r) = r.drops
    <3> SUFFICES ASSUME NEW r, RingOK(r)
                 PROVE  SchSpscRingSize(r) = r.count /\ SchSpscRingDropCount(r) = r.drops
      OBVIOUS
    <3>1. CASE r.capacity = 0
      BY <3>1 DEF RingOK, SchRingValid, SchSpscRingSize, SchSpscRingDropCount
    <3>2. CASE r.capacity > 0
      BY <3>2 DEF RingOK, SchRingValid, SchSpscRingSize, SchSpscRingDropCount
    <3>3. r.capacity \in Nat
      BY DEF RingOK
    <3> QED BY <3>1, <3>2, <3>3
  <2>2. received <= MaxRx /\ queued <= MaxTx
    BY <2>0 DEF TypeOK
  <2>3. \A x \in 0..(SizeMod - 1) : x % SizeMod = x
    BY <2>0
  <2>4. RxSeen <= received /\ rxRing.drops = (received - RxSeen) % SizeMod
    BY <2>0 DEF RxInv
  <2>5. TxSeen <= queued /\ txRing.drops = (queued - TxSeen) % SizeMod
    BY <2>0 DEF TxInv
  <2>6. received - RxSeen \in 0..(SizeMod - 1)
    BY <2>0, <2>2, <2>4
  <2>7. queued - TxSeen \in 0..(SizeMod - 1)
    BY <2>0, <2>2, <2>5
  <2>8. rxRing.drops = received - RxSeen /\ txRing.drops = queued - TxSeen
    BY <2>3, <2>4, <2>5, <2>6, <2>7
  <2>9. received = handed + rxRing.count + rxRing.drops
    BY <2>0, <2>8 DEF RxSeen
  <2>10. queued = sent + InFlight + txRing.count + txRing.drops
    BY <2>0, <2>8 DEF TxSeen
  <2> QED BY <2>0, <2>1, <2>9, <2>10 DEF ByteAccounting
<1> QED BY <1>1, InvHolds, PTL

(* A refused write finds room for the byte it pushes back unless queue_tx  *)
(* was called since the byte was popped.                                   *)
THEOREM UartRequeueHasRoom == Spec => []RequeueHasRoom
<1>1. ASSUME Inv PROVE RequeueHasRoom
  <2>1. RoomInv /\ txRing.count \in Nat /\ txRing.capacity \in Nat
    BY <1>1, InvTypes
  <2> QED BY <2>1 DEF RoomInv, RequeueHasRoom, SchSpscRingIsFull, IsFull
<1> QED BY <1>1, InvHolds, PTL

-----------------------------------------------------------------------------
(* No ring is passed over twice.                                           *)

(* A run that finds a ring it has not yet served with bytes in it is sure  *)
(* to serve it: its budget is whole.                                       *)
RxServes ==
  /\ rxPassed \in 0..1
  /\ rxPassed = 1 => rxRing.count > 0 /\ (pc = "rx" => i = 0)

TxServes ==
  /\ txPassed \in 0..1
  /\ txPassed = 1 => /\ txRing.count > 0
                     /\ pc \in {"idle", "check", "tx"}
                     /\ pc = "tx" => i = 0

(* A run has budgets: both come from one call of init.                     *)
HasBudgets ==
  /\ maxRxItems = 0 <=> maxTxItems = 0
  /\ pc # "idle" => maxTxItems # 0

ServesInv == Inv /\ RxServes /\ TxServes /\ HasBudgets

(* With bytes in it a pop succeeds, and a run finds something to do.       *)
LEMMA BytesAreFound ==
  ASSUME Inv
  PROVE  /\ rxRing.count > 0 => PopSucceeds(rxRing) /\ ~SchSpscRingIsEmpty(rxRing)
         /\ txRing.count > 0 => PopSucceeds(txRing) /\ ~SchSpscRingIsEmpty(txRing)
<1>1. /\ rxRing.count \in Nat /\ rxRing.count <= rxRing.capacity /\ rxRing.capacity \in Nat
      /\ txRing.count \in Nat /\ txRing.count <= txRing.capacity /\ txRing.capacity \in Nat
      /\ (SchRingValid(rxRing) <=> rxRing.capacity > 0)
      /\ (SchRingValid(txRing) <=> txRing.capacity > 0)
  BY InvTypes
<1> QED BY <1>1 DEF PopSucceeds, SchSpscRingIsEmpty, SchSpscRingSize

(* A pop takes one byte.                                                   *)
LEMMA PopCounts ==
  ASSUME NEW r, RingOK(r), PopSucceeds(r)
  PROVE  SchSpscRingPopTask(r).count < r.count
<1>1. "count" \in DOMAIN r /\ r.count \in Nat
  BY DEF RingOK, RingFields
<1> QED BY <1>1 DEF SchSpscRingPopTask

(* What the steps of a run do to its place and its item count.             *)
LEMMA RunSteps ==
  ASSUME ServesInv, [Next]_vars
  PROVE  \/ \* outside the run
            /\ UNCHANGED <<pc, i>>
         \/ \* the run begins
            pc = "idle" /\ pc' = "check"
         \/ \* it goes past the early return, and begins to transmit
            pc = "check" /\ pc' = "tx" /\ i' = 0
         \/ \* it returns early
            /\ pc = "check" /\ pc' = "idle"
            /\ rxRing' = rxRing /\ txRing' = txRing
            /\ rxRing.count = 0 /\ txRing.count = 0
         \/ \* it takes a byte to transmit
            pc = "tx" /\ pc' = "write" /\ txRing'.count < txRing.count
         \/ \* it hands the byte to the hardware, or takes it back
            pc \in {"write", "requeue"} /\ (pc' = "rx" => i' = 0)
            /\ pc' # "idle"
         \/ \* it has no budget left to transmit, or nothing to transmit
            /\ pc = "tx" /\ pc' = "rx" /\ i' = 0
            /\ i = 0 => txRing.count = 0
         \/ \* it takes a received byte
            pc = "rx" /\ pc' = "rx" /\ rxRing'.count < rxRing.count
         \/ \* it ends
            /\ pc = "rx" /\ pc' = "idle"
            /\ i = 0 => rxRing.count = 0
<1>0. /\ Inv /\ TypeOK /\ RingOK(rxRing) /\ RingOK(txRing)
      /\ rxRing.count \in Nat /\ txRing.count \in Nat
      /\ pc # "idle" => maxRxItems # 0 /\ maxTxItems # 0
  BY InvTypes DEF ServesInv, HasBudgets
<1>1. CASE \E rc \in RxCapacities, tc \in TxCapacities, rb \in RxBudgets, tb \in TxBudgets :
             SchUartServiceInit(rc, tc, rb, tb)
  BY <1>1 DEF SchUartServiceInit, runVars
<1>2. CASE \/ SchUartIsrRxPush \/ SchUartIsrRxHint \/ SchUartIsrTxReady
           \/ SchUartServiceQueueTx \/ UNCHANGED vars
  BY <1>2 DEF SchUartIsrRxPush, SchUartIsrRxHint, SchUartIsrTxReady, SchUartServiceQueueTx,
              runVars, vars
<1>3. CASE RunTakeHints
  BY <1>3 DEF RunTakeHints
<1>4. CASE RunCheck
  <2>1. pc = "check" /\ i = 0 /\ i' = i /\ rxRing' = rxRing /\ txRing' = txRing
    BY <1>0, <1>4 DEF RunCheck, TypeOK, serviceVars
  <2>2. CASE NothingToDo
    <3>1. rxRing.count = 0 /\ txRing.count = 0
      BY <1>0, <2>2, BytesAreFound DEF NothingToDo
    <3> QED BY <1>4, <2>1, <2>2, <3>1 DEF RunCheck
  <2>3. CASE ~NothingToDo
    BY <1>4, <2>1, <2>3 DEF RunCheck
  <2> QED BY <2>2, <2>3
<1>5. CASE RunPopTx
  <2>1. txRing'.count < txRing.count
    BY <1>0, <1>5, PopCounts DEF RunPopTx
  <2> QED BY <1>5, <2>1 DEF RunPopTx
<1>6. CASE RunWriteAccepted \/ RunWriteRefused \/ RunRequeue
  BY <1>6 DEF RunWriteAccepted, RunWriteRefused, RunRequeue
<1>7. CASE RunTxEnd
  <2>1. pc = "tx" /\ i = 0 => ~PopSucceeds(txRing)
    BY <1>0, <1>7 DEF RunTxEnd
  <2>2. pc = "tx" /\ i = 0 => txRing.count = 0
    BY <1>0, <2>1, BytesAreFound
  <2> QED BY <1>7, <2>2 DEF RunTxEnd
<1>8. CASE RunPopRx
  <2>1. rxRing'.count < rxRing.count
    BY <1>0, <1>8, PopCounts DEF RunPopRx
  <2> QED BY <1>8, <2>1 DEF RunPopRx
<1>9. CASE RunEnd
  <2>1. pc = "rx" /\ i = 0 => ~PopSucceeds(rxRing)
    BY <1>0, <1>9 DEF RunEnd
  <2>2. pc = "rx" /\ i = 0 => rxRing.count = 0
    BY <1>0, <2>1, BytesAreFound
  <2> QED BY <1>9, <2>2 DEF RunEnd
<1> QED
  BY <1>1, <1>2, <1>3, <1>4, <1>5, <1>6, <1>7, <1>8, <1>9 DEF Next, SchUartServiceRun

(* The budgets stay as they are but for an init, which gives both.         *)
LEMMA BudgetsStay ==
  ASSUME ServesInv, [Next]_vars
  PROVE  HasBudgets'
<1>1. HasBudgets
  BY DEF ServesInv
<1>2. CASE \E rc \in RxCapacities, tc \in TxCapacities, rb \in RxBudgets, tb \in TxBudgets :
             SchUartServiceInit(rc, tc, rb, tb)
  <2>1. maxRxItems' # 0 /\ maxTxItems' # 0
    BY <1>2 DEF SchUartServiceInit
  <2> QED BY <2>1 DEF HasBudgets
<1>3. CASE \/ SchUartIsrRxPush \/ SchUartIsrRxHint \/ SchUartIsrTxReady
           \/ SchUartServiceQueueTx \/ UNCHANGED vars
  BY <1>1, <1>3 DEF HasBudgets, SchUartIsrRxPush, SchUartIsrRxHint, SchUartIsrTxReady,
                    SchUartServiceQueueTx, runVars, vars, serviceVars
<1>4. CASE SchUartServiceRun
  BY <1>1, <1>4 DEF HasBudgets, SchUartServiceRun, RunTakeHints, RunCheck, RunPopTx,
       RunWriteAccepted, RunWriteRefused, RunRequeue, RunTxEnd, RunPopRx, RunEnd, serviceVars
<1> QED BY <1>2, <1>3, <1>4 DEF Next

(* The waits in runs stay bounded.                                         *)
LEMMA ServesStep ==
  ASSUME ServesInv, Inv', LatencyNext
  PROVE  ServesInv'
<1>1. /\ RxServes /\ TxServes /\ [Next]_vars
      /\ rxPassed' = Passed(rxRing, rxRing', rxPassed)
      /\ txPassed' = Passed(txRing, txRing', txPassed)
  BY DEF ServesInv, LatencyNext
<1>2. rxRing.count \in Nat /\ txRing.count \in Nat
  BY InvTypes DEF ServesInv
<1>3. rxRing'.count \in Nat /\ txRing'.count \in Nat
  BY DEF Inv, TypeOK, RingOK
<1>4. RxServes'
  <2>1. CASE rxRing'.count = 0 \/ rxRing'.count < rxRing.count
    BY <1>1, <2>1 DEF Passed, RxServes
  <2>2. CASE ~(rxRing'.count = 0 \/ rxRing'.count < rxRing.count)
    <3>1. rxPassed' = IF pc # "idle" /\ pc' = "idle" THEN rxPassed + 1 ELSE rxPassed
      BY <1>1, <2>2 DEF Passed
    <3>2. rxRing'.count > 0
      BY <1>3, <2>2
    <3>3. rxPassed = 1 => rxRing.count > 0 /\ (pc = "rx" => i = 0)
      BY <1>1 DEF RxServes
    <3>4. pc # "idle" /\ pc' = "idle" => rxPassed = 0
      BY <1>1, <1>2, <2>2, <3>2, <3>3, RunSteps DEF RxServes
    <3>5. rxPassed' = 1 /\ pc' = "rx" => i' = 0
      BY <1>1, <2>2, <3>1, <3>3, RunSteps
    <3>6. rxPassed' \in 0..1
      BY <1>1, <3>1, <3>4 DEF RxServes
    <3> QED BY <3>2, <3>5, <3>6 DEF RxServes
  <2> QED BY <2>1, <2>2
<1>5. TxServes'
  <2>1. CASE txRing'.count = 0 \/ txRing'.count < txRing.count
    BY <1>1, <2>1 DEF Passed, TxServes
  <2>2. CASE ~(txRing'.count = 0 \/ txRing'.count < txRing.count)
    <3>1. txPassed' = IF pc # "idle" /\ pc' = "idle" THEN txPassed + 1 ELSE txPassed
      BY <1>1, <2>2 DEF Passed
    <3>2. txRing'.count > 0
      BY <1>3, <2>2
    <3>3. txPassed = 1 => /\ txRing.count > 0 /\ pc \in {"idle", "check", "tx"}
                          /\ pc = "tx" => i = 0
      BY <1>1 DEF TxServes
    <3>4. pc # "idle" /\ pc' = "idle" => txPassed = 0
      BY <1>1, <1>2, <2>2, <3>2, <3>3, RunSteps DEF TxServes
    <3>5. txPassed' = 1 /\ pc' # "idle" => pc' \in {"check", "tx"} /\ (pc' = "tx" => i' = 0)
      BY <1>1, <1>2, <2>2, <3>1, <3>3, RunSteps
    <3>6. txPassed' \in 0..1
      BY <1>1, <3>1, <3>4 DEF TxServes
    <3> QED BY <3>2, <3>5, <3>6 DEF TxServes
  <2> QED BY <2>1, <2>2
<1> QED BY <1>1, <1>4, <1>5, BudgetsStay DEF ServesInv

(* No ring with bytes in it is passed over by two runs in a row, whatever  *)
(* its capacity, the budgets and the traffic.                              *)
THEOREM UartEveryRunServes == LatencySpec => []EveryRunServes
<1>1. LatencyInit => ServesInv
  BY InitInv DEF LatencyInit, ServesInv, RxServes, TxServes, HasBudgets, Init
<1>2. ServesInv /\ [LatencyNext]_latencyVars => ServesInv'
  <2> SUFFICES ASSUME ServesInv, [LatencyNext]_latencyVars PROVE ServesInv'
    OBVIOUS
  <2>1. CASE LatencyNext
    <3>1. Inv /\ [Next]_vars
      BY <2>1 DEF ServesInv, LatencyNext
    <3> QED BY <2>1, <3>1, NextInv, ServesStep
  <2>2. CASE UNCHANGED latencyVars
    <3>1. UNCHANGED vars /\ UNCHANGED <<rxPassed, txPassed>>
      BY <2>2 DEF latencyVars
    <3>2. Inv'
      BY <3>1, NextInv DEF ServesInv
    <3>3. UNCHANGED <<rxRing, txRing, pc, i, maxRxItems, maxTxItems>>
      BY <3>1 DEF vars, serviceVars, runVars
    <3> QED BY <3>1, <3>2, <3>3 DEF ServesInv, RxServes, TxServes, HasBudgets
  <2> QED BY <2>1, <2>2
<1>3. ServesInv => EveryRunServes
  BY DEF ServesInv, RxServes, TxServes, EveryRunServes
<1> QED BY <1>1, <1>2, <1>3, PTL DEF LatencySpec
=============================================================================
