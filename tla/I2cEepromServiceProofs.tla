----------------------- MODULE I2cEepromServiceProofs -----------------------
(***************************************************************************)
(* TLAPS proofs about the I2C EEPROM service, for every capacity, budget,  *)
(* number of requests and completions and width of size_t.                 *)
(***************************************************************************)
EXTENDS I2cEepromService, SpscRingTheorems

-----------------------------------------------------------------------------
(* The inductive invariant.                                                *)

Held == IF request = NoItem THEN 0 ELSE 1

(* The requests on their way to the HAL are the ones accepted and not yet  *)
(* offered, in turn.  This needs the ring to turn away the newest.         *)
RequestsInv ==
  /\ requestRing.overflow = DROP_NEWEST
  /\ (offered + Held) + requestRing.count = accepted
  /\ request # NoItem => request = offered + 1
  /\ \A k \in 1..requestRing.count : Contents(requestRing)[k] = (offered + Held) + k

QueuedErrors == HowMany(completionQueue, FAILED)

(* The completion queue accounts for what it lost, errors among it.        *)
CompletionsInv ==
  /\ completionQueue.drops = (captured - (handled + completionQueue.count)) % SizeMod
  /\ handledErrors + QueuedErrors <= errors
  /\ errors - (handledErrors + QueuedErrors) <= captured - (handled + completionQueue.count)

(* A popped request was within the budget.                                 *)
LoopInv == pc = "submit" => i < maxRequests

Inv == TypeOK /\ RequestsInv /\ CompletionsInv /\ LoopInv

(* What the service may push.                                              *)
LEMMA ItemsPushed ==
  /\ DONE \in Items /\ FAILED \in Items /\ \A n \in Requests : n \in Items
  /\ NoItem \notin Requests
BY EepromAssumption, RingAssumption DEF EepromItems

(* The invariant at start.                                                 *)
LEMMA InitInv == Init => Inv
<1> SUFFICES ASSUME Init PROVE Inv
  OBVIOUS
<1>1. /\ RingOK(requestRing) /\ requestRing.count = 0 /\ requestRing.overflow = DROP_NEWEST
      /\ RingOK(completionQueue) /\ completionQueue.count = 0 /\ completionQueue.drops = 0
  BY ZeroRingOK DEF Init, ZeroRing
<1>2. QueuedErrors = 0
  BY <1>1, HowManyEmpty DEF QueuedErrors
<1>3. (0 - (0 + 0)) % SizeMod = 0
  BY RingAssumption
<1>4. {irqHint, hint, completeIsr} \subseteq BOOLEAN
  BY DEF Init
<1>5. TypeOK /\ LoopInv
  BY <1>1, <1>4, EepromAssumption DEF Init, TypeOK, LoopInv
<1>6. RequestsInv
  BY <1>1 DEF Init, RequestsInv, Held
<1>7. CompletionsInv
  BY <1>1, <1>2, <1>3 DEF Init, CompletionsInv
<1> QED BY <1>5, <1>6, <1>7 DEF Inv

(* What the invariant says of the types, for the steps below.              *)
LEMMA InvTypes ==
  ASSUME Inv
  PROVE  /\ TypeOK /\ RequestsInv /\ CompletionsInv /\ LoopInv
         /\ RingOK(requestRing) /\ RingOK(completionQueue)
         /\ requestRing.count \in Nat /\ requestRing.capacity \in Nat
         /\ requestRing.count <= requestRing.capacity
         /\ (SchRingValid(requestRing) <=> requestRing.capacity > 0)
         /\ completionQueue.count \in Nat /\ completionQueue.capacity \in Nat
         /\ completionQueue.count <= completionQueue.capacity
         /\ (SchRingValid(completionQueue) <=> completionQueue.capacity > 0)
         /\ accepted \in Nat /\ offered \in Nat /\ captured \in Nat /\ handled \in Nat
         /\ errors \in Nat /\ handledErrors \in Nat /\ QueuedErrors \in Nat /\ Held \in 0..1
         /\ MaxRequests \in Nat /\ MaxCompletions \in Nat /\ SizeMod \in Nat \ {0}
         /\ maxRequests \in Nat /\ maxCompletions \in Nat
<1>1. /\ TypeOK /\ RequestsInv /\ CompletionsInv /\ LoopInv
      /\ RingOK(requestRing) /\ RingOK(completionQueue)
  BY DEF Inv, TypeOK
<1>2. /\ requestRing.count \in Nat /\ requestRing.capacity \in Nat
      /\ requestRing.count <= requestRing.capacity
      /\ (SchRingValid(requestRing) <=> requestRing.capacity > 0)
  BY <1>1 DEF RingOK, SchRingValid
<1>3. /\ completionQueue.count \in Nat /\ completionQueue.capacity \in Nat
      /\ completionQueue.count <= completionQueue.capacity
      /\ (SchRingValid(completionQueue) <=> completionQueue.capacity > 0)
  BY <1>1 DEF RingOK, SchRingValid
<1>4. /\ accepted \in Nat /\ offered \in Nat /\ captured \in Nat /\ handled \in Nat
      /\ errors \in Nat /\ handledErrors \in Nat
      /\ MaxRequests \in Nat /\ MaxCompletions \in Nat /\ SizeMod \in Nat \ {0}
      /\ maxRequests \in Nat /\ maxCompletions \in Nat
  BY <1>1, EepromAssumption, RingAssumption DEF TypeOK
<1>5. QueuedErrors \in Nat
  BY <1>1, HowManyOccurs DEF QueuedErrors
<1>6. Held \in 0..1
  BY DEF Held
<1> QED BY <1>1, <1>2, <1>3, <1>4, <1>5, <1>6

-----------------------------------------------------------------------------
(* An enqueue: accepted at the end of the line, or turned away.            *)
LEMMA EnqueueRequests ==
  ASSUME Inv, SchI2cEepromEnqueueRequestIsr
  PROVE  /\ RingOK(requestRing') /\ RequestsInv'
         /\ accepted' \in 0..MaxRequests /\ offered' \in 0..accepted'
<1> DEFINE r == requestRing
           n == accepted + 1
<1>0. /\ TypeOK /\ RequestsInv /\ RingOK(r) /\ r.count \in Nat /\ r.capacity \in Nat
      /\ r.count <= r.capacity /\ (SchRingValid(r) <=> r.capacity > 0)
      /\ accepted \in Nat /\ offered \in Nat /\ Held \in 0..1 /\ MaxRequests \in Nat
  BY InvTypes
<1>1. /\ r' = SchSpscRingPushIsr(r, n) /\ accepted < MaxRequests
      /\ accepted' = IF PushStatus(r) = PUSH_OK THEN accepted + 1 ELSE accepted
      /\ offered' = offered /\ request' = request
  BY DEF SchI2cEepromEnqueueRequestIsr, runVars
<1>2. n \in Items
  BY <1>0, <1>1, ItemsPushed DEF Requests
<1>3. RingOK(r') /\ r'.overflow = r.overflow
  BY <1>0, <1>1, <1>2, PushEffect
<1>4. Held' = Held
  BY <1>1 DEF Held
<1>5. CASE r.count < r.capacity
  <2>1. PushStatus(r) = PUSH_OK
    BY <1>0, <1>5 DEF PushStatus, IsFull
  <2>2. r'.count = r.count + 1 /\ Contents(r') = Append(Contents(r), n)
    BY <1>0, <1>1, <1>2, <1>5, PushEffect
  <2>3. Contents(r) \in Seq(Items) /\ Len(Contents(r)) = r.count
    BY <1>0, ContentsType
  <2>4. /\ \A k \in 1..r.count : Contents(r')[k] = Contents(r)[k]
        /\ Contents(r')[r.count + 1] = n
    BY <1>2, <2>2, <2>3, AppendProperties
  <2>5. (offered + Held) + r.count = accepted
        /\ \A k \in 1..r.count : Contents(r)[k] = (offered + Held) + k
    BY <1>0 DEF RequestsInv
  <2>6. \A k \in 1..(r.count + 1) : Contents(r')[k] = (offered + Held) + k
    <3> SUFFICES ASSUME NEW k \in 1..(r.count + 1)
                 PROVE  Contents(r')[k] = (offered + Held) + k
      OBVIOUS
    <3>1. CASE k \in 1..r.count
      BY <2>4, <2>5, <3>1
    <3>2. CASE k = r.count + 1
      BY <1>0, <2>4, <2>5, <3>2
    <3> QED BY <1>0, <3>1, <3>2
  <2>7. (offered + Held) + r'.count = accepted + 1
    BY <1>0, <2>2, <2>5
  <2>8. RequestsInv'
    BY <1>0, <1>1, <1>3, <1>4, <2>1, <2>2, <2>6, <2>7 DEF RequestsInv
  <2> QED BY <1>0, <1>1, <1>3, <2>1, <2>8 DEF TypeOK
<1>6. CASE r.count = r.capacity
  <2>1. PushStatus(r) # PUSH_OK
    BY <1>0, <1>6 DEF PushStatus, IsFull, PUSH_OK, PUSH_DROPPED_NEWEST, PUSH_DROPPED_OLDEST
  <2>2. r'.count = r.count /\ Contents(r') = Contents(r)
    <3>1. CASE r.capacity = 0
      BY <1>0, <1>1, <1>2, <3>1, PushEffect
    <3>2. CASE r.capacity > 0
      BY <1>0, <1>1, <1>2, <1>6, <3>2, PushEffect DEF RequestsInv
    <3> QED BY <1>0, <3>1, <3>2
  <2> QED BY <1>0, <1>1, <1>3, <1>4, <2>1, <2>2 DEF RequestsInv, TypeOK
<1> QED BY <1>0, <1>5, <1>6

(* The run pops the next request.                                          *)
LEMMA PopRequests ==
  ASSUME Inv, RunPopRequest
  PROVE  /\ RingOK(requestRing') /\ RequestsInv'
         /\ request = NoItem /\ request' \in Requests
<1> DEFINE r == requestRing
<1>0. /\ TypeOK /\ RequestsInv /\ RingOK(r) /\ r.count \in Nat
      /\ accepted \in Nat /\ offered \in Nat /\ MaxRequests \in Nat /\ accepted <= MaxRequests
  BY InvTypes, EepromAssumption DEF TypeOK
<1>1. /\ PopSucceeds(r) /\ r' = SchSpscRingPopTask(r) /\ request' = PoppedItem(r)
      /\ offered' = offered /\ accepted' = accepted /\ pc = "requests"
  BY DEF RunPopRequest, reqHist
<1>2. /\ RingOK(r') /\ r'.overflow = r.overflow /\ r'.count = r.count - 1
      /\ Contents(r') = Tail(Contents(r)) /\ Contents(r) # << >>
      /\ request' = Head(Contents(r))
  BY <1>0, <1>1, PopEffect
<1>3. Contents(r) \in Seq(Items) /\ Len(Contents(r)) = r.count /\ r.count # 0
  BY <1>0, <1>1, ContentsType DEF PopSucceeds
<1>4. request = NoItem /\ Held = 0
  BY <1>0, <1>1 DEF TypeOK, Held
<1>5. /\ offered + r.count = accepted
      /\ \A k \in 1..r.count : Contents(r)[k] = offered + k
  BY <1>0, <1>4 DEF RequestsInv
<1>6. request' = offered + 1
  <2>1. Head(Contents(r)) = Contents(r)[1] /\ 1 \in 1..r.count
    BY <1>0, <1>2, <1>3, HeadTailProperties
  <2> QED BY <1>2, <1>5, <2>1
<1>7. request' \in Requests
  BY <1>0, <1>3, <1>5, <1>6 DEF Requests
<1>8. Held' = 1
  BY <1>7, ItemsPushed DEF Held
<1>9. \A k \in 1..(r.count - 1) : Contents(r')[k] = (offered + 1) + k
  <2> SUFFICES ASSUME NEW k \in 1..(r.count - 1)
               PROVE  Contents(r')[k] = (offered + 1) + k
    OBVIOUS
  <2>1. Contents(r')[k] = Contents(r)[k + 1]
    BY <1>0, <1>2, <1>3, HeadTailProperties
  <2>2. k + 1 \in 1..r.count /\ offered + (k + 1) = (offered + 1) + k
    BY <1>0, <1>3
  <2> QED BY <1>5, <2>1, <2>2
<1>10. (offered + 1) + (r.count - 1) = accepted
  BY <1>0, <1>5
<1>11. RequestsInv'
  BY <1>0, <1>1, <1>2, <1>6, <1>8, <1>9, <1>10 DEF RequestsInv
<1> QED BY <1>2, <1>4, <1>7, <1>11

(* A completion is queued, and if one is lost it is counted.               *)
LEMMA PushCompletions ==
  ASSUME Inv, NEW id \in {DONE, FAILED}, IsrCompletePush(id)
  PROVE  /\ RingOK(completionQueue') /\ CompletionsInv'
         /\ captured' \in 0..MaxCompletions /\ handled' \in 0..captured'
         /\ errors' \in 0..captured' /\ handledErrors' \in 0..errors'
<1> DEFINE q == completionQueue
           lost == captured - (handled + q.count)
           d == Match(id, FAILED)
<1>0. /\ TypeOK /\ CompletionsInv /\ RingOK(q) /\ q.count \in Nat /\ q.capacity \in Nat
      /\ q.count <= q.capacity /\ (SchRingValid(q) <=> q.capacity > 0)
      /\ captured \in Nat /\ handled \in Nat /\ errors \in Nat /\ handledErrors \in Nat
      /\ QueuedErrors \in Nat /\ SizeMod \in Nat \ {0} /\ MaxCompletions \in Nat
  BY InvTypes
<1>1. /\ q' = SchSpscRingPushIsr(q, id) /\ id \in Items
      /\ handled' = handled /\ handledErrors' = handledErrors /\ captured < MaxCompletions
  BY ItemsPushed DEF IsrCompletePush, SchEventQueuePushIsr
<1>2. RingOK(q')
  BY <1>0, <1>1, PushEffect
<1>3. CASE ~SchRingValid(q)
  <2>1. q' = q /\ captured' = captured /\ errors' = errors
    BY <1>1, <1>3 DEF IsrCompletePush, SchSpscRingPushIsr
  <2>2. QueuedErrors' = QueuedErrors
    BY <2>1 DEF QueuedErrors
  <2> QED BY <1>0, <1>1, <2>1, <2>2 DEF CompletionsInv, TypeOK
<1>4. CASE SchRingValid(q)
  <2>1. captured' = captured + 1 /\ errors' = errors + d /\ d \in 0..1
    BY <1>0, <1>4 DEF IsrCompletePush, Match
  <2>2. QueuedErrors' \in Nat
    BY <1>2, HowManyOccurs DEF QueuedErrors
  <2>3. /\ captured' \in 0..MaxCompletions /\ handled' \in 0..captured'
        /\ errors' \in 0..captured' /\ handledErrors' \in 0..errors'
    BY <1>0, <1>1, <2>1 DEF TypeOK
  <2>4. /\ q.drops = lost % SizeMod /\ handledErrors + QueuedErrors <= errors
        /\ errors - (handledErrors + QueuedErrors) <= lost /\ lost \in Int
    BY <1>0 DEF CompletionsInv
  <2>5. CASE q.count < q.capacity
    <3>1. q'.count = q.count + 1 /\ q'.drops = q.drops
      BY <1>0, <1>1, <2>5, PushEffect
    <3>2. QueuedErrors' = QueuedErrors + d
      BY <1>0, <1>1, <2>5, PushHowMany DEF QueuedErrors
    <3>3. captured' - (handled' + q'.count) = lost
      BY <1>0, <1>1, <2>1, <3>1
    <3>4. errors' - (handledErrors' + QueuedErrors') = errors - (handledErrors + QueuedErrors)
      BY <1>0, <1>1, <2>1, <3>2
    <3>5. handledErrors' + QueuedErrors' <= errors'
      BY <1>0, <1>1, <2>1, <2>4, <3>2
    <3> QED BY <1>2, <2>3, <2>4, <3>1, <3>3, <3>4, <3>5 DEF CompletionsInv
  <2>6. CASE q.count = q.capacity
    <3>1. q'.count = q.count /\ q'.drops = (q.drops + 1) % SizeMod
      BY <1>0, <1>1, <1>4, <2>6, PushEffect
    <3>2. PICK gone \in Items : \A x :
            HowMany(q', x) = (HowMany(q, x) + Match(id, x)) - Match(gone, x)
      BY <1>0, <1>1, <1>4, <2>6, PushHowMany
    <3>3. QueuedErrors' = (QueuedErrors + d) - Match(gone, FAILED) /\ Match(gone, FAILED) \in 0..1
      BY <3>2 DEF QueuedErrors, Match
    <3>4. captured' - (handled' + q'.count) = lost + 1
      BY <1>0, <1>1, <2>1, <3>1
    <3> HIDE DEF d, lost, q
    <3>5. errors' - (handledErrors' + QueuedErrors') <= lost + 1
      BY <1>0, <1>1, <2>1, <2>4, <3>3
    <3>6. handledErrors' + QueuedErrors' <= errors'
      BY <1>0, <1>1, <2>1, <2>4, <3>3
    <3>7. ((lost % SizeMod) + 1) % SizeMod = (lost + 1) % SizeMod
      BY <1>0, <2>4, ModSucc
    <3> QED BY <1>2, <2>3, <2>4, <3>1, <3>4, <3>5, <3>6, <3>7 DEF CompletionsInv, q
  <2> QED BY <1>0, <2>5, <2>6
<1> QED BY <1>3, <1>4

(* The run consumes a completion.                                          *)
LEMMA PopCompletions ==
  ASSUME Inv, RunCompletion
  PROVE  /\ RingOK(completionQueue') /\ CompletionsInv'
         /\ captured' \in 0..MaxCompletions /\ handled' \in 0..captured'
         /\ errors' \in 0..captured' /\ handledErrors' \in 0..errors'
<1> DEFINE q == completionQueue
           d == Match(PoppedItem(q), FAILED)
<1>0. /\ TypeOK /\ CompletionsInv /\ RingOK(q) /\ q.count \in Nat
      /\ captured \in Nat /\ handled \in Nat /\ errors \in Nat /\ handledErrors \in Nat
      /\ QueuedErrors \in Nat /\ MaxCompletions \in Nat
  BY InvTypes
<1>1. /\ PopSucceeds(q) /\ q' = SchSpscRingPopTask(q)
      /\ handled' = handled + 1 /\ handledErrors' = handledErrors + d
      /\ captured' = captured /\ errors' = errors
  BY DEF RunCompletion, SchEventQueuePopTask, Match
<1>2. RingOK(q') /\ q'.drops = q.drops /\ q'.count = q.count - 1 /\ q.count # 0
  BY <1>0, <1>1, PopEffect DEF PopSucceeds
<1>3. QueuedErrors = QueuedErrors' + d
  BY <1>0, <1>1, PopHowMany DEF QueuedErrors
<1>4. QueuedErrors' \in Nat /\ d \in 0..1
  BY <1>2, HowManyOccurs DEF QueuedErrors, Match
<1>5. /\ handledErrors + QueuedErrors <= errors
      /\ errors - (handledErrors + QueuedErrors) <= captured - (handled + q.count)
  BY <1>0 DEF CompletionsInv
<1>9. q.drops = (captured - (handled + q.count)) % SizeMod
  BY <1>0 DEF CompletionsInv
<1> HIDE DEF q, d
<1>6. /\ handled' + q'.count = handled + q.count
      /\ handledErrors' + QueuedErrors' = handledErrors + QueuedErrors
  BY <1>0, <1>1, <1>2, <1>3, <1>4
<1>7. CompletionsInv'
  BY <1>1, <1>2, <1>5, <1>6, <1>9 DEF CompletionsInv, q
<1>8. handled' \in 0..captured' /\ handledErrors' \in 0..errors'
  <2>1. /\ captured \in Nat /\ handled \in Nat /\ errors \in Nat /\ handledErrors \in Nat
        /\ QueuedErrors \in Nat /\ q.count \in Nat /\ q.count # 0
    BY <1>0, <1>2
  <2>2. handled + 1 \in 0..captured
    <3>1. 0 <= errors - (handledErrors + QueuedErrors)
      BY <1>5, <2>1
    <3>2. 0 <= captured - (handled + q.count)
      BY <1>5, <2>1, <3>1
    <3> QED BY <2>1, <3>2
  <2>3. handledErrors + d \in 0..errors
    <3>1. d \in Nat /\ d <= QueuedErrors
      <4>1. \A a, b, c \in Nat : a = b + c => c <= a
        OBVIOUS
      <4>2. d \in Nat
        BY <1>4
      <4> QED BY <1>3, <1>4, <2>1, <4>1, <4>2
    <3>2. handledErrors + QueuedErrors <= errors
      BY <1>5
    <3> QED BY <2>1, <3>1, <3>2
  <2> QED BY <1>1, <2>2, <2>3
<1> QED BY <1>0, <1>1, <1>2, <1>7, <1>8 DEF TypeOK, q

-----------------------------------------------------------------------------
(* A new init: each ring restarts empty, or is left as it was.             *)
LEMMA InitStep ==
  ASSUME Inv, NEW rc \in RequestCapacities, NEW cc \in CompletionCapacities,
         NEW rb \in RequestBudgets, NEW cb \in CompletionBudgets,
         SchI2cEepromServiceInit(rc, cc, rb, cb)
  PROVE  Inv'
<1>0. /\ TypeOK /\ RequestsInv /\ CompletionsInv /\ LoopInv
      /\ RingOK(requestRing) /\ RingOK(completionQueue)
  BY InvTypes
<1>1. rc \in Nat /\ cc \in Nat
  BY EepromAssumption
<1>2. /\ pc = "idle" /\ pc' = "idle" /\ i' = i /\ hint' = hint /\ request' = request
      /\ completeIsr' = completeIsr /\ irqHint' = FALSE
      /\ maxRequests' = rb /\ maxCompletions' = cb
  BY DEF SchI2cEepromServiceInit, runVars
<1>3. request = NoItem /\ Held = 0 /\ Held' = 0
  BY <1>0, <1>2 DEF TypeOK, Held
<1>4. /\ RingOK(requestRing') /\ RequestsInv'
      /\ accepted' \in 0..MaxRequests /\ offered' \in 0..accepted'
  <2>1. CASE InitArgsValid(rc, RequestOverflow)
    <3>1. /\ requestRing' = SchSpscRingInit(rc, DROP_NEWEST) /\ accepted' = 0 /\ offered' = 0
      BY <2>1 DEF SchI2cEepromServiceInit, RequestOverflow
    <3>2. rc \in Nat \ {0} /\ DROP_NEWEST \in OverflowModes
      BY <1>1, <2>1 DEF InitArgsValid, OverflowModes
    <3>3. /\ RingOK(requestRing') /\ requestRing'.overflow = DROP_NEWEST
          /\ requestRing'.count = 0
      BY <3>1, <3>2, InitEffect
    <3> QED BY <1>2, <1>3, <3>1, <3>3, EepromAssumption DEF RequestsInv
  <2>2. CASE ~InitArgsValid(rc, RequestOverflow)
    <3>1. requestRing' = requestRing /\ accepted' = accepted /\ offered' = offered
      BY <2>2 DEF SchI2cEepromServiceInit, reqHist
    <3> QED BY <1>0, <1>2, <1>3, <3>1 DEF RequestsInv, TypeOK
  <2> QED BY <2>1, <2>2
<1>5. /\ RingOK(completionQueue') /\ CompletionsInv'
      /\ captured' \in 0..MaxCompletions /\ handled' \in 0..captured'
      /\ errors' \in 0..captured' /\ handledErrors' \in 0..errors'
  <2>1. CASE InitArgsValid(cc, CompletionOverflow)
    <3>1. /\ completionQueue' = SchSpscRingInit(cc, DROP_OLDEST)
          /\ captured' = 0 /\ handled' = 0 /\ errors' = 0 /\ handledErrors' = 0
      BY <2>1 DEF SchI2cEepromServiceInit, CompletionOverflow, SchEventQueueInit
    <3>2. cc \in Nat \ {0} /\ DROP_OLDEST \in OverflowModes
      BY <1>1, <2>1 DEF InitArgsValid, OverflowModes
    <3>3. /\ RingOK(completionQueue') /\ completionQueue'.drops = 0
          /\ completionQueue'.count = 0
      BY <3>1, <3>2, InitEffect
    <3>4. QueuedErrors' = 0
      BY <3>3, HowManyEmpty DEF QueuedErrors
    <3>5. (0 - (0 + 0)) % SizeMod = 0
      BY RingAssumption
    <3>6. CompletionsInv'
      BY <3>1, <3>3, <3>4, <3>5 DEF CompletionsInv
    <3> QED BY <3>1, <3>3, <3>6, EepromAssumption
  <2>2. CASE ~InitArgsValid(cc, CompletionOverflow)
    <3>1. /\ completionQueue' = completionQueue /\ captured' = captured /\ handled' = handled
          /\ errors' = errors /\ handledErrors' = handledErrors
      BY <2>2 DEF SchI2cEepromServiceInit, compHist
    <3> QED BY <1>0, <3>1 DEF CompletionsInv, QueuedErrors, TypeOK
  <2> QED BY <2>1, <2>2
<1>6. {irqHint', hint', completeIsr'} \subseteq BOOLEAN
  BY <1>0, <1>2 DEF TypeOK
<1>7. i' = 0
  BY <1>0, <1>2 DEF TypeOK
<1>8. TypeOK'
  BY <1>2, <1>3, <1>4, <1>5, <1>6, <1>7 DEF TypeOK
<1> QED BY <1>2, <1>4, <1>5, <1>8 DEF Inv, LoopInv

(* What a step that leaves the rings and their history alone keeps.        *)
LEMMA Untouched ==
  ASSUME Inv
  PROVE  /\ UNCHANGED <<requestRing, request, reqHist>> => RequestsInv'
         /\ UNCHANGED <<completionQueue, compHist>> => CompletionsInv'
<1>1. RequestsInv /\ CompletionsInv
  BY DEF Inv
<1>2. UNCHANGED <<requestRing, request, reqHist>> => RequestsInv'
  BY <1>1 DEF RequestsInv, Held, reqHist
<1>3. UNCHANGED <<completionQueue, compHist>> => CompletionsInv'
  BY <1>1 DEF CompletionsInv, QueuedErrors, compHist
<1> QED BY <1>2, <1>3

(* Every step keeps the invariant.                                         *)
LEMMA NextInv == Inv /\ [Next]_vars => Inv'
<1> SUFFICES ASSUME Inv, [Next]_vars PROVE Inv'
  OBVIOUS
<1>0. /\ TypeOK /\ RequestsInv /\ CompletionsInv /\ LoopInv
      /\ maxRequests \in Nat /\ maxCompletions \in Nat
  BY InvTypes
<1>1. CASE \E rc \in RequestCapacities, cc \in CompletionCapacities,
             rb \in RequestBudgets, cb \in CompletionBudgets :
              SchI2cEepromServiceInit(rc, cc, rb, cb)
  BY <1>1, InitStep
<1>2. CASE SchI2cEepromEnqueueRequestIsr
  <2>1. /\ UNCHANGED <<completionQueue, irqHint, maxRequests, maxCompletions, pc, hint, i,
                       request, completeIsr, compHist>>
    BY <1>2 DEF SchI2cEepromEnqueueRequestIsr, runVars
  <2>2. /\ RingOK(requestRing') /\ RequestsInv'
        /\ accepted' \in 0..MaxRequests /\ offered' \in 0..accepted'
    BY <1>2, EnqueueRequests
  <2>3. CompletionsInv'
    BY <2>1, Untouched
  <2>4. {irqHint', hint', completeIsr'} \subseteq BOOLEAN
    BY <1>0, <2>1 DEF TypeOK
  <2>5. TypeOK'
    BY <1>0, <2>1, <2>2, <2>4 DEF TypeOK, compHist
  <2> QED BY <1>0, <2>1, <2>2, <2>3, <2>5 DEF Inv, LoopInv
<1>3. ASSUME NEW id \in {DONE, FAILED}, IsrCompletePush(id) PROVE Inv'
  <2>1. /\ UNCHANGED <<requestRing, irqHint, maxRequests, maxCompletions, pc, hint, i,
                       request, reqHist>>
        /\ completeIsr' = TRUE
    BY <1>3 DEF IsrCompletePush, runVars
  <2>2. /\ RingOK(completionQueue') /\ CompletionsInv'
        /\ captured' \in 0..MaxCompletions /\ handled' \in 0..captured'
        /\ errors' \in 0..captured' /\ handledErrors' \in 0..errors'
    BY <1>3, PushCompletions
  <2>3. RequestsInv'
    BY <2>1, Untouched
  <2>4. {irqHint', hint', completeIsr'} \subseteq BOOLEAN
    BY <1>0, <2>1 DEF TypeOK
  <2>5. TypeOK'
    BY <1>0, <2>1, <2>2, <2>4 DEF TypeOK, reqHist
  <2> QED BY <1>0, <2>1, <2>2, <2>3, <2>5 DEF Inv, LoopInv
<1>4. CASE IsrCompleteHint
  <2>1. /\ UNCHANGED <<requestRing, completionQueue, maxRequests, maxCompletions, pc, hint, i,
                       request, reqHist, compHist>>
        /\ irqHint' = TRUE /\ completeIsr' = FALSE
    BY <1>4 DEF IsrCompleteHint, runVars
  <2>2. RequestsInv' /\ CompletionsInv'
    BY <2>1, Untouched
  <2>3. {irqHint', hint', completeIsr'} \subseteq BOOLEAN
    BY <1>0, <2>1 DEF TypeOK
  <2>4. TypeOK'
    BY <1>0, <2>1, <2>3 DEF TypeOK, reqHist, compHist
  <2> QED BY <1>0, <2>1, <2>2, <2>4 DEF Inv, LoopInv
<1>5. CASE RunTakeHint
  <2>1. /\ UNCHANGED <<requestRing, completionQueue, maxRequests, maxCompletions, i, request,
                       completeIsr, reqHist, compHist>>
        /\ pc = "idle" /\ pc' = "check" /\ hint' = irqHint /\ irqHint' = FALSE
    BY <1>5 DEF RunTakeHint
  <2>2. RequestsInv' /\ CompletionsInv'
    BY <2>1, Untouched
  <2>3. {irqHint', hint', completeIsr'} \subseteq BOOLEAN
    BY <1>0, <2>1 DEF TypeOK
  <2>4. TypeOK'
    BY <1>0, <2>1, <2>3 DEF TypeOK, reqHist, compHist
  <2> QED BY <2>1, <2>2, <2>4 DEF Inv, LoopInv
<1>6. CASE RunCheck
  <2>1. /\ UNCHANGED <<requestRing, completionQueue, irqHint, maxRequests, maxCompletions, i,
                       request, completeIsr, reqHist, compHist>>
        /\ pc = "check" /\ pc' \in {"idle", "requests"} /\ hint' = FALSE
    BY <1>6 DEF RunCheck, serviceVars
  <2>2. RequestsInv' /\ CompletionsInv'
    BY <2>1, Untouched
  <2>3. {irqHint', hint', completeIsr'} \subseteq BOOLEAN
    BY <1>0, <2>1 DEF TypeOK
  <2>4. TypeOK'
    BY <1>0, <2>1, <2>3 DEF TypeOK, reqHist, compHist
  <2> QED BY <2>1, <2>2, <2>4 DEF Inv, LoopInv
<1>7. CASE RunPopRequest
  <2>1. /\ UNCHANGED <<completionQueue, irqHint, maxRequests, maxCompletions, hint, i,
                       completeIsr, reqHist, compHist>>
        /\ pc = "requests" /\ pc' = "submit" /\ i < maxRequests
    BY <1>7 DEF RunPopRequest
  <2>2. /\ RingOK(requestRing') /\ RequestsInv'
        /\ request = NoItem /\ request' \in Requests
    BY <1>7, PopRequests
  <2>3. CompletionsInv'
    BY <2>1, Untouched
  <2>4. {irqHint', hint', completeIsr'} \subseteq BOOLEAN
    BY <1>0, <2>1 DEF TypeOK
  <2>5. request' # NoItem
    BY <2>2, ItemsPushed
  <2>6. TypeOK'
    BY <1>0, <2>1, <2>2, <2>4, <2>5 DEF TypeOK, reqHist, compHist
  <2> QED BY <2>1, <2>2, <2>3, <2>6 DEF Inv, LoopInv
<1>8. CASE RunSubmit
  <2>1. /\ UNCHANGED <<requestRing, completionQueue, irqHint, maxRequests, maxCompletions, hint,
                       completeIsr, accepted, compHist>>
        /\ pc = "submit" /\ offered' = request /\ request' = NoItem
        /\ \/ pc' = "requests" /\ i' = i + 1
           \/ pc' = "completions" /\ i' = 0
    BY <1>8 DEF RunSubmit, serviceVars
  <2>2. request # NoItem /\ Held = 1 /\ Held' = 0 /\ i \in 0..maxRequests /\ i < maxRequests
    BY <1>0, <2>1 DEF TypeOK, Held, LoopInv
  <2>3. /\ offered' = offered + 1 /\ (offered + 1) + requestRing.count = accepted
        /\ \A k \in 1..requestRing.count : Contents(requestRing)[k] = (offered + 1) + k
        /\ requestRing.overflow = DROP_NEWEST
    BY <1>0, <2>1, <2>2 DEF RequestsInv
  <2>4. offered \in Nat /\ accepted \in Nat /\ requestRing.count \in Nat
    BY InvTypes
  <2>5. offered' + 0 = offered + 1 /\ offered' \in 0..accepted
    BY <2>3, <2>4
  <2>6. RequestsInv'
    BY <2>1, <2>2, <2>3, <2>5 DEF RequestsInv
  <2>7. CompletionsInv'
    BY <2>1, Untouched
  <2>8. {irqHint', hint', completeIsr'} \subseteq BOOLEAN
    BY <1>0, <2>1 DEF TypeOK
  <2>9. TypeOK'
    BY <1>0, <2>1, <2>2, <2>5, <2>8 DEF TypeOK, compHist
  <2> QED BY <2>1, <2>6, <2>7, <2>9 DEF Inv, LoopInv
<1>9. CASE RunRequestsEnd
  <2>1. /\ UNCHANGED <<requestRing, completionQueue, irqHint, maxRequests, maxCompletions, hint,
                       request, completeIsr, reqHist, compHist>>
        /\ pc = "requests" /\ pc' = "completions" /\ i' = 0
    BY <1>9 DEF RunRequestsEnd, serviceVars
  <2>2. RequestsInv' /\ CompletionsInv'
    BY <2>1, Untouched
  <2>3. {irqHint', hint', completeIsr'} \subseteq BOOLEAN
    BY <1>0, <2>1 DEF TypeOK
  <2>4. TypeOK'
    BY <1>0, <2>1, <2>3 DEF TypeOK, reqHist, compHist
  <2> QED BY <2>1, <2>2, <2>4 DEF Inv, LoopInv
<1>10. CASE RunCompletion
  <2>1. /\ UNCHANGED <<requestRing, irqHint, maxRequests, maxCompletions, pc, hint, request,
                       completeIsr, reqHist>>
        /\ pc = "completions" /\ i < maxCompletions /\ i' = i + 1
    BY <1>10 DEF RunCompletion
  <2>2. /\ RingOK(completionQueue') /\ CompletionsInv'
        /\ captured' \in 0..MaxCompletions /\ handled' \in 0..captured'
        /\ errors' \in 0..captured' /\ handledErrors' \in 0..errors'
    BY <1>10, PopCompletions
  <2>3. RequestsInv'
    BY <2>1, Untouched
  <2>4. {irqHint', hint', completeIsr'} \subseteq BOOLEAN
    BY <1>0, <2>1 DEF TypeOK
  <2>5. TypeOK'
    BY <1>0, <2>1, <2>2, <2>4 DEF TypeOK, reqHist
  <2> QED BY <2>1, <2>2, <2>3, <2>5 DEF Inv, LoopInv
<1>11. CASE RunEnd
  <2>1. /\ UNCHANGED <<requestRing, completionQueue, irqHint, maxRequests, maxCompletions, hint,
                       request, completeIsr, reqHist, compHist>>
        /\ pc = "completions" /\ pc' = "idle" /\ i' = 0
    BY <1>11 DEF RunEnd, serviceVars
  <2>2. RequestsInv' /\ CompletionsInv'
    BY <2>1, Untouched
  <2>3. {irqHint', hint', completeIsr'} \subseteq BOOLEAN
    BY <1>0, <2>1 DEF TypeOK
  <2>4. TypeOK'
    BY <1>0, <2>1, <2>3 DEF TypeOK, reqHist, compHist
  <2> QED BY <2>1, <2>2, <2>4 DEF Inv, LoopInv
<1>12. CASE UNCHANGED vars
  <2>1. /\ UNCHANGED <<requestRing, completionQueue, irqHint, maxRequests, maxCompletions, pc,
                       hint, i, request, completeIsr, reqHist, compHist>>
    BY <1>12 DEF vars, serviceVars, runVars
  <2>2. RequestsInv' /\ CompletionsInv'
    BY <2>1, Untouched
  <2>3. TypeOK'
    BY <1>0, <2>1 DEF TypeOK, reqHist, compHist
  <2> QED BY <1>0, <2>1, <2>2, <2>3 DEF Inv, LoopInv
<1> QED
  BY <1>1, <1>2, <1>3, <1>4, <1>5, <1>6, <1>7, <1>8, <1>9, <1>10, <1>11, <1>12
  DEF Next, SchI2cEepromIsrComplete, SchI2cEepromServiceRun

(* The invariant holds throughout.                                         *)
LEMMA InvHolds == Spec => []Inv
BY InitInv, NextInv, PTL DEF Spec

-----------------------------------------------------------------------------
(* What the invariant gives.                                               *)

(* The service keeps its types, whatever init was given and however the    *)
(* interrupts fall between its steps.                                      *)
THEOREM EepromTypeCorrect == Spec => []TypeOK
<1>1. Inv => TypeOK
  BY DEF Inv
<1> QED BY <1>1, InvHolds, PTL

(* A request whose enqueue returned true is passed to submit_request once  *)
(* and in turn, for every capacity, budget and number of requests.         *)
THEOREM EepromRequestsOfferedOnce == Spec => []AcceptedRequestsOfferedOnce
<1>1. ASSUME Inv PROVE AcceptedRequestsOfferedOnce
  <2> DEFINE r == requestRing
             h == IF request = NoItem THEN 0 ELSE 1
  <2>1. /\ RequestsInv /\ offered \in Nat /\ accepted \in Nat /\ r.count \in Nat
    BY <1>1, InvTypes
  <2>2. /\ (offered + h) + r.count = accepted /\ h \in 0..1
        /\ request # NoItem => request = offered + 1
        /\ \A k \in 1..r.count : Contents(r)[k] = (offered + h) + k
    BY <2>1 DEF RequestsInv, Held
  <2>3. h = 1 => request = offered + 1
    BY <2>2
  <2>4. Waiting = [k \in 1..(h + r.count) |-> IF k <= h THEN request ELSE Contents(r)[k - h]]
    BY DEF Waiting
  <2> HIDE DEF h, r
  <2>5. h + r.count = accepted - offered
    BY <2>1, <2>2
  <2>6. ASSUME NEW k \in 1..(h + r.count)
        PROVE  (IF k <= h THEN request ELSE Contents(r)[k - h]) = offered + k
    <3>1. CASE k <= h
      <4>1. h = 1 /\ k = 1
        BY <2>2, <3>1
      <4> QED BY <2>3, <3>1, <4>1
    <3>2. CASE ~(k <= h)
      <4>1. k - h \in 1..r.count /\ (offered + h) + (k - h) = offered + k
        BY <2>1, <2>2, <3>2
      <4>2. Contents(r)[k - h] = (offered + h) + (k - h)
        BY <2>2, <4>1
      <4> QED BY <3>2, <4>1, <4>2
    <3> QED BY <3>1, <3>2
  <2> QED BY <2>4, <2>5, <2>6 DEF AcceptedRequestsOfferedOnce
<1> QED BY <1>1, InvHolds, PTL

(* A completion disappears only by overflow, the drop counter says how     *)
(* many did, and no transfer error is lost silently.                       *)
THEOREM EepromCompletionAccounting == Spec => []CompletionAccounting
<1>1. ASSUME Inv PROVE CompletionAccounting
  <2> DEFINE q == completionQueue
  <2>0. /\ CompletionsInv /\ RingOK(q) /\ TypeOK /\ q.count \in Nat /\ q.capacity \in Nat
        /\ (SchRingValid(q) <=> q.capacity > 0) /\ errors \in Nat /\ handledErrors \in Nat
        /\ QueuedErrors \in Nat
    BY <1>1, InvTypes
  <2>1. SchEventQueueDropCount(q) = q.drops
    BY <2>0 DEF SchEventQueueDropCount, SchSpscRingDropCount, RingOK
  <2>2. LostErrors = errors - (handledErrors + QueuedErrors)
    BY DEF LostErrors, QueuedErrors, HowMany
  <2>3. q.drops = LostCompletions % SizeMod
    BY <2>0 DEF CompletionsInv, LostCompletions
  <2>4. handledErrors + QueuedErrors <= errors /\ LostErrors <= LostCompletions
    BY <2>0, <2>2 DEF CompletionsInv, LostCompletions
  <2>5. 0 <= LostErrors
    BY <2>0, <2>2, <2>4
  <2> QED BY <2>1, <2>3, <2>4, <2>5 DEF CompletionAccounting
<1> QED BY <1>1, InvHolds, PTL
=============================================================================
