------------------------- MODULE MotorServiceProofs -------------------------
(***************************************************************************)
(* TLAPS proofs about the motor supervision service, for every capacity,   *)
(* every budget, every set of speeds and any number of interrupts.         *)
(***************************************************************************)
EXTENDS MotorService, SpscRingTheorems

-----------------------------------------------------------------------------
(* The inductive invariants.                                               *)

(* Faults consumed or queued were raised.  A pop needs this to leave taken *)
(* within faults, as TypeOK says it does.                                  *)
FaultsAccounted == taken + HowMany(eventQueue, FAULT) <= faults

TypeInv == TypeOK /\ FaultsAccounted

(* What an undisturbed run has achieved at each of its stages.             *)
CommandStages ==
  ~disturbed =>
    /\ pc \in {"enabled", "speed", "events", "feedback"} => motorOn = enabled
    /\ pc = "speed" => enabled
    /\ pc \in {"events", "feedback"} /\ motorOn => motorSpeed = targetSpeed
    /\ pc = "stop" => ~enabled

(* The drop counter stays below the number of events, so it does not wrap, *)
(* and no fault is missing beyond what it has counted.                     *)
LossCounted ==
  /\ eventQueue.drops + eventQueue.count <= irqs
  /\ faults <= (taken + HowMany(eventQueue, FAULT)) + eventQueue.drops

(* What the service may push.                                              *)
LEMMA ItemsPushed == FEEDBACK \in Items /\ FAULT \in Items /\ Sample \in Items
BY MotorAssumption DEF MotorItems

(* The service starts in the invariant.                                    *)
LEMMA InitTypeInv == Init => TypeInv
<1> SUFFICES ASSUME Init PROVE TypeInv
  OBVIOUS
<1>1. RingOK(feedbackRing) /\ RingOK(eventQueue) /\ eventQueue.count = 0
  BY ZeroRingOK DEF Init
<1>2. HowMany(eventQueue, FAULT) = 0
  BY <1>1, HowManyEmpty
<1>3. {enabled, irqHint, hint, motorOn, tripped, refused, disturbed} \subseteq BOOLEAN
  BY DEF Init
<1>4. pc = "idle" /\ i = 0 /\ 0 \in 0..MaxIrqs /\ 0 \in 0..0
  BY MotorAssumption DEF Init
<1>5. TypeOK
  BY <1>1, <1>3, <1>4, MotorAssumption DEF Init, TypeOK
<1>6. FaultsAccounted
  BY <1>2 DEF Init, FaultsAccounted
<1> QED BY <1>5, <1>6 DEF TypeInv

(* One push of an event id.                                                *)
LEMMA PushEventTypeInv ==
  ASSUME TypeInv, NEW id \in {FEEDBACK, FAULT}, PushEvent(id)
  PROVE  /\ RingOK(eventQueue') /\ FaultsAccounted'
         /\ irqs' \in 0..MaxIrqs /\ faults' \in 0..irqs' /\ taken' \in 0..faults'
<1>1. /\ RingOK(eventQueue) /\ irqs \in 0..MaxIrqs /\ faults \in 0..irqs
      /\ taken \in 0..faults /\ taken + HowMany(eventQueue, FAULT) <= faults
      /\ MaxIrqs \in Nat /\ id \in Items
  BY ItemsPushed, MotorAssumption DEF TypeInv, TypeOK, FaultsAccounted
<1>2. /\ eventQueue' = SchSpscRingPushIsr(eventQueue, id) /\ taken' = taken
      /\ SchRingValid(eventQueue) => irqs < MaxIrqs
  BY DEF PushEvent, SchEventQueuePushIsr
<1>3. RingOK(eventQueue')
  BY <1>1, <1>2, PushEffect
<1>4. HowMany(eventQueue, FAULT) \in Nat /\ HowMany(eventQueue', FAULT) \in Nat
  BY <1>1, <1>3, HowManyOccurs
<1>5. CASE ~SchRingValid(eventQueue)
  <2>1. irqs' = irqs /\ faults' = faults
    BY <1>5 DEF PushEvent
  <2>2. eventQueue' = eventQueue
    BY <1>2, <1>5 DEF SchSpscRingPushIsr
  <2> QED BY <1>1, <1>2, <1>3, <2>1, <2>2 DEF FaultsAccounted
<1>6. CASE SchRingValid(eventQueue)
  <2>1. irqs' = irqs + 1 /\ faults' = faults + Match(id, FAULT) /\ Match(id, FAULT) \in 0..1
    BY <1>1, <1>6 DEF PushEvent, Match
  <2>2. HowMany(eventQueue', FAULT) <= HowMany(eventQueue, FAULT) + Match(id, FAULT)
    <3>1. /\ eventQueue.capacity \in Nat /\ eventQueue.count \in 0..eventQueue.capacity
          /\ eventQueue.capacity > 0
      BY <1>1, <1>6 DEF RingOK, SchRingValid
    <3>2. CASE eventQueue.count < eventQueue.capacity
      BY <1>1, <1>2, <1>4, <2>1, <3>2, PushHowMany
    <3>3. CASE eventQueue.count = eventQueue.capacity
      <4>1. PICK lost \in Items : \A x : HowMany(eventQueue', x)
              = (HowMany(eventQueue, x) + Match(id, x)) - Match(lost, x)
        BY <1>1, <1>2, <3>1, <3>3, PushHowMany
      <4>2. Match(lost, FAULT) \in 0..1
        BY DEF Match
      <4> QED BY <1>4, <2>1, <4>1, <4>2
    <3> QED BY <3>1, <3>2, <3>3
  <2> QED BY <1>1, <1>2, <1>3, <1>4, <1>6, <2>1, <2>2 DEF FaultsAccounted
<1> QED BY <1>5, <1>6

(* Every step preserves it.                                                *)
LEMMA NextTypeInv == TypeInv /\ [Next]_vars => TypeInv'
<1> SUFFICES ASSUME TypeInv, [Next]_vars PROVE TypeInv'
  OBVIOUS
<1> USE DEF TypeInv
<1>0. /\ RingOK(feedbackRing) /\ RingOK(eventQueue) /\ FaultsAccounted /\ TypeOK
      /\ MaxIrqs \in Nat /\ maxFeedback \in Nat /\ maxEvents \in Nat
      /\ irqs \in Nat /\ faults \in Nat /\ taken \in Nat
  BY MotorAssumption DEF TypeOK
<1>1. ASSUME NEW fc \in FeedbackCapacities, NEW ec \in EventCapacities,
             NEW fb \in FeedbackBudgets, NEW eb \in EventBudgets,
             SchMotorSupervisionServiceInit(fc, ec, fb, eb)
      PROVE  TypeInv'
  <2>1. fc \in Nat /\ ec \in Nat /\ fb \in Nat /\ eb \in Nat /\ DROP_OLDEST \in OverflowModes
    BY MotorAssumption DEF OverflowModes
  <2>2. RingOK(feedbackRing')
    BY <1>0, <1>1, <2>1, InitEffect DEF SchMotorSupervisionServiceInit, InitArgsValid
  <2>3. /\ RingOK(eventQueue') /\ FaultsAccounted'
        /\ irqs' \in 0..MaxIrqs /\ faults' \in 0..irqs' /\ taken' \in 0..faults'
    <3>1. CASE InitArgsValid(ec, DROP_OLDEST)
      <4>1. eventQueue' = SchSpscRingInit(ec, DROP_OLDEST) /\ irqs' = 0 /\ faults' = 0 /\ taken' = 0
        BY <1>1, <3>1 DEF SchMotorSupervisionServiceInit, SchEventQueueInit
      <4>2. RingOK(eventQueue') /\ eventQueue'.count = 0
        BY <2>1, <3>1, <4>1, InitEffect DEF InitArgsValid
      <4>3. HowMany(eventQueue', FAULT) = 0
        BY <4>2, HowManyEmpty
      <4> QED BY <1>0, <4>1, <4>2, <4>3 DEF FaultsAccounted
    <3>2. CASE ~InitArgsValid(ec, DROP_OLDEST)
      BY <1>0, <1>1, <3>2 DEF SchMotorSupervisionServiceInit, FaultsAccounted, TypeOK
    <3> QED BY <3>1, <3>2
  <2> QED BY <1>0, <1>1, <2>1, <2>2, <2>3, MotorAssumption
          DEF SchMotorSupervisionServiceInit, TypeOK, runVars, isrVars, motorVars
<1>2. ASSUME NEW enable \in BOOLEAN, NEW speed \in Speeds,
             SchMotorSupervisionSetCommand(enable, speed)
      PROVE  TypeInv'
  BY <1>0, <1>2 DEF SchMotorSupervisionSetCommand, TypeOK, FaultsAccounted,
                    runVars, isrVars, motorVars
<1>3. ASSUME FeedbackIsrSample PROVE TypeInv'
  <2>1. RingOK(feedbackRing')
    BY <1>0, <1>3, ItemsPushed, PushEffect DEF FeedbackIsrSample
  <2> QED BY <1>0, <1>3, <2>1 DEF FeedbackIsrSample, TypeOK, FaultsAccounted,
                                  runVars, motorVars, histVars
<1>4. ASSUME FeedbackIsrEvent PROVE TypeInv'
  <2>1. /\ RingOK(eventQueue') /\ FaultsAccounted'
        /\ irqs' \in 0..MaxIrqs /\ faults' \in 0..irqs' /\ taken' \in 0..faults'
    BY <1>4, PushEventTypeInv DEF FeedbackIsrEvent
  <2> QED BY <1>0, <1>4, <2>1 DEF FeedbackIsrEvent, PushEvent, TypeOK, runVars, motorVars
<1>5. ASSUME FaultIsrEvent PROVE TypeInv'
  <2>1. /\ RingOK(eventQueue') /\ FaultsAccounted'
        /\ irqs' \in 0..MaxIrqs /\ faults' \in 0..irqs' /\ taken' \in 0..faults'
    BY <1>5, PushEventTypeInv DEF FaultIsrEvent
  <2> QED BY <1>0, <1>5, <2>1 DEF FaultIsrEvent, PushEvent, TypeOK, runVars, motorVars
<1>6. ASSUME FeedbackIsrHint \/ FaultIsrHint PROVE TypeInv'
  BY <1>0, <1>6 DEF FeedbackIsrHint, FaultIsrHint, SetHint, TypeOK, FaultsAccounted,
                    runVars, motorVars, histVars
<1>7. ASSUME RunTakeHint \/ RunCheck PROVE TypeInv'
  BY <1>0, <1>7 DEF RunTakeHint, RunCheck, TypeOK, FaultsAccounted,
                    serviceVars, isrVars, motorVars, histVars
<1>8. ASSUME RunSetEnable \/ RunCheckEnabled \/ RunSetTargetSpeed PROVE TypeInv'
  <2>1. {enabled, irqHint, hint, motorOn, tripped, refused, disturbed}' \subseteq BOOLEAN
    BY <1>0, <1>8 DEF RunSetEnable, RunCheckEnabled, RunSetTargetSpeed, TypeOK, serviceVars,
                      motorVars, histVars
  <2> QED BY <1>0, <1>8, <2>1 DEF RunSetEnable, RunCheckEnabled, RunSetTargetSpeed, TypeOK,
                     FaultsAccounted, serviceVars, isrVars, motorVars, histVars
<1>9. ASSUME RunEvent PROVE TypeInv'
  <2>1. eventQueue' = SchSpscRingPopTask(eventQueue) /\ PopSucceeds(eventQueue)
    BY <1>9 DEF RunEvent, SchEventQueuePopTask
  <2>2. RingOK(eventQueue')
    BY <1>0, <2>1, PopEffect
  <2>3. /\ HowMany(eventQueue, FAULT)
             = HowMany(eventQueue', FAULT) + Match(PoppedItem(eventQueue), FAULT)
        /\ HowMany(eventQueue', FAULT) \in Nat
    BY <1>0, <2>1, <2>2, PopHowMany, HowManyOccurs
  <2>4. faults' = faults /\ irqs' = irqs /\ taken' = taken + Match(PoppedItem(eventQueue), FAULT)
    BY <1>0, <1>9 DEF RunEvent, Match
  <2>5. Match(PoppedItem(eventQueue), FAULT) \in 0..1
    BY DEF Match
  <2>6. FaultsAccounted' /\ taken' \in 0..faults'
    BY <1>0, <2>3, <2>4, <2>5 DEF FaultsAccounted
  <2>7. irqs' \in 0..MaxIrqs /\ faults' \in 0..irqs'
    BY <2>4 DEF TypeOK
  <2>8. {enabled, irqHint, hint, motorOn, tripped, refused, disturbed}' \subseteq BOOLEAN
    BY <1>0, <1>9 DEF RunEvent, Trip, TypeOK, motorVars
  <2>9. \/ pc' = "events" /\ i' \in 0..maxEvents'
        \/ pc' = "stop" /\ i' \in 1..maxEvents'
    BY <1>0, <1>9 DEF RunEvent, TypeOK
  <2>10. /\ RingOK(feedbackRing') /\ targetSpeed' \in Speeds /\ motorSpeed' \in Speeds
         /\ maxFeedback' \in FeedbackBudgets \cup {0} /\ maxEvents' \in EventBudgets \cup {0}
         /\ feedbackIsr' \in {"none", "event", "hint"} /\ faultIsr' \in {"none", "hint"}
    BY <1>0, <1>9 DEF RunEvent, TypeOK, isrVars, motorVars
  <2> QED BY <2>2, <2>6, <2>7, <2>8, <2>9, <2>10 DEF TypeOK
<1>10. ASSUME RunStop \/ RunEventsEnd \/ RunEnd PROVE TypeInv'
  <2>1. {enabled, irqHint, hint, motorOn, tripped, refused, disturbed}' \subseteq BOOLEAN
    BY <1>0, <1>10 DEF RunStop, RunEventsEnd, RunEnd, TypeOK, serviceVars, motorVars, histVars
  <2> QED BY <1>0, <1>10, <2>1 DEF RunStop, RunEventsEnd, RunEnd, TypeOK, FaultsAccounted,
                     serviceVars, isrVars, motorVars, histVars
<1>11. ASSUME RunFeedback PROVE TypeInv'
  <2>1. RingOK(feedbackRing')
    BY <1>0, <1>11, PopEffect DEF RunFeedback
  <2> QED BY <1>0, <1>11, <2>1 DEF RunFeedback, TypeOK, FaultsAccounted, isrVars, motorVars, histVars
<1>12. ASSUME UNCHANGED vars PROVE TypeInv'
  BY <1>0, <1>12 DEF vars, serviceVars, runVars, isrVars, motorVars, histVars, TypeOK, FaultsAccounted
<1> QED BY <1>1, <1>2, <1>3, <1>4, <1>5, <1>6, <1>7, <1>8, <1>9, <1>10, <1>11, <1>12
        DEF Next, SchMotorIsrFeedback, SchMotorIsrFault, SchMotorSupervisionServiceRun

(* Type correctness: among the rest, both loops stay within their budgets  *)
(* and the rings stay well formed under the interleaving of interrupts.    *)
THEOREM MotorTypeCorrect == Spec => []TypeOK
<1>1. TypeInv => TypeOK
  BY DEF TypeInv
<1> QED BY <1>1, InitTypeInv, NextTypeInv, PTL DEF Spec

-----------------------------------------------------------------------------
(* A fault latches until the next command, in every interleaving of runs,  *)
(* commands, interrupts and HAL refusals.                                  *)
LEMMA FaultLatchedStep == TypeInv /\ FaultLatched /\ [Next]_vars => FaultLatched'
<1> SUFFICES ASSUME TypeInv, FaultLatched, [Next]_vars PROVE FaultLatched'
  OBVIOUS
<1> USE DEF FaultLatched
<1>0. {enabled, irqHint, hint, motorOn, tripped, refused, disturbed} \subseteq BOOLEAN
  BY DEF TypeInv, TypeOK
<1>1. ASSUME NEW fc \in FeedbackCapacities, NEW ec \in EventCapacities,
             NEW fb \in FeedbackBudgets, NEW eb \in EventBudgets,
             SchMotorSupervisionServiceInit(fc, ec, fb, eb)
      PROVE  FaultLatched'
  BY <1>1 DEF SchMotorSupervisionServiceInit
<1>2. ASSUME NEW enable \in BOOLEAN, NEW speed \in Speeds,
             SchMotorSupervisionSetCommand(enable, speed)
      PROVE  FaultLatched'
  BY <1>2 DEF SchMotorSupervisionSetCommand
<1>3. ASSUME SchMotorIsrFeedback \/ SchMotorIsrFault PROVE FaultLatched'
  BY <1>3 DEF SchMotorIsrFeedback, SchMotorIsrFault, FeedbackIsrSample, FeedbackIsrEvent,
              FeedbackIsrHint, FaultIsrEvent, FaultIsrHint, PushEvent, SetHint,
              runVars, motorVars, histVars
<1>4. ASSUME RunSetEnable PROVE FaultLatched'
  BY <1>0, <1>4 DEF RunSetEnable, serviceVars
<1>5. ASSUME RunEvent PROVE FaultLatched'
  BY <1>0, <1>5 DEF RunEvent, Trip, motorVars
<1>6. ASSUME RunStop PROVE FaultLatched'
  BY <1>0, <1>6 DEF RunStop, serviceVars
<1>7. ASSUME \/ RunTakeHint \/ RunCheck \/ RunCheckEnabled \/ RunSetTargetSpeed
             \/ RunEventsEnd \/ RunFeedback \/ RunEnd
      PROVE  FaultLatched'
  BY <1>7 DEF RunTakeHint, RunCheck, RunCheckEnabled, RunSetTargetSpeed, RunEventsEnd, RunFeedback, RunEnd,
              serviceVars, motorVars, histVars
<1>8. ASSUME UNCHANGED vars PROVE FaultLatched'
  BY <1>8 DEF vars, serviceVars, runVars, motorVars, histVars
<1> QED BY <1>1, <1>2, <1>3, <1>4, <1>5, <1>6, <1>7, <1>8
        DEF Next, SchMotorSupervisionServiceRun

(* From the moment its event is consumed a fault keeps the motor off until *)
(* somebody sets a new command, unless the HAL refuses the stop.           *)
THEOREM MotorFaultLatched == Spec => []FaultLatched
<1>1. Init => FaultLatched
  BY DEF Init, FaultLatched
<1> QED BY <1>1, InitTypeInv, NextTypeInv, FaultLatchedStep, PTL DEF Spec

-----------------------------------------------------------------------------
(* Each stage of a run carries what the next one needs.                    *)
LEMMA CommandStagesStep == TypeInv /\ CommandStages /\ [Next]_vars => CommandStages'
<1> SUFFICES ASSUME TypeInv, CommandStages, [Next]_vars PROVE CommandStages'
  OBVIOUS
<1> USE DEF CommandStages
<1>0. {enabled, irqHint, hint, motorOn, tripped, refused, disturbed} \subseteq BOOLEAN
  BY DEF TypeInv, TypeOK
<1>1. ASSUME NEW fc \in FeedbackCapacities, NEW ec \in EventCapacities,
             NEW fb \in FeedbackBudgets, NEW eb \in EventBudgets,
             SchMotorSupervisionServiceInit(fc, ec, fb, eb)
      PROVE  CommandStages'
  BY <1>1 DEF SchMotorSupervisionServiceInit, runVars
<1>2. ASSUME NEW enable \in BOOLEAN, NEW speed \in Speeds,
             SchMotorSupervisionSetCommand(enable, speed)
      PROVE  CommandStages'
  BY <1>2 DEF SchMotorSupervisionSetCommand, runVars
<1>3. ASSUME SchMotorIsrFeedback \/ SchMotorIsrFault PROVE CommandStages'
  BY <1>3 DEF SchMotorIsrFeedback, SchMotorIsrFault, FeedbackIsrSample, FeedbackIsrEvent,
              FeedbackIsrHint, FaultIsrEvent, FaultIsrHint, PushEvent, SetHint,
              runVars, motorVars, histVars
<1>4. ASSUME RunSetEnable PROVE CommandStages'
  BY <1>0, <1>4 DEF RunSetEnable, serviceVars
<1>5. ASSUME RunSetTargetSpeed PROVE CommandStages'
  BY <1>0, <1>5 DEF RunSetTargetSpeed, serviceVars
<1>6. ASSUME RunEvent PROVE CommandStages'
  BY <1>0, <1>6 DEF RunEvent, Trip, motorVars
<1>7. ASSUME RunStop PROVE CommandStages'
  BY <1>0, <1>7 DEF RunStop, serviceVars
<1>8. ASSUME RunTakeHint \/ RunCheck \/ RunCheckEnabled \/ RunEventsEnd \/ RunFeedback \/ RunEnd
      PROVE  CommandStages'
  BY <1>8 DEF RunTakeHint, RunCheck, RunCheckEnabled, RunEventsEnd, RunFeedback, RunEnd,
              serviceVars, motorVars, histVars
<1>9. ASSUME UNCHANGED vars PROVE CommandStages'
  BY <1>9 DEF vars, serviceVars, runVars, motorVars, histVars
<1> QED BY <1>1, <1>2, <1>3, <1>4, <1>5, <1>6, <1>7, <1>8, <1>9
        DEF Next, SchMotorSupervisionServiceRun

(* When a run has consumed its events the motor follows the stored         *)
(* command, unless a new command came in between or the HAL refused.       *)
THEOREM MotorCommandApplied == Spec => []CommandAppliedUndisturbed
<1>1. Init => CommandStages
  BY DEF Init, CommandStages
<1>2. CommandStages => CommandAppliedUndisturbed
  BY DEF CommandStages, CommandAppliedUndisturbed
<1> QED BY <1>1, <1>2, InitTypeInv, NextTypeInv, CommandStagesStep, PTL DEF Spec

-----------------------------------------------------------------------------
(* A push keeps the account of lost faults: the queue that loses a fault   *)
(* counts it, and the counter has not wrapped.                             *)
LEMMA PushEventLoss ==
  ASSUME TypeInv, LossCounted, MaxIrqs < SizeMod, NEW id \in {FEEDBACK, FAULT}, PushEvent(id)
  PROVE  LossCounted'
<1> DEFINE q == eventQueue
           h == HowMany(q, FAULT)
           n == HowMany(q', FAULT)
           d == Match(id, FAULT)
<1>1. /\ RingOK(q) /\ irqs \in 0..MaxIrqs /\ faults \in 0..irqs /\ taken \in 0..faults
      /\ MaxIrqs \in Nat /\ SizeMod \in Nat /\ id \in Items
      /\ q.drops + q.count <= irqs /\ faults <= (taken + h) + q.drops
  BY ItemsPushed, MotorAssumption, RingAssumption DEF TypeInv, TypeOK, LossCounted
<1>2. /\ q' = SchSpscRingPushIsr(q, id) /\ taken' = taken
      /\ SchRingValid(q) => irqs < MaxIrqs
  BY DEF PushEvent, SchEventQueuePushIsr
<1>3. RingOK(q')
  BY <1>1, <1>2, PushEffect
<1>4. /\ h \in Nat /\ n \in Nat /\ d \in 0..1 /\ q.drops \in Nat
      /\ q.capacity \in Nat /\ q.count \in 0..q.capacity
  <2>1. h \in Nat /\ n \in Nat
    BY <1>1, <1>3, HowManyOccurs
  <2>2. d \in 0..1
    BY DEF Match
  <2>3. q.drops \in Nat /\ q.capacity \in Nat /\ q.count \in 0..q.capacity
    BY <1>1 DEF RingOK
  <2> QED BY <2>1, <2>2, <2>3
<1>5. CASE ~SchRingValid(q)
  <2>1. irqs' = irqs /\ faults' = faults /\ q' = q
    BY <1>2, <1>5 DEF PushEvent, SchSpscRingPushIsr
  <2> QED BY <1>1, <1>2, <2>1 DEF LossCounted
<1>6. CASE SchRingValid(q)
  <2>1. irqs' = irqs + 1 /\ faults' = faults + d /\ q.capacity > 0
    BY <1>1, <1>6 DEF PushEvent, Match, SchRingValid
  <2>2. CASE q.count < q.capacity
    <3>1. q'.drops = q.drops /\ q'.count = q.count + 1
      BY <1>1, <1>2, <2>2, PushEffect
    <3>2. n = h + d
      BY <1>1, <1>2, <2>2, PushHowMany
    <3> HIDE DEF q, h, n, d
    <3>3. q'.drops + q'.count <= irqs' /\ faults' <= (taken' + n) + q'.drops
      BY <1>1, <1>2, <1>4, <2>1, <3>1, <3>2
    <3> QED BY <3>3 DEF LossCounted, q, n
  <2>3. CASE q.count = q.capacity
    <3>1. q'.drops = (q.drops + 1) % SizeMod /\ q'.count = q.count
      BY <1>1, <1>2, <2>1, <2>3, PushEffect
    <3>2. PICK lost \in Items : \A x :
            HowMany(q', x) = (HowMany(q, x) + Match(id, x)) - Match(lost, x)
      BY <1>1, <1>2, <2>1, <2>3, PushHowMany
    <3>3. n = (h + d) - Match(lost, FAULT) /\ Match(lost, FAULT) \in 0..1
      BY <3>2 DEF Match
    <3> HIDE DEF q, h, n, d
    <3>4. q.drops + 1 < SizeMod
      BY <1>1, <1>2, <1>4, <1>6
    <3>5. q'.drops = q.drops + 1
      BY <1>1, <1>4, <3>1, <3>4
    <3>6. q'.drops + q'.count <= irqs' /\ faults' <= (taken' + n) + q'.drops
      BY <1>1, <1>2, <1>4, <2>1, <3>1, <3>3, <3>5
    <3> QED BY <3>6 DEF LossCounted, q, n
  <2> QED BY <1>4, <2>2, <2>3
<1> QED BY <1>5, <1>6

(* Every step keeps that account, as long as the bound on the events       *)
(* between two inits is below the width of the counter.                    *)
LEMMA LossCountedStep ==
  MaxIrqs < SizeMod => (TypeInv /\ LossCounted /\ [Next]_vars => LossCounted')
<1> SUFFICES ASSUME MaxIrqs < SizeMod, TypeInv, LossCounted, [Next]_vars PROVE LossCounted'
  OBVIOUS
<1>0. RingOK(eventQueue) /\ taken \in Nat /\ faults \in Nat /\ irqs \in Nat
  BY MotorAssumption DEF TypeInv, TypeOK
<1>1. ASSUME NEW fc \in FeedbackCapacities, NEW ec \in EventCapacities,
             NEW fb \in FeedbackBudgets, NEW eb \in EventBudgets,
             SchMotorSupervisionServiceInit(fc, ec, fb, eb)
      PROVE  LossCounted'
  <2>1. CASE InitArgsValid(ec, DROP_OLDEST)
    <3>1. eventQueue' = SchSpscRingInit(ec, DROP_OLDEST) /\ irqs' = 0 /\ faults' = 0 /\ taken' = 0
      BY <1>1, <2>1 DEF SchMotorSupervisionServiceInit, SchEventQueueInit
    <3>2. ec \in Nat \ {0} /\ DROP_OLDEST \in OverflowModes
      BY <2>1, MotorAssumption DEF InitArgsValid
    <3>3. RingOK(eventQueue') /\ eventQueue'.count = 0 /\ eventQueue'.drops = 0
      BY <3>1, <3>2, InitEffect
    <3>4. HowMany(eventQueue', FAULT) = 0
      BY <3>3, HowManyEmpty
    <3> QED BY <3>1, <3>3, <3>4 DEF LossCounted
  <2>2. CASE ~InitArgsValid(ec, DROP_OLDEST)
    BY <1>1, <2>2 DEF SchMotorSupervisionServiceInit, LossCounted
  <2> QED BY <2>1, <2>2
<1>2. ASSUME FeedbackIsrEvent \/ FaultIsrEvent PROVE LossCounted'
  BY <1>2, PushEventLoss DEF FeedbackIsrEvent, FaultIsrEvent
<1>3. ASSUME RunEvent PROVE LossCounted'
  <2>1. eventQueue' = SchSpscRingPopTask(eventQueue) /\ PopSucceeds(eventQueue)
    BY <1>3 DEF RunEvent, SchEventQueuePopTask
  <2>2. /\ RingOK(eventQueue') /\ eventQueue'.drops = eventQueue.drops
        /\ eventQueue'.count = eventQueue.count - 1
    BY <1>0, <2>1, PopEffect
  <2>3. HowMany(eventQueue, FAULT)
          = HowMany(eventQueue', FAULT) + Match(PoppedItem(eventQueue), FAULT)
    BY <1>0, <2>1, PopHowMany
  <2>4. /\ HowMany(eventQueue', FAULT) \in Nat /\ Match(PoppedItem(eventQueue), FAULT) \in 0..1
        /\ eventQueue.drops \in Nat /\ eventQueue.count \in Nat
    <3>1. HowMany(eventQueue', FAULT) \in Nat
      BY <2>2, HowManyOccurs
    <3>2. Match(PoppedItem(eventQueue), FAULT) \in 0..1
      BY DEF Match
    <3>3. eventQueue.drops \in Nat /\ eventQueue.count \in Nat
      BY <1>0 DEF RingOK
    <3> QED BY <3>1, <3>2, <3>3
  <2>5. faults' = faults /\ irqs' = irqs /\ taken' = taken + Match(PoppedItem(eventQueue), FAULT)
    BY <1>0, <1>3 DEF RunEvent, Match
  <2> QED BY <1>0, <2>2, <2>3, <2>4, <2>5 DEF LossCounted
<1>4. ASSUME UNCHANGED <<eventQueue, irqs, faults, taken>> PROVE LossCounted'
  BY <1>4 DEF LossCounted
<1>5. ASSUME \/ \E enable \in BOOLEAN, speed \in Speeds : SchMotorSupervisionSetCommand(enable, speed)
             \/ FeedbackIsrSample \/ FeedbackIsrHint \/ FaultIsrHint
             \/ RunTakeHint \/ RunCheck \/ RunSetEnable \/ RunCheckEnabled
             \/ RunSetTargetSpeed \/ RunStop \/ RunEventsEnd \/ RunFeedback \/ RunEnd \/ UNCHANGED vars
      PROVE  UNCHANGED <<eventQueue, irqs, faults, taken>>
  BY <1>5 DEF SchMotorSupervisionSetCommand, FeedbackIsrSample, FeedbackIsrHint, FaultIsrHint,
              SetHint, RunTakeHint, RunCheck, RunSetEnable, RunCheckEnabled, RunSetTargetSpeed, RunStop,
              RunEventsEnd, RunFeedback, RunEnd, vars, serviceVars, histVars
<1> QED BY <1>1, <1>2, <1>3, <1>4, <1>5
        DEF Next, SchMotorIsrFeedback, SchMotorIsrFault, SchMotorSupervisionServiceRun

(* A fault interrupt disappears only by overflow, and the drop counter has *)
(* counted it, up to as many events since the last init as a size_t holds. *)
THEOREM MotorNoUncountedFaultLoss ==
  ASSUME MaxIrqs < SizeMod
  PROVE  Spec => []NoUncountedFaultLoss
<1>1. Init => LossCounted
  <2> SUFFICES ASSUME Init PROVE LossCounted
    OBVIOUS
  <2>1. RingOK(eventQueue) /\ eventQueue.count = 0 /\ eventQueue.drops = 0
    BY ZeroRingOK DEF Init
  <2>2. HowMany(eventQueue, FAULT) = 0
    BY <2>1, HowManyEmpty
  <2> QED BY <2>1, <2>2 DEF Init, LossCounted
<1>2. TypeInv /\ LossCounted => NoUncountedFaultLoss
  <2> SUFFICES ASSUME TypeInv, LossCounted PROVE NoUncountedFaultLoss
    OBVIOUS
  <2>1. RingOK(eventQueue) /\ taken \in Nat /\ faults \in Nat
    BY MotorAssumption DEF TypeInv, TypeOK
  <2>2. HowMany(eventQueue, FAULT) \in Nat /\ QueuedFaults = HowMany(eventQueue, FAULT)
    BY <2>1, HowManyOccurs DEF QueuedFaults, HowMany
  <2>3. eventQueue.drops \in Nat /\ SchEventQueueDropCount(eventQueue) = eventQueue.drops
    BY <2>1 DEF RingOK, SchEventQueueDropCount, SchSpscRingDropCount, SchRingValid
  <2>4. faults <= (taken + HowMany(eventQueue, FAULT)) + eventQueue.drops
    BY DEF LossCounted
  <2> QED BY <2>1, <2>2, <2>3, <2>4 DEF NoUncountedFaultLoss
<1>3. TypeInv /\ LossCounted /\ [Next]_vars => LossCounted'
  BY LossCountedStep
<1> QED BY <1>1, <1>2, <1>3, InitTypeInv, NextTypeInv, PTL DEF Spec
=============================================================================
