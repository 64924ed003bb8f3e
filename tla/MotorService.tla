---------------------------- MODULE MotorService ----------------------------
(***************************************************************************)
(* motor_supervision_service.c: a command that other tasks set, feedback   *)
(* and fault interrupts that queue events, and a scheduler task that       *)
(* applies the command and consumes the events.                            *)
(*                                                                         *)
(* Each critical section and each call of the motor HAL is a step of its   *)
(* own, so interrupts fall between any two of them.  The HAL may refuse    *)
(* any call, and the service ignores the result.  set_command comes from a *)
(* task or from an interrupt, and then in the middle of a run too; init    *)
(* comes from a task and finds no run in progress.                         *)
(***************************************************************************)
EXTENDS SpscRing, FiniteSets

CONSTANTS
  FeedbackCapacities, EventCapacities,   \* capacity arguments of init
  FeedbackBudgets, EventBudgets,         \* max_*_per_run arguments
  Speeds,                                \* target_speed_rpm arguments, and 0
  MaxIrqs                                \* bound on events between two inits

FEEDBACK == "SCH_MOTOR_EVENT_FEEDBACK"
FAULT    == "SCH_MOTOR_EVENT_FAULT"

(* A feedback sample is dropped unread by the service: its value is left   *)
(* out.                                                                    *)
Sample == "sample"

(* What the two rings hold.                                                *)
MotorItems == {FEEDBACK, FAULT, Sample}

ASSUME MotorAssumption ==
  /\ Items = MotorItems
  /\ FeedbackCapacities \cup EventCapacities \subseteq Nat
  /\ FeedbackBudgets \cup EventBudgets \subseteq Nat
  /\ Speeds \subseteq Nat /\ 0 \in Speeds
  /\ MaxIrqs \in Nat

VARIABLES
  \* sch_motor_supervision_service_t
  feedbackRing, eventQueue, targetSpeed, enabled, irqHint,
  maxFeedback, maxEvents,
  \* sch_motor_supervision_service_run
  pc, hint, i,
  \* the interrupt handlers: the next step of each
  feedbackIsr, faultIsr,
  \* the motor behind the HAL
  motorOn, motorSpeed,
  \* history
  irqs,      \* events pushed to a valid queue since the last init
  faults,    \* fault events among them
  taken,     \* fault events consumed since then
  tripped,   \* a fault was consumed since the last command or init
  refused,   \* the HAL refused the latest stop since then
  disturbed  \* since the run's set_enable, a command came or the HAL refused

serviceVars == <<feedbackRing, eventQueue, targetSpeed, enabled, irqHint, maxFeedback, maxEvents>>
runVars     == <<pc, hint, i>>
isrVars     == <<feedbackIsr, faultIsr>>
motorVars   == <<motorOn, motorSpeed>>
histVars    == <<irqs, faults, taken, tripped, refused, disturbed>>
vars == <<serviceVars, runVars, isrVars, motorVars, histVars>>

Init ==
  /\ feedbackRing = ZeroRing /\ eventQueue = ZeroRing
  /\ targetSpeed = 0 /\ enabled = FALSE /\ irqHint = FALSE
  /\ maxFeedback = 0 /\ maxEvents = 0
  /\ pc = "idle" /\ hint = FALSE /\ i = 0
  /\ feedbackIsr = "none" /\ faultIsr = "none"
  /\ motorOn = FALSE /\ motorSpeed = 0
  /\ irqs = 0 /\ faults = 0 /\ taken = 0
  /\ tripped = FALSE /\ refused = FALSE /\ disturbed = FALSE

(* Init with nonzero budgets.  The command is cleared but not sent to the  *)
(* motor, and each ring is replaced only if its own arguments are valid:   *)
(* a failed init leaves a mixture behind.                                  *)
SchMotorSupervisionServiceInit(fc, ec, fb, eb) ==
  /\ pc = "idle" /\ fb # 0 /\ eb # 0
  /\ targetSpeed' = 0 /\ enabled' = FALSE /\ irqHint' = FALSE
  /\ maxFeedback' = fb /\ maxEvents' = eb
  /\ feedbackRing' = IF InitArgsValid(fc, DROP_OLDEST)
                       THEN SchSpscRingInit(fc, DROP_OLDEST) ELSE feedbackRing
  /\ IF InitArgsValid(ec, DROP_OLDEST)
       THEN /\ eventQueue' = SchEventQueueInit(ec, DROP_OLDEST)
            /\ irqs' = 0 /\ faults' = 0 /\ taken' = 0
       ELSE UNCHANGED <<eventQueue, irqs, faults, taken>>
  /\ tripped' = FALSE /\ refused' = FALSE
  /\ UNCHANGED <<runVars, isrVars, motorVars, disturbed>>

(* Two stores without a critical section.  Nothing that can interrupt a    *)
(* task reads them, and from an interrupt they are one step for the run.   *)
SchMotorSupervisionSetCommand(enable, speed) ==
  /\ enabled' = enable
  /\ targetSpeed' = speed
  /\ tripped' = FALSE
  /\ refused' = FALSE
  /\ disturbed' = (pc \notin {"idle", "check", "enable"})
  /\ UNCHANGED <<feedbackRing, eventQueue, irqHint, maxFeedback, maxEvents,
                 runVars, isrVars, motorVars, irqs, faults, taken>>

-----------------------------------------------------------------------------
(* sch_motor_isr_feedback: read a sample if the HAL has one, queue the     *)
(* event, set the hint.                                                    *)
FeedbackIsrSample ==
  /\ feedbackIsr = "none"
  /\ irqs < MaxIrqs
  /\ \/ feedbackRing' = SchSpscRingPushIsr(feedbackRing, Sample)
     \/ UNCHANGED feedbackRing   \* read_feedback_sample returns false
  /\ feedbackIsr' = "event"
  /\ UNCHANGED <<eventQueue, targetSpeed, enabled, irqHint, maxFeedback, maxEvents,
                 runVars, faultIsr, motorVars, histVars>>

(* The push of one event id by either handler.                             *)
PushEvent(id) ==
  /\ SchRingValid(eventQueue) => irqs < MaxIrqs
  /\ eventQueue' = SchEventQueuePushIsr(eventQueue, id)
  /\ IF SchRingValid(eventQueue)
       THEN irqs' = irqs + 1 /\ faults' = (IF id = FAULT THEN faults + 1 ELSE faults)
       ELSE UNCHANGED <<irqs, faults>>
  /\ UNCHANGED <<feedbackRing, targetSpeed, enabled, irqHint, maxFeedback, maxEvents,
                 runVars, motorVars, taken, tripped, refused, disturbed>>

FeedbackIsrEvent ==
  /\ feedbackIsr = "event"
  /\ PushEvent(FEEDBACK)
  /\ feedbackIsr' = "hint"
  /\ UNCHANGED faultIsr

SetHint ==
  /\ irqHint' = TRUE
  /\ UNCHANGED <<feedbackRing, eventQueue, targetSpeed, enabled, maxFeedback, maxEvents,
                 runVars, motorVars, histVars>>

FeedbackIsrHint ==
  /\ feedbackIsr = "hint"
  /\ SetHint
  /\ feedbackIsr' = "none"
  /\ UNCHANGED faultIsr

(* sch_motor_isr_fault: queue the event, set the hint.                     *)
FaultIsrEvent ==
  /\ faultIsr = "none"
  /\ PushEvent(FAULT)
  /\ faultIsr' = "hint"
  /\ UNCHANGED feedbackIsr

FaultIsrHint ==
  /\ faultIsr = "hint"
  /\ SetHint
  /\ faultIsr' = "none"
  /\ UNCHANGED feedbackIsr

SchMotorIsrFeedback == FeedbackIsrSample \/ FeedbackIsrEvent \/ FeedbackIsrHint
SchMotorIsrFault    == FaultIsrEvent \/ FaultIsrHint

-----------------------------------------------------------------------------
(* A run needs the HAL callbacks: the first init has passed its argument   *)
(* tests.                                                                  *)
RunTakeHint ==
  /\ pc = "idle" /\ maxEvents # 0
  /\ hint' = irqHint
  /\ irqHint' = FALSE
  /\ pc' = "check"
  /\ UNCHANGED <<feedbackRing, eventQueue, targetSpeed, enabled, maxFeedback, maxEvents,
                 i, isrVars, motorVars, histVars>>

(* Faulty variant: the hint alone decides whether there is work.           *)
NothingToDoHintOnly == ~hint

NothingToDo ==
  /\ ~hint
  /\ SchSpscRingIsEmpty(feedbackRing)
  /\ SchEventQueueSize(eventQueue) = 0

RunCheck ==
  /\ pc = "check"
  /\ pc' = IF NothingToDo THEN "idle" ELSE "enable"
  /\ hint' = FALSE
  /\ UNCHANGED <<serviceVars, i, isrVars, motorVars, histVars>>

(* set_enable with the stored command; the HAL accepts or refuses.         *)
RunSetEnable ==
  /\ pc = "enable"
  /\ \/ motorOn' = enabled /\ disturbed' = FALSE
     \/ UNCHANGED motorOn /\ disturbed' = TRUE
  /\ pc' = "enabled"
  /\ UNCHANGED <<serviceVars, hint, i, isrVars, motorSpeed, irqs, faults, taken, tripped, refused>>

(* enabled is read a second time.                                          *)
RunCheckEnabled ==
  /\ pc = "enabled"
  /\ pc' = IF enabled THEN "speed" ELSE "events"
  /\ UNCHANGED <<serviceVars, hint, i, isrVars, motorVars, histVars>>

(* Faulty variant: the speed is sent only to a motor that has none yet.    *)
RunSetTargetSpeedOnce ==
  /\ pc = "speed"
  /\ \/ motorSpeed # 0 /\ UNCHANGED <<motorSpeed, disturbed>>
     \/ motorSpeed = 0 /\ motorSpeed' = targetSpeed /\ UNCHANGED disturbed
     \/ motorSpeed = 0 /\ UNCHANGED motorSpeed /\ disturbed' = TRUE
  /\ pc' = "events"
  /\ UNCHANGED <<serviceVars, hint, i, isrVars, motorOn, irqs, faults, taken, tripped, refused>>

(* If it was set, the speed is read and sent.                              *)
RunSetTargetSpeed ==
  /\ pc = "speed"
  /\ \/ motorSpeed' = targetSpeed /\ UNCHANGED disturbed
     \/ UNCHANGED motorSpeed /\ disturbed' = TRUE
  /\ pc' = "events"
  /\ UNCHANGED <<serviceVars, hint, i, isrVars, motorOn, irqs, faults, taken, tripped, refused>>

(* Faulty variant: the fault stops the motor but keeps the command.        *)
TripKeepsCommand == UNCHANGED enabled

(* What consuming a fault event does to the stored command.                *)
Trip == enabled' = FALSE

(* One turn of the event loop: the pop, and for a fault the command is     *)
(* cleared.                                                                *)
RunEvent ==
  /\ pc = "events" /\ i < maxEvents /\ PopSucceeds(eventQueue)
  /\ eventQueue' = SchEventQueuePopTask(eventQueue)
  /\ i' = i + 1
  /\ IF PoppedItem(eventQueue) = FAULT
       THEN Trip /\ taken' = taken + 1 /\ tripped' = TRUE /\ pc' = "stop"
       ELSE UNCHANGED <<enabled, taken, tripped, pc>>
  /\ UNCHANGED <<feedbackRing, targetSpeed, irqHint, maxFeedback, maxEvents,
                 hint, isrVars, motorVars, irqs, faults, refused, disturbed>>

(* set_enable(false) after a fault; the HAL accepts or refuses.            *)
RunStop ==
  /\ pc = "stop"
  /\ \/ motorOn' = FALSE /\ refused' = FALSE /\ UNCHANGED disturbed
     \/ UNCHANGED motorOn /\ refused' = TRUE /\ disturbed' = TRUE
  /\ pc' = "events"
  /\ UNCHANGED <<serviceVars, hint, i, isrVars, motorSpeed, irqs, faults, taken, tripped>>

RunEventsEnd ==
  /\ pc = "events" /\ (i = maxEvents \/ ~PopSucceeds(eventQueue))
  /\ pc' = "feedback" /\ i' = 0
  /\ UNCHANGED <<serviceVars, hint, isrVars, motorVars, histVars>>

RunFeedback ==
  /\ pc = "feedback" /\ i < maxFeedback /\ PopSucceeds(feedbackRing)
  /\ feedbackRing' = SchSpscRingPopTask(feedbackRing)
  /\ i' = i + 1
  /\ UNCHANGED <<eventQueue, targetSpeed, enabled, irqHint, maxFeedback, maxEvents,
                 pc, hint, isrVars, motorVars, histVars>>

RunEnd ==
  /\ pc = "feedback" /\ (i = maxFeedback \/ ~PopSucceeds(feedbackRing))
  /\ pc' = "idle" /\ i' = 0 /\ disturbed' = FALSE
  /\ UNCHANGED <<serviceVars, hint, isrVars, motorVars, irqs, faults, taken, tripped, refused>>

SchMotorSupervisionServiceRun ==
  \/ RunTakeHint \/ RunCheck \/ RunSetEnable \/ RunCheckEnabled \/ RunSetTargetSpeed
  \/ RunEvent \/ RunStop \/ RunEventsEnd \/ RunFeedback \/ RunEnd

Next ==
  \/ \E fc \in FeedbackCapacities, ec \in EventCapacities,
        fb \in FeedbackBudgets, eb \in EventBudgets :
       SchMotorSupervisionServiceInit(fc, ec, fb, eb)
  \/ \E enable \in BOOLEAN, speed \in Speeds : SchMotorSupervisionSetCommand(enable, speed)
  \/ SchMotorIsrFeedback \/ SchMotorIsrFault
  \/ SchMotorSupervisionServiceRun

(* The scheduler keeps calling the service's task.                         *)
Spec == Init /\ [][Next]_vars /\ WF_vars(SchMotorSupervisionServiceRun)

-----------------------------------------------------------------------------
(* Type invariant.                                                         *)
TypeOK ==
  /\ RingOK(feedbackRing) /\ RingOK(eventQueue)
  /\ targetSpeed \in Speeds /\ motorSpeed \in Speeds
  /\ {enabled, irqHint, hint, motorOn, tripped, refused, disturbed} \subseteq BOOLEAN
  /\ maxFeedback \in FeedbackBudgets \cup {0} /\ maxEvents \in EventBudgets \cup {0}
  /\ \/ pc \in {"idle", "check", "enable", "enabled", "speed"} /\ i = 0
     \/ pc = "events" /\ i \in 0..maxEvents
     \/ pc = "stop" /\ i \in 1..maxEvents
     \/ pc = "feedback" /\ i \in 0..maxFeedback
  /\ feedbackIsr \in {"none", "event", "hint"} /\ faultIsr \in {"none", "hint"}
  /\ irqs \in 0..MaxIrqs /\ faults \in 0..irqs /\ taken \in 0..faults

QueuedFaults == Cardinality({k \in 1..eventQueue.count : Contents(eventQueue)[k] = FAULT})

(* A fault trips and stays tripped: from the moment its event is consumed  *)
(* no run switches the motor on again before somebody sets a new command,  *)
(* and once the stop has been sent the motor is off unless the HAL refused *)
(* it, whatever commands fell into the run that consumed the fault.        *)
FaultLatched ==
  tripped => /\ ~enabled
             /\ motorOn => pc = "stop" \/ refused

(* The promise a run keeps: when it has applied the command and consumed   *)
(* the events, the motor follows the stored command, unless a new command  *)
(* came between its reads of it or later, or the HAL refused a call.       *)
CommandAppliedUndisturbed ==
  pc = "feedback" /\ ~disturbed =>
    motorOn = enabled /\ (motorOn => motorSpeed = targetSpeed)

(* A fault interrupt disappears only by overflow of the event queue, and   *)
(* then sch_event_queue_drop_count has counted it.                         *)
NoUncountedFaultLoss ==
  faults - (taken + QueuedFaults) <= SchEventQueueDropCount(eventQueue)

(* A queued fault makes a run call set_enable(false), unless overflow or a *)
(* new init discards it, although the run that meets it may have spent its *)
(* budget, or may have taken the hint before the event was pushed.         *)
FaultReachesStop ==
  QueuedFaults > 0 ~> (pc = "stop" \/ taken + QueuedFaults < faults \/ irqs = 0)
=============================================================================
