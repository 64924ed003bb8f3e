-------------------------- MODULE I2cEepromService --------------------------
(***************************************************************************)
(* i2c_eeprom_service.c: interrupts enqueue transfer requests and          *)
(* completions, a scheduler task submits the requests to the HAL and       *)
(* consumes the completions, each within its own budget.                   *)
(*                                                                         *)
(* A step is one critical section or one call of submit_request, so        *)
(* interrupts fall between any two of them.                                *)
(***************************************************************************)
EXTENDS SpscRing, FiniteSets

CONSTANTS
  RequestCapacities, CompletionCapacities,   \* capacity arguments of init
  RequestBudgets, CompletionBudgets,         \* max_*_per_run arguments
  MaxRequests,      \* bound on the requests accepted between two inits
  MaxCompletions    \* bound on the completions between two inits

DONE   == 1   \* SCH_I2C_EVENT_TRANSFER_DONE
FAILED == 2   \* SCH_I2C_EVENT_TRANSFER_ERROR

(* A request is its serial number: address, length and direction are the   *)
(* HAL's business.                                                         *)
Requests == 1..MaxRequests

(* What the two rings hold.                                                *)
EepromItems == Requests \cup {DONE, FAILED}

ASSUME EepromAssumption ==
  /\ Items = EepromItems
  /\ RequestCapacities \cup CompletionCapacities \subseteq Nat
  /\ RequestBudgets \cup CompletionBudgets \subseteq Nat
  /\ MaxRequests \in Nat /\ MaxCompletions \in Nat

VARIABLES
  \* sch_i2c_eeprom_service_t
  requestRing, completionQueue, irqHint, maxRequests, maxCompletions,
  \* sch_i2c_eeprom_service_run
  pc, hint, i, request,
  \* the completion interrupt has queued its event and not yet set the hint
  completeIsr,
  \* history
  accepted,    \* requests whose enqueue returned true since the last init
  offered,     \* serial number of the last one passed to submit_request
  captured, handled,         \* completions queued and consumed since then
  errors, handledErrors      \* the errors among them

serviceVars == <<requestRing, completionQueue, irqHint, maxRequests, maxCompletions>>
runVars  == <<pc, hint, i, request>>
reqHist  == <<accepted, offered>>
compHist == <<captured, handled, errors, handledErrors>>
vars == <<serviceVars, runVars, completeIsr, reqHist, compHist>>

Init ==
  /\ requestRing = ZeroRing /\ completionQueue = ZeroRing /\ irqHint = FALSE
  /\ maxRequests = 0 /\ maxCompletions = 0
  /\ pc = "idle" /\ hint = FALSE /\ i = 0 /\ request = NoItem
  /\ completeIsr = FALSE
  /\ accepted = 0 /\ offered = 0
  /\ captured = 0 /\ handled = 0 /\ errors = 0 /\ handledErrors = 0

(* Faulty variant: requests overwrite the oldest, as completions do.       *)
RequestOverflowOldest == DROP_OLDEST

(* The overflow modes init chooses for its two rings.                      *)
RequestOverflow    == DROP_NEWEST
CompletionOverflow == DROP_OLDEST

(* Init with nonzero budgets; each ring is replaced only if its own        *)
(* arguments are valid, so a failed init leaves a mixture behind.          *)
SchI2cEepromServiceInit(rc, cc, rb, cb) ==
  /\ pc = "idle" /\ rb # 0 /\ cb # 0
  /\ irqHint' = FALSE /\ maxRequests' = rb /\ maxCompletions' = cb
  /\ IF InitArgsValid(rc, RequestOverflow)
       THEN /\ requestRing' = SchSpscRingInit(rc, RequestOverflow)
            /\ accepted' = 0 /\ offered' = 0
       ELSE UNCHANGED <<requestRing, reqHist>>
  /\ IF InitArgsValid(cc, CompletionOverflow)
       THEN /\ completionQueue' = SchEventQueueInit(cc, CompletionOverflow)
            /\ captured' = 0 /\ handled' = 0 /\ errors' = 0 /\ handledErrors' = 0
       ELSE UNCHANGED <<completionQueue, compHist>>
  /\ UNCHANGED <<runVars, completeIsr>>

-----------------------------------------------------------------------------
(* sch_i2c_eeprom_enqueue_request_isr: true exactly when the push is OK.   *)
(* No hint is set.                                                         *)
SchI2cEepromEnqueueRequestIsr ==
  /\ accepted < MaxRequests
  /\ requestRing' = SchSpscRingPushIsr(requestRing, accepted + 1)
  /\ accepted' = IF PushStatus(requestRing) = PUSH_OK THEN accepted + 1 ELSE accepted
  /\ UNCHANGED <<completionQueue, irqHint, maxRequests, maxCompletions, runVars,
                 completeIsr, offered, compHist>>

(* The completion interrupt: acknowledge, ask the HAL for the event and    *)
(* queue it.  The event is DONE also when the HAL has no answer.           *)
IsrCompletePush(id) ==
  /\ ~completeIsr
  /\ captured < MaxCompletions
  /\ completionQueue' = SchEventQueuePushIsr(completionQueue, id)
  /\ IF SchRingValid(completionQueue)
       THEN captured' = captured + 1 /\ errors' = (IF id = FAILED THEN errors + 1 ELSE errors)
       ELSE UNCHANGED <<captured, errors>>
  /\ completeIsr' = TRUE
  /\ UNCHANGED <<requestRing, irqHint, maxRequests, maxCompletions, runVars,
                 reqHist, handled, handledErrors>>

IsrCompleteHint ==
  /\ completeIsr
  /\ irqHint' = TRUE
  /\ completeIsr' = FALSE
  /\ UNCHANGED <<requestRing, completionQueue, maxRequests, maxCompletions, runVars,
                 reqHist, compHist>>

SchI2cEepromIsrComplete == (\E id \in {DONE, FAILED} : IsrCompletePush(id)) \/ IsrCompleteHint

-----------------------------------------------------------------------------
RunTakeHint ==
  /\ pc = "idle"
  /\ hint' = irqHint
  /\ irqHint' = FALSE
  /\ pc' = "check"
  /\ UNCHANGED <<requestRing, completionQueue, maxRequests, maxCompletions, i, request,
                 completeIsr, reqHist, compHist>>

(* Faulty variant: the early return forgets the requests, or the           *)
(* completions.                                                            *)
NothingToDoButRequests    == ~hint /\ SchEventQueueSize(completionQueue) = 0
NothingToDoButCompletions == ~hint /\ SchSpscRingIsEmpty(requestRing)

NothingToDo ==
  ~hint /\ SchSpscRingIsEmpty(requestRing) /\ SchEventQueueSize(completionQueue) = 0

RunCheck ==
  /\ pc = "check"
  /\ pc' = IF NothingToDo THEN "idle" ELSE "requests"
  /\ hint' = FALSE
  /\ UNCHANGED <<serviceVars, i, request, completeIsr, reqHist, compHist>>

RunPopRequest ==
  /\ pc = "requests" /\ i < maxRequests /\ PopSucceeds(requestRing)
  /\ requestRing' = SchSpscRingPopTask(requestRing)
  /\ request' = PoppedItem(requestRing)
  /\ pc' = "submit"
  /\ UNCHANGED <<completionQueue, irqHint, maxRequests, maxCompletions, hint, i,
                 completeIsr, reqHist, compHist>>

(* submit_request accepts the request and the loop goes on, or refuses it  *)
(* and the loop ends: the request is gone in both cases.                   *)
RunSubmit ==
  /\ pc = "submit"
  /\ offered' = request
  /\ request' = NoItem
  /\ \/ pc' = "requests" /\ i' = i + 1
     \/ pc' = "completions" /\ i' = 0
  /\ UNCHANGED <<serviceVars, hint, completeIsr, accepted, compHist>>

RunRequestsEnd ==
  /\ pc = "requests" /\ (i = maxRequests \/ ~PopSucceeds(requestRing))
  /\ pc' = "completions" /\ i' = 0
  /\ UNCHANGED <<serviceVars, hint, request, completeIsr, reqHist, compHist>>

(* One turn of the completion loop.  The switch does nothing with it.      *)
RunCompletion ==
  /\ pc = "completions" /\ i < maxCompletions /\ PopSucceeds(completionQueue)
  /\ completionQueue' = SchEventQueuePopTask(completionQueue)
  /\ handled' = handled + 1
  /\ handledErrors' = handledErrors + (IF PoppedItem(completionQueue) = FAILED THEN 1 ELSE 0)
  /\ i' = i + 1
  /\ UNCHANGED <<requestRing, irqHint, maxRequests, maxCompletions, pc, hint, request,
                 completeIsr, reqHist, captured, errors>>

RunEnd ==
  /\ pc = "completions" /\ (i = maxCompletions \/ ~PopSucceeds(completionQueue))
  /\ pc' = "idle" /\ i' = 0
  /\ UNCHANGED <<serviceVars, hint, request, completeIsr, reqHist, compHist>>

SchI2cEepromServiceRun ==
  \/ RunTakeHint \/ RunCheck \/ RunPopRequest \/ RunSubmit \/ RunRequestsEnd
  \/ RunCompletion \/ RunEnd

Next ==
  \/ \E rc \in RequestCapacities, cc \in CompletionCapacities,
        rb \in RequestBudgets, cb \in CompletionBudgets :
       SchI2cEepromServiceInit(rc, cc, rb, cb)
  \/ SchI2cEepromEnqueueRequestIsr
  \/ SchI2cEepromIsrComplete
  \/ SchI2cEepromServiceRun

(* The scheduler keeps calling the service's task.                         *)
Spec == Init /\ [][Next]_vars /\ WF_vars(SchI2cEepromServiceRun)

-----------------------------------------------------------------------------
(* Type invariant.                                                         *)
TypeOK ==
  /\ RingOK(requestRing) /\ RingOK(completionQueue)
  /\ {irqHint, hint, completeIsr} \subseteq BOOLEAN
  /\ maxRequests \in RequestBudgets \cup {0} /\ maxCompletions \in CompletionBudgets \cup {0}
  /\ pc \in {"idle", "check", "requests", "submit", "completions"}
  /\ pc \in {"idle", "check"} => i = 0
  /\ pc \in {"requests", "submit"} => i \in 0..maxRequests
  /\ pc = "completions" => i \in 0..maxCompletions
  /\ request \in Requests \cup {NoItem}
  /\ request # NoItem <=> pc = "submit"
  /\ accepted \in 0..MaxRequests /\ offered \in 0..accepted
  /\ captured \in 0..MaxCompletions /\ handled \in 0..captured
  /\ errors \in 0..captured /\ handledErrors \in 0..errors

(* The requests on their way to the HAL, oldest first.                     *)
Waiting ==
  LET held == IF request = NoItem THEN 0 ELSE 1 IN
  [k \in 1..(held + requestRing.count) |->
     IF k <= held THEN request ELSE Contents(requestRing)[k - held]]

(* A request whose enqueue returned true is passed to submit_request       *)
(* exactly once and in turn: what waits is exactly what was accepted and   *)
(* not yet offered.  A full ring turns requests away at the door and never *)
(* forgets one it took, and a refused request is not offered again.        *)
AcceptedRequestsOfferedOnce == Waiting = [k \in 1..(accepted - offered) |-> offered + k]

LostCompletions == captured - (handled + completionQueue.count)

LostErrors ==
  errors - (handledErrors
            + Cardinality({k \in 1..completionQueue.count : Contents(completionQueue)[k] = FAILED}))

(* A completion disappears only by overflow, and the drop counter says how *)
(* many did: in particular a transfer error is never lost silently.        *)
CompletionAccounting ==
  /\ SchEventQueueDropCount(completionQueue) = LostCompletions % SizeMod
  /\ 0 <= LostErrors /\ LostErrors <= LostCompletions

(* An accepted request reaches the HAL although its enqueue set no hint,   *)
(* unless a new init discards it first.                                    *)
EveryRequestOffered == \A n \in Requests : accepted >= n ~> (offered >= n \/ accepted < n)

(* A completion leaves the queue although the run that took its hint may   *)
(* have spent its budget, or ended its loops before the event was queued.  *)
EveryCompletionHandled ==
  \A n \in 1..MaxCompletions :
    captured >= n ~> (captured - completionQueue.count >= n \/ captured < n)
=============================================================================
