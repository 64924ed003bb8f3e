-------------------------- MODULE EthernetService ---------------------------
(***************************************************************************)
(* ethernet_service.c: MAC and PHY interrupts queue event ids, a scheduler *)
(* task takes them out within a budget and calls one HAL function for      *)
(* each.  The hardware behind the HAL is part of the state, because an     *)
(* event id is the only thing that makes the service fetch a descriptor.   *)
(*                                                                         *)
(* A step is one critical section or one HAL call.                         *)
(***************************************************************************)
EXTENDS SpscRing, FiniteSets

CONSTANTS
  EventCapacities,   \* event_capacity arguments of init
  EventBudgets,      \* max_events_per_run arguments of init
  MaxEvents          \* bound on the interrupts, those of before an init included
                     \* as long as their work is still in the hardware

RX_READY    == "SCH_ETH_EVENT_RX_READY"
TX_DONE     == "SCH_ETH_EVENT_TX_DONE"
LINK_CHANGE == "SCH_ETH_EVENT_LINK_CHANGE"

EventIds == {RX_READY, TX_DONE, LINK_CHANGE}

ASSUME EthernetAssumption ==
  /\ Items = EventIds
  /\ EventCapacities \subseteq Nat
  /\ EventBudgets \subseteq Nat
  /\ MaxEvents \in Nat

VARIABLES
  \* sch_eth_service_t
  eventQueue, irqHint, maxEvents,
  \* sch_eth_service_run
  pc, hint, i, event,
  \* the interrupts that have queued their event and not yet set the hint
  isr,
  \* the hardware behind the HAL
  descriptors,   \* RX and TX descriptors ready to be taken
  linkChanged,   \* the link has changed since service_link_state was called
  \* history
  raised,        \* events pushed to a valid queue since the last init
  dispatched,    \* events handed to the HAL since then
  orphaned       \* work that lost its event id where no drop counter counts:
                 \* in an init, or for want of a queue

serviceVars  == <<eventQueue, irqHint, maxEvents>>
runVars      == <<pc, hint, i, event>>
hardwareVars == <<descriptors, linkChanged>>
histVars     == <<raised, dispatched, orphaned>>
vars == <<serviceVars, runVars, isr, hardwareVars, histVars>>

NoDescriptors == [e \in {RX_READY, TX_DONE} |-> 0]

Init ==
  /\ eventQueue = ZeroRing /\ irqHint = FALSE /\ maxEvents = 0
  /\ pc = "idle" /\ hint = FALSE /\ i = 0 /\ event = NoItem
  /\ isr = {}
  /\ descriptors = NoDescriptors /\ linkChanged = FALSE
  /\ raised = 0 /\ dispatched = 0 /\ orphaned = 0

(* The descriptors and the link change the driver has not taken yet.       *)
InHardware ==
  (descriptors[RX_READY] + descriptors[TX_DONE]) + (IF linkChanged THEN 1 ELSE 0)

(* Init with a nonzero budget.  A new queue is empty, with no drops, while *)
(* the hardware keeps what it has: whatever was still to be taken has no   *)
(* event id any more.  When the queue cannot be initialised, the old one   *)
(* stays and only the hint and the budget are new.                         *)
SchEthServiceInit(c, b) ==
  /\ pc = "idle" /\ b # 0
  /\ irqHint' = FALSE /\ maxEvents' = b
  /\ IF InitArgsValid(c, DROP_OLDEST)
       THEN /\ eventQueue' = SchEventQueueInit(c, DROP_OLDEST)
            /\ raised' = 0 /\ dispatched' = 0 /\ orphaned' = InHardware
       ELSE UNCHANGED <<eventQueue, histVars>>
  /\ UNCHANGED <<runVars, isr, hardwareVars>>

-----------------------------------------------------------------------------
(* The hardware has something for the driver and interrupts.               *)
Raise(e) ==
  IF e = LINK_CHANGE
    THEN linkChanged' = TRUE /\ UNCHANGED descriptors
    ELSE descriptors' = [descriptors EXCEPT ![e] = @ + 1] /\ UNCHANGED linkChanged

(* sch_eth_push_event_isr, first half: acknowledge and queue the event.    *)
(* Without a queue the push fails, and nobody looks at its result.         *)
IsrPush(e) ==
  /\ e \notin isr
  /\ raised + orphaned < MaxEvents
  /\ Raise(e)
  /\ eventQueue' = SchEventQueuePushIsr(eventQueue, e)
  /\ IF SchRingValid(eventQueue)
       THEN raised' = raised + 1 /\ UNCHANGED orphaned
       ELSE orphaned' = orphaned + 1 /\ UNCHANGED raised
  /\ isr' = isr \cup {e}
  /\ UNCHANGED <<irqHint, maxEvents, runVars, dispatched>>

(* Second half: set the hint.                                              *)
IsrHint(e) ==
  /\ e \in isr
  /\ irqHint' = TRUE
  /\ isr' = isr \ {e}
  /\ UNCHANGED <<eventQueue, maxEvents, runVars, hardwareVars, histVars>>

SchEthIsrRx   == IsrPush(RX_READY) \/ IsrHint(RX_READY)
SchEthIsrTx   == IsrPush(TX_DONE) \/ IsrHint(TX_DONE)
SchEthIsrLink == IsrPush(LINK_CHANGE) \/ IsrHint(LINK_CHANGE)

-----------------------------------------------------------------------------
RunTakeHint ==
  /\ pc = "idle"
  /\ hint' = irqHint
  /\ irqHint' = FALSE
  /\ pc' = "check"
  /\ UNCHANGED <<eventQueue, maxEvents, i, event, isr, hardwareVars, histVars>>

(* Faulty variant: the hint alone decides whether there is work.           *)
NothingToDoHintOnly == ~hint

NothingToDo == ~hint /\ SchEventQueueSize(eventQueue) = 0

RunCheck ==
  /\ pc = "check"
  /\ pc' = IF NothingToDo THEN "idle" ELSE "drain"
  /\ hint' = FALSE
  /\ UNCHANGED <<serviceVars, i, event, isr, hardwareVars, histVars>>

RunPop ==
  /\ pc = "drain" /\ i < maxEvents /\ PopSucceeds(eventQueue)
  /\ eventQueue' = SchEventQueuePopTask(eventQueue)
  /\ event' = PoppedItem(eventQueue)
  /\ pc' = "dispatch"
  /\ UNCHANGED <<irqHint, maxEvents, hint, i, isr, hardwareVars, histVars>>

(* Faulty variant: the switch falls through from RX to TX.                 *)
HalCallFallThrough(e) ==
  IF e = LINK_CHANGE
    THEN linkChanged' = FALSE /\ UNCHANGED descriptors
    ELSE /\ descriptors' = [d \in DOMAIN descriptors |->
              IF (d = e \/ e = RX_READY) /\ descriptors[d] > 0
                THEN descriptors[d] - 1 ELSE descriptors[d]]
         /\ UNCHANGED linkChanged

(* What the HAL function of an event does: it takes one descriptor if the  *)
(* hardware has one, or looks at the link.                                 *)
HalCall(e) ==
  IF e = LINK_CHANGE
    THEN linkChanged' = FALSE /\ UNCHANGED descriptors
    ELSE /\ descriptors' = [descriptors EXCEPT ![e] = IF @ > 0 THEN @ - 1 ELSE 0]
         /\ UNCHANGED linkChanged

(* The switch on the event id.                                             *)
RunDispatch ==
  /\ pc = "dispatch"
  /\ HalCall(event)
  /\ dispatched' = dispatched + 1
  /\ event' = NoItem
  /\ i' = i + 1
  /\ pc' = "drain"
  /\ UNCHANGED <<serviceVars, hint, isr, raised, orphaned>>

RunEnd ==
  /\ pc = "drain" /\ (i = maxEvents \/ ~PopSucceeds(eventQueue))
  /\ pc' = "idle" /\ i' = 0
  /\ UNCHANGED <<serviceVars, hint, event, isr, hardwareVars, histVars>>

SchEthServiceRun == RunTakeHint \/ RunCheck \/ RunPop \/ RunDispatch \/ RunEnd

(* The service under any scheduling.                                       *)
Next ==
  \/ \E c \in EventCapacities, b \in EventBudgets : SchEthServiceInit(c, b)
  \/ SchEthIsrRx
  \/ SchEthIsrTx
  \/ SchEthIsrLink
  \/ SchEthServiceRun

Spec == Init /\ [][Next]_vars

-----------------------------------------------------------------------------
(* Type invariant.                                                         *)
TypeOK ==
  /\ RingOK(eventQueue)
  /\ {irqHint, hint, linkChanged} \subseteq BOOLEAN
  /\ maxEvents \in EventBudgets \cup {0}
  /\ pc \in {"idle", "check", "drain", "dispatch"}
  /\ i \in 0..maxEvents
  /\ event \in EventIds \cup {NoItem}
  /\ event # NoItem <=> pc = "dispatch"
  /\ isr \subseteq EventIds
  /\ descriptors \in [{RX_READY, TX_DONE} -> 0..MaxEvents]
  /\ raised \in 0..MaxEvents /\ dispatched \in 0..raised
  /\ orphaned \in 0..MaxEvents /\ raised + orphaned <= MaxEvents

Held == IF event = NoItem THEN 0 ELSE 1

(* The events of one kind that will still be dispatched.                   *)
Unserved(e) ==
  Cardinality({k \in 1..eventQueue.count : Contents(eventQueue)[k] = e})
    + (IF event = e THEN 1 ELSE 0)

LostEvents == raised - (dispatched + Held + eventQueue.count)

(* The descriptors no event in the queue will ever fetch.                  *)
Stranded(e) == descriptors[e] - Unserved(e)

(* Every event finds its descriptor, and a descriptor or a link change is  *)
(* left behind in the hardware only in two ways: its event was overwritten *)
(* and the drop counter has counted that, or it lost its event where the   *)
(* counter never looks, to a new init or because there was no queue yet.   *)
StrandedWorkIsCounted ==
  /\ \A e \in DOMAIN descriptors : Stranded(e) >= 0
  /\ (Stranded(RX_READY) + Stranded(TX_DONE))
       + (IF linkChanged /\ Unserved(LINK_CHANGE) = 0 THEN 1 ELSE 0) <= LostEvents + orphaned
  /\ LostEvents >= 0 /\ SchEventQueueDropCount(eventQueue) = LostEvents % SizeMod
=============================================================================
