--------------------------- MODULE EthernetProofs ---------------------------
(***************************************************************************)
(* TLAPS proofs about the Ethernet service as a task of the scheduler, for *)
(* every capacity, every budget, any number of interrupts and any tasks    *)
(* beside it.                                                              *)
(***************************************************************************)
EXTENDS EthernetApp, SpscRingTheorems

-----------------------------------------------------------------------------
(* The inductive invariant.                                                *)

(* The loop counter outside and inside the loop of the run.                *)
LoopInv ==
  /\ pc \in {"idle", "check"} => i = 0
  /\ pc = "dispatch" => i < maxEvents

(* All the work in the hardware was announced by an interrupt.             *)
WorkRaised == InHardware <= raised + orphaned

EthInv == TypeOK /\ LoopInv /\ WorkRaised /\ StrandedWorkIsCounted

(* The steps of the service, one by one.                                   *)
ServiceNext ==
  \/ \E c \in EventCapacities, b \in EventBudgets : SchEthServiceInit(c, b)
  \/ \E e \in EventIds : IsrPush(e)
  \/ \E e \in EventIds : IsrHint(e)
  \/ RunTakeHint \/ RunCheck \/ RunPop \/ RunDispatch \/ RunEnd

LEMMA ServiceSteps == Next => ServiceNext
BY DEF Next, SchEthIsrRx, SchEthIsrTx, SchEthIsrLink, SchEthServiceRun, EventIds, ServiceNext

(* The scheduler, its other tasks and time never touch the service.        *)
LEMMA FirmwareSteps == [AppNext]_appVars => [Next]_vars
<1> SUFFICES ASSUME [AppNext]_appVars PROVE [Next]_vars
  OBVIOUS
<1>1. CASE InitService
  BY <1>1 DEF InitService, Next
<1>2. CASE AddTask
  BY <1>2 DEF AddTask
<1>3. CASE ServiceStep
  BY <1>3 DEF ServiceStep, Next
<1>4. CASE SchedulerStep
  BY <1>4 DEF SchedulerStep
<1>5. CASE Interrupt
  BY <1>5 DEF Interrupt, Next
<1>6. CASE Timer \/ Rebase
  BY <1>6 DEF Timer, Rebase
<1>7. CASE UNCHANGED appVars
  BY <1>7 DEF appVars
<1> QED BY <1>1, <1>2, <1>3, <1>4, <1>5, <1>6, <1>7 DEF AppNext, MainLoop

-----------------------------------------------------------------------------
(* The event ids, their descriptors, and the words of the state.           *)
LEMMA EthFacts ==
  /\ Items = {RX_READY, TX_DONE, LINK_CHANGE} /\ EventIds = Items
  /\ RX_READY # TX_DONE /\ RX_READY # LINK_CHANGE /\ TX_DONE # LINK_CHANGE
  /\ NoItem \notin Items /\ SizeMod \in Nat \ {0} /\ MaxEvents \in Nat
BY EthernetAssumption, RingAssumption DEF EventIds, RX_READY, TX_DONE, LINK_CHANGE

(* The account in terms of the elements of the queue.                      *)
Owed(e) == HowMany(eventQueue, e) + Match(event, e)

LEMMA UnservedIsOwed ==
  /\ \A e : Unserved(e) = Owed(e)
  /\ \A e : Unserved(e)' = HowMany(eventQueue', e) + Match(event', e)
BY DEF Unserved, Owed, HowMany, Match

(* The parts of the invariant, as numbers.                                 *)
LEMMA EthTypes ==
  ASSUME EthInv
  PROVE  /\ RingOK(eventQueue) /\ maxEvents \in Nat /\ i \in 0..maxEvents
         /\ eventQueue.count \in Nat
         /\ descriptors \in [{RX_READY, TX_DONE} -> 0..MaxEvents]
         /\ raised \in Nat /\ dispatched \in Nat /\ orphaned \in Nat
         /\ raised + orphaned <= MaxEvents /\ dispatched <= raised
         /\ linkChanged \in BOOLEAN /\ Held \in 0..1 /\ LostEvents \in Int
         /\ \A e : HowMany(eventQueue, e) \in Nat
<1>1. RingOK(eventQueue) /\ TypeOK
  BY DEF EthInv, TypeOK
<1>2. \A e : HowMany(eventQueue, e) \in Nat
  BY <1>1, HowManyOccurs
<1>3. eventQueue.count \in Nat
  BY <1>1 DEF RingOK
<1>4. /\ maxEvents \in Nat /\ i \in 0..maxEvents
      /\ descriptors \in [{RX_READY, TX_DONE} -> 0..MaxEvents]
      /\ raised \in Nat /\ dispatched \in Nat /\ orphaned \in Nat
      /\ raised + orphaned <= MaxEvents /\ dispatched <= raised
  BY <1>1, EthernetAssumption DEF TypeOK
<1>5. linkChanged \in BOOLEAN
  BY <1>1 DEF TypeOK
<1>6. Held \in 0..1
  BY DEF Held
<1>7. LostEvents \in Int
  BY <1>3, <1>4, <1>6 DEF LostEvents
<1> QED BY <1>1, <1>2, <1>3, <1>4, <1>5, <1>6, <1>7

(* The account is about the queue, the event in hand, the hardware and the *)
(* history; a step that leaves them keeps it.                              *)
LEMMA AccountKept ==
  ASSUME EthInv,
         UNCHANGED <<eventQueue, event, descriptors, linkChanged, raised, dispatched, orphaned>>
  PROVE  WorkRaised' /\ StrandedWorkIsCounted'
<1>1. WorkRaised'
  BY DEF EthInv, WorkRaised, InHardware
<1>2. StrandedWorkIsCounted'
  BY DEF EthInv, StrandedWorkIsCounted, Stranded, Unserved, LostEvents, Held,
         SchEventQueueDropCount, SchSpscRingDropCount, SchRingValid
<1> QED BY <1>1, <1>2

(* An empty queue with nothing owed.                                       *)
LEMMA AccountEmpty ==
  ASSUME RingOK(eventQueue), eventQueue.count = 0, eventQueue.drops = 0, event = NoItem,
         descriptors = NoDescriptors, linkChanged = FALSE,
         raised = 0, dispatched = 0, orphaned = 0
  PROVE  WorkRaised /\ StrandedWorkIsCounted
<1>1. \A e \in Items : Unserved(e) = 0
  <2> SUFFICES ASSUME NEW e \in Items PROVE Unserved(e) = 0
    OBVIOUS
  <2>1. HowMany(eventQueue, e) = 0
    BY HowManyEmpty
  <2>2. Match(event, e) = 0
    BY EthFacts DEF Match
  <2> QED BY <2>1, <2>2, UnservedIsOwed DEF Owed
<1>2. /\ DOMAIN descriptors = {RX_READY, TX_DONE}
      /\ descriptors[RX_READY] = 0 /\ descriptors[TX_DONE] = 0
  BY DEF NoDescriptors
<1>3. LostEvents = 0
  BY DEF LostEvents, Held
<1>4. SchEventQueueDropCount(eventQueue) = 0 /\ 0 % SizeMod = 0
  BY EthFacts DEF SchEventQueueDropCount, SchSpscRingDropCount
<1>5. \A e \in {RX_READY, TX_DONE} : Stranded(e) = 0
  BY <1>1, <1>2, EthFacts DEF Stranded
<1>6. WorkRaised
  BY <1>2 DEF WorkRaised, InHardware
<1> QED BY <1>2, <1>3, <1>4, <1>5, <1>6, EthFacts DEF StrandedWorkIsCounted

-----------------------------------------------------------------------------
(* The steps that move an event.                                           *)

(* The account after a step, from the numbers it is made of.               *)
LEMMA AccountFrom ==
  ASSUME RingOK(eventQueue'),
         descriptors' \in [{RX_READY, TX_DONE} -> Nat],
         \A e \in {RX_READY, TX_DONE} : Owed(e)' <= descriptors'[e],
         ((descriptors'[RX_READY] - Owed(RX_READY)') + (descriptors'[TX_DONE] - Owed(TX_DONE)'))
           + (IF linkChanged' /\ Owed(LINK_CHANGE)' = 0 THEN 1 ELSE 0) <= LostEvents' + orphaned',
         Owed(RX_READY)' \in Nat, Owed(TX_DONE)' \in Nat, LostEvents' >= 0,
         eventQueue'.drops = LostEvents' % SizeMod
  PROVE  StrandedWorkIsCounted'
<1>1. \A e : Unserved(e)' = Owed(e)'
  BY UnservedIsOwed DEF Owed
<1>2. \A e \in {RX_READY, TX_DONE} : Stranded(e)' = descriptors'[e] - Owed(e)'
  BY <1>1 DEF Stranded
<1>3. \A e \in {RX_READY, TX_DONE} : Stranded(e)' >= 0
  BY <1>2
<1>4. (Stranded(RX_READY)' + Stranded(TX_DONE)')
        + (IF linkChanged' /\ Unserved(LINK_CHANGE)' = 0 THEN 1 ELSE 0) <= LostEvents' + orphaned'
  BY <1>1, <1>2
<1>5. SchEventQueueDropCount(eventQueue)' = LostEvents' % SizeMod
  BY DEF SchEventQueueDropCount, SchSpscRingDropCount, SchRingValid, RingOK
<1>6. DOMAIN descriptors' = {RX_READY, TX_DONE}
  OBVIOUS
<1> QED BY <1>3, <1>4, <1>5, <1>6 DEF StrandedWorkIsCounted

(* The account before a step, as numbers.                                  *)
LEMMA AccountNumbers ==
  ASSUME EthInv
  PROVE  /\ \A e \in {RX_READY, TX_DONE} :
              descriptors[e] \in Nat /\ Owed(e) <= descriptors[e]
         /\ ((descriptors[RX_READY] - Owed(RX_READY)) + (descriptors[TX_DONE] - Owed(TX_DONE)))
              + (IF linkChanged /\ Owed(LINK_CHANGE) = 0 THEN 1 ELSE 0) <= LostEvents + orphaned
         /\ \A e : Owed(e) \in Nat /\ Owed(e) = HowMany(eventQueue, e) + Match(event, e)
         /\ LostEvents >= 0 /\ eventQueue.drops = LostEvents % SizeMod
<1>1. \A e : Unserved(e) = Owed(e) /\ Owed(e) = HowMany(eventQueue, e) + Match(event, e)
  BY UnservedIsOwed DEF Owed
<1>2. \A e : Owed(e) \in Nat
  BY <1>1, EthTypes DEF Match
<1>3. DOMAIN descriptors = {RX_READY, TX_DONE} /\ \A e \in {RX_READY, TX_DONE} : descriptors[e] \in Nat
  BY EthTypes
<1>4. StrandedWorkIsCounted
  BY DEF EthInv
<1>5. \A e \in {RX_READY, TX_DONE} : Owed(e) <= descriptors[e]
  BY <1>1, <1>2, <1>3, <1>4 DEF StrandedWorkIsCounted, Stranded
<1>6. ((descriptors[RX_READY] - Owed(RX_READY)) + (descriptors[TX_DONE] - Owed(TX_DONE)))
        + (IF linkChanged /\ Owed(LINK_CHANGE) = 0 THEN 1 ELSE 0) <= LostEvents + orphaned
  BY <1>1, <1>4 DEF StrandedWorkIsCounted, Stranded
<1>7. LostEvents >= 0 /\ eventQueue.drops = LostEvents % SizeMod
  <2>1. LostEvents >= 0 /\ SchEventQueueDropCount(eventQueue) = LostEvents % SizeMod
    BY <1>4 DEF StrandedWorkIsCounted
  <2>2. SchEventQueueDropCount(eventQueue) = eventQueue.drops
    BY EthTypes DEF SchEventQueueDropCount, SchSpscRingDropCount, SchRingValid, RingOK
  <2> QED BY <2>1, <2>2
<1> QED BY <1>1, <1>2, <1>3, <1>4, <1>5, <1>6, <1>7

(* The work in the hardware bounds each of its parts.                      *)
LEMMA HardwareBound ==
  ASSUME NEW d \in [{RX_READY, TX_DONE} -> Nat], NEW l \in BOOLEAN,
         (d[RX_READY] + d[TX_DONE]) + (IF l THEN 1 ELSE 0) <= MaxEvents
  PROVE  d \in [{RX_READY, TX_DONE} -> 0..MaxEvents]
<1>1. \A e \in {RX_READY, TX_DONE} : d[e] \in 0..MaxEvents
  BY EthFacts
<1> QED BY <1>1

(* An interrupt: a push that overwrites an event strands the work of that  *)
(* event, or none, and counts one drop.                                    *)
LEMMA PushStep ==
  ASSUME EthInv, NEW e \in EventIds, IsrPush(e)
  PROVE  EthInv'
<1>1. /\ eventQueue' = SchSpscRingPushIsr(eventQueue, e) /\ e \in Items
      /\ UNCHANGED <<irqHint, maxEvents, pc, hint, i, event, dispatched>> /\ isr' = isr \cup {e}
      /\ raised + orphaned < MaxEvents /\ Raise(e)
  BY EthFacts DEF IsrPush, SchEventQueuePushIsr, runVars
<1>2. RingOK(eventQueue) /\ RingOK(eventQueue')
  BY <1>1, EthTypes, PushEffect
<1>3. /\ \A d \in {RX_READY, TX_DONE} : descriptors'[d] = descriptors[d] + Match(e, d)
      /\ descriptors' \in [{RX_READY, TX_DONE} -> Nat]
      /\ e = LINK_CHANGE => linkChanged' = TRUE
      /\ e # LINK_CHANGE => linkChanged' = linkChanged
      /\ linkChanged' \in BOOLEAN
  <2>1. descriptors \in [{RX_READY, TX_DONE} -> Nat] /\ linkChanged \in BOOLEAN
    BY EthTypes
  <2>2. CASE e = LINK_CHANGE
    BY <1>1, <2>1, <2>2, EthFacts DEF Raise, Match
  <2>3. CASE e # LINK_CHANGE
    BY <1>1, <2>1, <2>3, EthFacts DEF Raise, Match
  <2> QED BY <2>2, <2>3
<1>4. /\ Match(e, RX_READY) \in 0..1 /\ Match(e, TX_DONE) \in 0..1
      /\ Match(e, LINK_CHANGE) = IF e = LINK_CHANGE THEN 1 ELSE 0
      /\ (Match(e, RX_READY) + Match(e, TX_DONE)) + Match(e, LINK_CHANGE) = 1
  BY <1>1, EthFacts DEF Match
<1>5. PICK total \in Nat :
        /\ raised' \in Nat /\ orphaned' \in Nat /\ raised' + orphaned' = total
        /\ raised' <= total /\ orphaned' <= total /\ raised <= raised'
        /\ total = (raised + orphaned) + 1 /\ total <= MaxEvents
  <2>1. raised \in Nat /\ orphaned \in Nat /\ MaxEvents \in Nat
    BY EthTypes, EthFacts
  <2>2. raised + orphaned < MaxEvents
    BY <1>1
  <2>3. PICK r \in Nat, o \in Nat :
          raised' = r /\ orphaned' = o /\ r + o = (raised + orphaned) + 1 /\ raised <= r
    BY <2>1 DEF IsrPush
  <2>4. r + o \in Nat /\ r <= r + o /\ o <= r + o /\ r + o <= MaxEvents
    BY <2>1, <2>2, <2>3
  <2>5. raised' + orphaned' = r + o
    BY <2>3
  <2> QED BY <2>3, <2>4, <2>5
<1>6. /\ WorkRaised' /\ descriptors' \in [{RX_READY, TX_DONE} -> 0..MaxEvents]
      /\ raised' \in 0..MaxEvents /\ orphaned' \in 0..MaxEvents
      /\ raised' + orphaned' <= MaxEvents /\ dispatched' \in 0..raised'
  <2>1. /\ descriptors[RX_READY] \in Nat /\ descriptors[TX_DONE] \in Nat
        /\ raised \in Nat /\ orphaned \in Nat /\ dispatched \in Nat /\ dispatched <= raised
        /\ (descriptors[RX_READY] + descriptors[TX_DONE]) + (IF linkChanged THEN 1 ELSE 0)
             <= raised + orphaned
    BY EthTypes DEF EthInv, WorkRaised, InHardware
  <2>2. (IF linkChanged' THEN 1 ELSE 0) <= (IF linkChanged THEN 1 ELSE 0) + Match(e, LINK_CHANGE)
    BY <1>3, <1>4
  <2>3. /\ descriptors'[RX_READY] = descriptors[RX_READY] + Match(e, RX_READY)
        /\ descriptors'[TX_DONE] = descriptors[TX_DONE] + Match(e, TX_DONE)
    BY <1>3
  <2>4. (descriptors'[RX_READY] + descriptors'[TX_DONE]) + (IF linkChanged' THEN 1 ELSE 0)
          <= total
    BY <1>4, <1>5, <2>1, <2>2, <2>3
  <2>5. total <= MaxEvents /\ dispatched' \in 0..raised'
    BY <1>1, <1>5, <2>1
  <2>6. raised' \in 0..MaxEvents /\ orphaned' \in 0..MaxEvents
    BY <1>5, EthFacts
  <2>7. (descriptors'[RX_READY] + descriptors'[TX_DONE]) + (IF linkChanged' THEN 1 ELSE 0)
          <= MaxEvents
    BY <1>3, <1>5, <2>4, EthFacts
  <2>8. descriptors' \in [{RX_READY, TX_DONE} -> 0..MaxEvents]
    BY <1>3, <2>7, HardwareBound
  <2> QED BY <1>5, <2>4, <2>5, <2>6, <2>8 DEF WorkRaised, InHardware
<1>7. CASE ~SchRingValid(eventQueue)
  <2>1. eventQueue' = eventQueue /\ raised' = raised /\ orphaned' = orphaned + 1
    BY <1>1, <1>7 DEF IsrPush, SchSpscRingPushIsr
  <2>2. LostEvents' = LostEvents /\ \A x : Owed(x)' = Owed(x)
    BY <1>1, <2>1 DEF LostEvents, Held, Owed, HowMany, Match
  <2>3. \A x \in {RX_READY, TX_DONE} : Owed(x)' <= descriptors'[x]
    <3> SUFFICES ASSUME NEW x \in {RX_READY, TX_DONE} PROVE Owed(x)' <= descriptors'[x]
      OBVIOUS
    <3>1. Owed(x) \in Nat /\ Owed(x) <= descriptors[x] /\ descriptors[x] \in Nat
      BY AccountNumbers
    <3>2. Match(e, x) \in 0..1
      BY DEF Match
    <3> QED BY <1>3, <2>2, <3>1, <3>2
  <2>4. ((descriptors'[RX_READY] - Owed(RX_READY)') + (descriptors'[TX_DONE] - Owed(TX_DONE)'))
           + (IF linkChanged' /\ Owed(LINK_CHANGE)' = 0 THEN 1 ELSE 0) <= LostEvents' + orphaned'
    <3>1. /\ descriptors[RX_READY] \in Nat /\ descriptors[TX_DONE] \in Nat /\ LostEvents \in Int
          /\ Owed(RX_READY) \in Nat /\ Owed(TX_DONE) \in Nat /\ orphaned \in Nat
          /\ ((descriptors[RX_READY] - Owed(RX_READY)) + (descriptors[TX_DONE] - Owed(TX_DONE)))
               + (IF linkChanged /\ Owed(LINK_CHANGE) = 0 THEN 1 ELSE 0) <= LostEvents + orphaned
      BY AccountNumbers, EthTypes
    <3>2. (IF linkChanged' /\ Owed(LINK_CHANGE)' = 0 THEN 1 ELSE 0)
            <= (IF linkChanged /\ Owed(LINK_CHANGE) = 0 THEN 1 ELSE 0) + Match(e, LINK_CHANGE)
      BY <1>3, <1>4, <2>2
    <3>3. /\ descriptors'[RX_READY] = descriptors[RX_READY] + Match(e, RX_READY)
          /\ descriptors'[TX_DONE] = descriptors[TX_DONE] + Match(e, TX_DONE)
          /\ Owed(RX_READY)' = Owed(RX_READY) /\ Owed(TX_DONE)' = Owed(TX_DONE)
      BY <1>3, <2>2
    <3>4. \/ Match(e, RX_READY) = 1 /\ Match(e, TX_DONE) = 0 /\ Match(e, LINK_CHANGE) = 0
          \/ Match(e, RX_READY) = 0 /\ Match(e, TX_DONE) = 1 /\ Match(e, LINK_CHANGE) = 0
          \/ Match(e, RX_READY) = 0 /\ Match(e, TX_DONE) = 0 /\ Match(e, LINK_CHANGE) = 1
      BY <1>4
    <3> QED BY <2>1, <2>2, <3>1, <3>2, <3>3, <3>4
  <2>5. /\ Owed(RX_READY)' \in Nat /\ Owed(TX_DONE)' \in Nat
        /\ LostEvents' >= 0 /\ eventQueue'.drops = LostEvents' % SizeMod
    BY <2>1, <2>2, AccountNumbers
  <2>6. StrandedWorkIsCounted'
    BY <1>2, <1>3, <2>3, <2>4, <2>5, AccountFrom
  <2> QED BY <1>1, <1>2, <1>3, <1>6, <2>6, EthFacts DEF EthInv, TypeOK, LoopInv
<1>8. CASE SchRingValid(eventQueue)
  <2>1. /\ raised' = raised + 1 /\ orphaned' = orphaned
        /\ eventQueue.capacity > 0 /\ eventQueue.capacity \in Nat
        /\ eventQueue.count \in 0..eventQueue.capacity /\ eventQueue.drops \in Nat
        /\ eventQueue'.count \in Nat
    BY <1>1, <1>2, <1>8 DEF IsrPush, SchRingValid, RingOK
  <2>3. \E n \in {0, 1} : \E lost \in Items :
          /\ \A x : HowMany(eventQueue', x)
                      = (HowMany(eventQueue, x) + Match(e, x)) - n * Match(lost, x)
          /\ eventQueue'.count + n = eventQueue.count + 1
          /\ eventQueue'.drops = IF n = 0 THEN eventQueue.drops
                                 ELSE (eventQueue.drops + 1) % SizeMod
    <3>1. CASE eventQueue.count < eventQueue.capacity
      <4>1. \A x : HowMany(eventQueue', x) = HowMany(eventQueue, x) + Match(e, x)
        BY <1>1, <1>2, <3>1, PushHowMany
      <4>2. eventQueue'.count = eventQueue.count + 1 /\ eventQueue'.drops = eventQueue.drops
        BY <1>1, <1>2, <3>1, PushEffect
      <4>3. \A x : HowMany(eventQueue, x) \in Nat /\ Match(e, x) \in Nat
        BY EthTypes DEF Match
      <4>4. \A x : HowMany(eventQueue', x)
                     = (HowMany(eventQueue, x) + Match(e, x)) - 0 * Match(e, x)
        BY <4>1, <4>3
      <4>5. eventQueue'.count + 0 = eventQueue.count + 1
        BY <2>1, <4>2
      <4> QED BY <1>1, <4>2, <4>4, <4>5
    <3>2. CASE eventQueue.count = eventQueue.capacity
      <4>1. PICK lost \in Items : \A x : HowMany(eventQueue', x)
              = (HowMany(eventQueue, x) + Match(e, x)) - Match(lost, x)
        BY <1>1, <1>2, <2>1, <3>2, PushHowMany
      <4>2. /\ eventQueue'.count = eventQueue.count
            /\ eventQueue'.drops = (eventQueue.drops + 1) % SizeMod
        BY <1>1, <1>2, <2>1, <3>2, PushEffect
      <4>3. \A x : Match(lost, x) = 1 * Match(lost, x)
        BY DEF Match
      <4>4. \A x : HowMany(eventQueue', x)
                     = (HowMany(eventQueue, x) + Match(e, x)) - 1 * Match(lost, x)
        BY <4>1, <4>3
      <4> QED BY <2>1, <4>2, <4>4
    <3> QED BY <2>1, <3>1, <3>2
  <2>4. PICK n \in {0, 1}, lost \in Items :
          /\ \A x : HowMany(eventQueue', x)
                      = (HowMany(eventQueue, x) + Match(e, x)) - n * Match(lost, x)
          /\ eventQueue'.count + n = eventQueue.count + 1
          /\ eventQueue'.drops = IF n = 0 THEN eventQueue.drops
                                 ELSE (eventQueue.drops + 1) % SizeMod
    BY <2>3
  <2>5. LostEvents' = LostEvents + n
    <3>1. Held' = Held
      BY <1>1 DEF Held
    <3> QED BY <1>1, <2>1, <2>4, <3>1, EthTypes DEF LostEvents
  <2>6. \A x : Owed(x)' = (Owed(x) + Match(e, x)) - n * Match(lost, x)
    <3> SUFFICES ASSUME NEW x PROVE Owed(x)' = (Owed(x) + Match(e, x)) - n * Match(lost, x)
      OBVIOUS
    <3>1. Owed(x)' = HowMany(eventQueue', x) + Match(event, x)
      BY <1>1 DEF Owed, Match
    <3>2. HowMany(eventQueue, x) \in Nat /\ Match(event, x) \in 0..1 /\ Match(e, x) \in 0..1
          /\ Match(lost, x) \in 0..1 /\ n * Match(lost, x) \in 0..1
      BY EthTypes DEF Match
    <3> QED BY <2>4, <3>1, <3>2 DEF Owed
  <2>7. /\ \A x : Owed(x)' \in Nat
        /\ \A x \in {RX_READY, TX_DONE} : Owed(x)' <= descriptors'[x]
    <3>1. \A x : Owed(x)' \in Nat
      <4> SUFFICES ASSUME NEW x PROVE Owed(x)' \in Nat
        OBVIOUS
      <4>1. HowMany(eventQueue', x) \in Nat /\ Match(event, x) \in Nat
        BY <1>2, HowManyOccurs DEF Match
      <4>2. Owed(x)' = HowMany(eventQueue', x) + Match(event, x)
        BY <1>1 DEF Owed, Match
      <4> QED BY <4>1, <4>2
    <3>2. ASSUME NEW x \in {RX_READY, TX_DONE}
          PROVE  Owed(x)' <= descriptors'[x]
      <4>1. Owed(x) \in Nat /\ Owed(x) <= descriptors[x] /\ descriptors[x] \in Nat
        BY AccountNumbers
      <4>2. Match(e, x) \in 0..1 /\ n * Match(lost, x) \in 0..1
        BY DEF Match
      <4> QED BY <1>3, <2>6, <4>1, <4>2
    <3> QED BY <3>1, <3>2
  <2>8. ((descriptors'[RX_READY] - Owed(RX_READY)') + (descriptors'[TX_DONE] - Owed(TX_DONE)'))
           + (IF linkChanged' /\ Owed(LINK_CHANGE)' = 0 THEN 1 ELSE 0) <= LostEvents' + orphaned'
    <3>1. /\ Match(e, LINK_CHANGE) = IF e = LINK_CHANGE THEN 1 ELSE 0
          /\ Match(e, RX_READY) \in 0..1 /\ Match(e, TX_DONE) \in 0..1
          /\ n * Match(lost, RX_READY) \in 0..1 /\ n * Match(lost, TX_DONE) \in 0..1
          /\ n * Match(lost, LINK_CHANGE) \in 0..1
          /\ (n * Match(lost, RX_READY) + n * Match(lost, TX_DONE))
               + n * Match(lost, LINK_CHANGE) = n
      BY EthFacts DEF Match
    <3>2. /\ descriptors[RX_READY] \in Nat /\ descriptors[TX_DONE] \in Nat /\ LostEvents \in Int
          /\ Owed(RX_READY) \in Nat /\ Owed(TX_DONE) \in Nat /\ Owed(LINK_CHANGE) \in Nat
          /\ orphaned \in Nat
          /\ ((descriptors[RX_READY] - Owed(RX_READY)) + (descriptors[TX_DONE] - Owed(TX_DONE)))
               + (IF linkChanged /\ Owed(LINK_CHANGE) = 0 THEN 1 ELSE 0) <= LostEvents + orphaned
      BY AccountNumbers, EthTypes
    <3>3. /\ descriptors'[RX_READY] - Owed(RX_READY)'
               = (descriptors[RX_READY] - Owed(RX_READY)) + n * Match(lost, RX_READY)
          /\ descriptors'[TX_DONE] - Owed(TX_DONE)'
               = (descriptors[TX_DONE] - Owed(TX_DONE)) + n * Match(lost, TX_DONE)
      BY <1>3, <2>6, <3>1, <3>2
    <3>4. (IF linkChanged' /\ Owed(LINK_CHANGE)' = 0 THEN 1 ELSE 0)
            <= (IF linkChanged /\ Owed(LINK_CHANGE) = 0 THEN 1 ELSE 0) + n * Match(lost, LINK_CHANGE)
      <4>1. Owed(LINK_CHANGE)'
              = (Owed(LINK_CHANGE) + Match(e, LINK_CHANGE)) - n * Match(lost, LINK_CHANGE)
        BY <2>6
      <4>2. CASE n * Match(lost, LINK_CHANGE) = 1
        BY <4>2, <3>1
      <4>3. CASE n * Match(lost, LINK_CHANGE) = 0
        <5>1. CASE e = LINK_CHANGE
          <6>1. Owed(LINK_CHANGE)' # 0
            BY <3>1, <3>2, <4>1, <4>3, <5>1
          <6> QED BY <4>3, <6>1
        <5>2. CASE e # LINK_CHANGE
          <6>1. Owed(LINK_CHANGE)' = Owed(LINK_CHANGE) /\ linkChanged' = linkChanged
            BY <1>3, <3>1, <3>2, <4>1, <4>3, <5>2
          <6> QED BY <4>3, <6>1
        <5> QED BY <5>1, <5>2
      <4> QED BY <3>1, <4>2, <4>3
    <3> QED BY <2>1, <2>5, <3>1, <3>2, <3>3, <3>4
  <2>9. LostEvents' >= 0 /\ eventQueue'.drops = LostEvents' % SizeMod
    <3>1. /\ eventQueue.drops = LostEvents % SizeMod /\ LostEvents \in Int /\ LostEvents >= 0
          /\ SizeMod \in Nat \ {0}
      BY AccountNumbers, EthTypes, EthFacts
    <3>2. CASE n = 0
      BY <2>4, <2>5, <3>1, <3>2
    <3>3. CASE n = 1
      <4>1. ((LostEvents % SizeMod) + 1) % SizeMod = (LostEvents + 1) % SizeMod
        BY <3>1, ModSucc
      <4>2. eventQueue'.drops = (eventQueue.drops + 1) % SizeMod
        BY <2>4, <3>3
      <4>3. LostEvents' = LostEvents + 1
        BY <2>5, <3>3
      <4> QED BY <3>1, <4>1, <4>2, <4>3
    <3> QED BY <3>2, <3>3
  <2>10. StrandedWorkIsCounted'
    BY <1>2, <1>3, <2>7, <2>8, <2>9, AccountFrom
  <2> QED BY <1>1, <1>2, <1>3, <1>6, <2>10, EthFacts DEF EthInv, TypeOK, LoopInv
<1> QED BY <1>7, <1>8

(* Taking an event out of the queue: it is owed from the hand instead.     *)
LEMMA PopStep ==
  ASSUME EthInv, RunPop
  PROVE  EthInv'
<1>1. /\ pc = "drain" /\ i < maxEvents /\ PopSucceeds(eventQueue)
      /\ eventQueue' = SchSpscRingPopTask(eventQueue) /\ event' = PoppedItem(eventQueue)
      /\ pc' = "dispatch"
      /\ UNCHANGED <<irqHint, maxEvents, hint, i, isr, descriptors, linkChanged, raised, dispatched,
                     orphaned>>
  BY DEF RunPop, SchEventQueuePopTask, hardwareVars, histVars
<1>2. RingOK(eventQueue) /\ event = NoItem
  BY <1>1 DEF EthInv, TypeOK
<1>3. /\ RingOK(eventQueue') /\ eventQueue'.drops = eventQueue.drops
      /\ eventQueue'.count = eventQueue.count - 1 /\ event' \in Items
  BY <1>1, <1>2, PopEffect
<1>4. event' # NoItem /\ event' \in EventIds
  BY <1>3, EthFacts
<1>5. \A x \in Items : Owed(x)' = Owed(x)
  <2> SUFFICES ASSUME NEW x \in Items PROVE Owed(x)' = Owed(x)
    OBVIOUS
  <2>1. HowMany(eventQueue, x) = HowMany(eventQueue', x) + Match(event', x)
    BY <1>1, <1>2, PopHowMany
  <2>2. Match(event, x) = 0
    BY <1>2, EthFacts DEF Match
  <2>3. HowMany(eventQueue, x) \in Nat
    BY EthTypes
  <2>4. Owed(x)' = HowMany(eventQueue', x) + Match(event', x)
    BY DEF Owed, Match
  <2> QED BY <2>1, <2>2, <2>3, <2>4 DEF Owed
<1>6. LostEvents' = LostEvents
  <2>1. Held = 0 /\ Held' = 1
    BY <1>2, <1>4 DEF Held
  <2> QED BY <1>1, <1>3, <2>1, EthTypes DEF LostEvents
<1>7. StrandedWorkIsCounted'
  <2>1. descriptors' \in [{RX_READY, TX_DONE} -> Nat]
    BY <1>1, EthTypes
  <2>2. /\ \A e \in {RX_READY, TX_DONE} : Owed(e)' <= descriptors'[e]
        /\ Owed(RX_READY)' \in Nat /\ Owed(TX_DONE)' \in Nat
        /\ LostEvents' >= 0 /\ eventQueue'.drops = LostEvents' % SizeMod
    BY <1>1, <1>3, <1>5, <1>6, AccountNumbers, EthFacts
  <2>3. ((descriptors'[RX_READY] - Owed(RX_READY)') + (descriptors'[TX_DONE] - Owed(TX_DONE)'))
           + (IF linkChanged' /\ Owed(LINK_CHANGE)' = 0 THEN 1 ELSE 0) <= LostEvents' + orphaned'
    BY <1>1, <1>5, <1>6, AccountNumbers, EthFacts
  <2> QED BY <1>3, <2>1, <2>2, <2>3, AccountFrom
<1>8. WorkRaised'
  BY <1>1 DEF EthInv, WorkRaised, InHardware
<1> QED BY <1>1, <1>3, <1>4, <1>7, <1>8 DEF EthInv, TypeOK, LoopInv

(* A dispatch fetches the descriptor of its event, which is there.         *)
LEMMA DispatchStep ==
  ASSUME EthInv, RunDispatch
  PROVE  EthInv'
<1>1. /\ pc = "dispatch" /\ HalCall(event) /\ dispatched' = dispatched + 1 /\ event' = NoItem
      /\ i' = i + 1 /\ pc' = "drain"
      /\ UNCHANGED <<eventQueue, irqHint, maxEvents, hint, isr, raised, orphaned>>
  BY DEF RunDispatch, serviceVars
<1>2. /\ RingOK(eventQueue) /\ event \in Items /\ event # NoItem /\ i < maxEvents
  BY <1>1, EthFacts DEF EthInv, TypeOK, LoopInv
<1>3. \A x \in Items : Owed(x) = Owed(x)' + Match(event, x) /\ Owed(x)' \in Nat
  <2> SUFFICES ASSUME NEW x \in Items
               PROVE  Owed(x) = Owed(x)' + Match(event, x) /\ Owed(x)' \in Nat
    OBVIOUS
  <2>1. Owed(x)' = HowMany(eventQueue, x) + Match(event', x)
    BY <1>1 DEF Owed, Match, HowMany
  <2>2. Match(event', x) = 0 /\ Match(event, x) \in Nat
    BY <1>1, EthFacts DEF Match
  <2>3. HowMany(eventQueue, x) \in Nat
    BY EthTypes
  <2> QED BY <2>1, <2>2, <2>3 DEF Owed
<1>4. LostEvents' = LostEvents
  <2>1. Held = 1 /\ Held' = 0
    BY <1>1, <1>2 DEF Held
  <2> QED BY <1>1, <2>1, EthTypes DEF LostEvents
<1>5. /\ \A e \in {RX_READY, TX_DONE} : descriptors'[e] = descriptors[e] - Match(event, e)
      /\ descriptors' \in [{RX_READY, TX_DONE} -> Nat]
      /\ event = LINK_CHANGE => linkChanged' = FALSE
      /\ event # LINK_CHANGE => linkChanged' = linkChanged
      /\ linkChanged' \in BOOLEAN
  <2>1. descriptors \in [{RX_READY, TX_DONE} -> Nat] /\ linkChanged \in BOOLEAN
    BY EthTypes
  <2>2. CASE event = LINK_CHANGE
    <3>1. descriptors' = descriptors /\ linkChanged' = FALSE
      BY <1>1, <2>2 DEF HalCall
    <3>2. \A e \in {RX_READY, TX_DONE} : Match(event, e) = 0 /\ descriptors[e] \in Nat
      BY <2>1, <2>2, EthFacts DEF Match
    <3>3. \A e \in {RX_READY, TX_DONE} : descriptors'[e] = descriptors[e] - Match(event, e)
      BY <3>1, <3>2
    <3>4. descriptors' \in [{RX_READY, TX_DONE} -> Nat] /\ linkChanged' \in BOOLEAN
      BY <2>1, <3>1
    <3> QED BY <2>2, <3>1, <3>3, <3>4
  <2>3. CASE event # LINK_CHANGE
    <3>1. event \in {RX_READY, TX_DONE}
      BY <1>2, <2>3, EthFacts
    <3>2. descriptors[event] > 0
      <4>1. Owed(event) = HowMany(eventQueue, event) + 1
        BY DEF Owed, Match
      <4>2. HowMany(eventQueue, event) \in Nat
        BY EthTypes
      <4>3. Owed(event) <= descriptors[event] /\ descriptors[event] \in Nat
        BY <3>1, AccountNumbers
      <4> QED BY <4>1, <4>2, <4>3
    <3>3. /\ descriptors' = [descriptors EXCEPT ![event] = descriptors[event] - 1]
          /\ linkChanged' = linkChanged
      BY <1>1, <2>3, <3>2 DEF HalCall
    <3> QED BY <2>1, <2>3, <3>1, <3>2, <3>3 DEF Match
  <2> QED BY <2>2, <2>3
<1>6. StrandedWorkIsCounted'
  <2>1. /\ \A e \in {RX_READY, TX_DONE} : Owed(e)' <= descriptors'[e]
        /\ Owed(RX_READY)' \in Nat /\ Owed(TX_DONE)' \in Nat
    <3> SUFFICES ASSUME NEW e \in {RX_READY, TX_DONE}
                 PROVE  Owed(e)' <= descriptors'[e] /\ Owed(e)' \in Nat
      BY EthFacts
    <3>1. Match(event, e) \in 0..1 /\ e \in Items
      BY EthFacts DEF Match
    <3>2. Owed(e) = Owed(e)' + Match(event, e) /\ Owed(e)' \in Nat
      BY <1>3, <3>1
    <3>3. descriptors[e] \in Nat /\ Owed(e) <= descriptors[e]
      BY AccountNumbers
    <3> QED BY <1>5, <3>1, <3>2, <3>3
  <2>2. ((descriptors'[RX_READY] - Owed(RX_READY)') + (descriptors'[TX_DONE] - Owed(TX_DONE)'))
           + (IF linkChanged' /\ Owed(LINK_CHANGE)' = 0 THEN 1 ELSE 0) <= LostEvents' + orphaned'
    <3>1. /\ descriptors'[RX_READY] - Owed(RX_READY)' = descriptors[RX_READY] - Owed(RX_READY)
          /\ descriptors'[TX_DONE] - Owed(TX_DONE)' = descriptors[TX_DONE] - Owed(TX_DONE)
      <4> SUFFICES ASSUME NEW e \in {RX_READY, TX_DONE}
                   PROVE  descriptors'[e] - Owed(e)' = descriptors[e] - Owed(e)
        BY EthFacts
      <4>1. Match(event, e) \in 0..1 /\ e \in Items
        BY EthFacts DEF Match
      <4>2. Owed(e) = Owed(e)' + Match(event, e) /\ Owed(e)' \in Nat /\ descriptors[e] \in Nat
        BY <1>3, <4>1, AccountNumbers
      <4> QED BY <1>5, <4>1, <4>2
    <3>2. linkChanged' /\ Owed(LINK_CHANGE)' = 0 => linkChanged /\ Owed(LINK_CHANGE) = 0
      <4>1. CASE event = LINK_CHANGE
        BY <1>5, <4>1
      <4>2. CASE event # LINK_CHANGE
        <5>1. Match(event, LINK_CHANGE) = 0 /\ LINK_CHANGE \in Items
          BY <4>2, EthFacts DEF Match
        <5>2. Owed(LINK_CHANGE) = Owed(LINK_CHANGE)'
          BY <1>3, <5>1
        <5> QED BY <1>5, <4>2, <5>2
      <4> QED BY <4>1, <4>2
    <3>3. /\ descriptors[RX_READY] \in Nat /\ descriptors[TX_DONE] \in Nat /\ LostEvents \in Int
          /\ Owed(RX_READY) \in Nat /\ Owed(TX_DONE) \in Nat /\ orphaned \in Nat
          /\ ((descriptors[RX_READY] - Owed(RX_READY)) + (descriptors[TX_DONE] - Owed(TX_DONE)))
               + (IF linkChanged /\ Owed(LINK_CHANGE) = 0 THEN 1 ELSE 0) <= LostEvents + orphaned
      BY AccountNumbers, EthTypes
    <3> QED BY <1>1, <1>4, <3>1, <3>2, <3>3
  <2>3. LostEvents' >= 0 /\ eventQueue'.drops = LostEvents' % SizeMod
    BY <1>1, <1>4, AccountNumbers
  <2> QED BY <1>1, <1>2, <1>5, <2>1, <2>2, <2>3, AccountFrom
<1>7. dispatched' \in 0..raised' /\ i' \in 0..maxEvents'
  <2>1. LostEvents' \in Int /\ LostEvents' >= 0
    BY <1>4, AccountNumbers, EthTypes
  <2>2. Held' = 0 /\ eventQueue.count \in Nat /\ raised \in Nat /\ dispatched \in Nat
        /\ i \in 0..maxEvents /\ maxEvents \in Nat
    BY <1>1, EthTypes DEF Held
  <2>3. LostEvents' = raised' - (dispatched' + Held' + eventQueue'.count)
    BY DEF LostEvents
  <2> QED BY <1>1, <1>2, <2>1, <2>2, <2>3
<1>8. /\ WorkRaised' /\ descriptors' \in [{RX_READY, TX_DONE} -> 0..MaxEvents]
      /\ raised' \in 0..MaxEvents /\ orphaned' \in 0..MaxEvents /\ raised' + orphaned' <= MaxEvents
  <2>1. /\ descriptors[RX_READY] \in Nat /\ descriptors[TX_DONE] \in Nat
        /\ descriptors'[RX_READY] \in Nat /\ descriptors'[TX_DONE] \in Nat
        /\ raised \in Nat /\ orphaned \in Nat /\ raised + orphaned <= MaxEvents
        /\ (descriptors[RX_READY] + descriptors[TX_DONE]) + (IF linkChanged THEN 1 ELSE 0)
             <= raised + orphaned
    BY <1>5, EthTypes DEF EthInv, WorkRaised, InHardware
  <2>2. /\ descriptors'[RX_READY] <= descriptors[RX_READY] /\ descriptors'[TX_DONE] <= descriptors[TX_DONE]
        /\ (IF linkChanged' THEN 1 ELSE 0) <= (IF linkChanged THEN 1 ELSE 0)
    BY <1>5, <2>1 DEF Match
  <2>3. (descriptors'[RX_READY] + descriptors'[TX_DONE]) + (IF linkChanged' THEN 1 ELSE 0)
          <= raised' + orphaned'
    BY <1>1, <2>1, <2>2
  <2>4. (descriptors'[RX_READY] + descriptors'[TX_DONE]) + (IF linkChanged' THEN 1 ELSE 0)
          <= MaxEvents
    BY <1>1, <2>1, <2>3, EthFacts
  <2>5. descriptors' \in [{RX_READY, TX_DONE} -> 0..MaxEvents]
    BY <1>5, <2>4, HardwareBound
  <2>6. raised' \in 0..MaxEvents /\ orphaned' \in 0..MaxEvents /\ raised' + orphaned' <= MaxEvents
    BY <1>1, <2>1, EthFacts
  <2> QED BY <2>3, <2>5, <2>6 DEF WorkRaised, InHardware
<1> QED BY <1>1, <1>2, <1>5, <1>6, <1>7, <1>8 DEF EthInv, TypeOK, LoopInv

(* A successful init has no event id for whatever is in the hardware.      *)
LEMMA AccountRestarted ==
  ASSUME EthInv, RingOK(eventQueue'), eventQueue'.count = 0, eventQueue'.drops = 0,
         event' = NoItem, UNCHANGED <<descriptors, linkChanged>>,
         raised' = 0, dispatched' = 0, orphaned' = InHardware
  PROVE  /\ WorkRaised' /\ StrandedWorkIsCounted'
         /\ orphaned' \in 0..MaxEvents /\ raised' + orphaned' <= MaxEvents
<1>1. \A e \in Items : Owed(e)' = 0
  <2> SUFFICES ASSUME NEW e \in Items PROVE Owed(e)' = 0
    OBVIOUS
  <2>1. HowMany(eventQueue', e) = 0
    BY HowManyEmpty
  <2>2. Match(event', e) = 0
    BY EthFacts DEF Match
  <2>3. Owed(e)' = HowMany(eventQueue', e) + Match(event', e)
    BY DEF Owed, Match, HowMany
  <2> QED BY <2>1, <2>2, <2>3
<1>2. /\ descriptors' \in [{RX_READY, TX_DONE} -> Nat]
      /\ descriptors'[RX_READY] \in Nat /\ descriptors'[TX_DONE] \in Nat
  BY EthTypes
<1>3. LostEvents' = 0
  BY DEF LostEvents, Held
<1>4. 0 % SizeMod = 0
  BY EthFacts
<1>5. Owed(RX_READY)' = 0 /\ Owed(TX_DONE)' = 0
  BY <1>1, EthFacts
<1>6. orphaned' = (descriptors'[RX_READY] + descriptors'[TX_DONE]) + (IF linkChanged' THEN 1 ELSE 0)
  BY DEF InHardware
<1>7. StrandedWorkIsCounted'
  <2>1. ((descriptors'[RX_READY] - Owed(RX_READY)') + (descriptors'[TX_DONE] - Owed(TX_DONE)'))
           + (IF linkChanged' /\ Owed(LINK_CHANGE)' = 0 THEN 1 ELSE 0) <= LostEvents' + orphaned'
    BY <1>2, <1>3, <1>5, <1>6
  <2> QED BY <1>2, <1>3, <1>4, <1>5, <2>1, AccountFrom
<1>8. WorkRaised'
  BY <1>2, <1>6 DEF WorkRaised, InHardware
<1>9. orphaned' \in Nat /\ orphaned' <= MaxEvents
  <2>1. /\ InHardware <= raised + orphaned /\ raised + orphaned <= MaxEvents
        /\ raised \in Nat /\ orphaned \in Nat
    BY EthTypes DEF EthInv, WorkRaised
  <2>2. InHardware \in Nat
    BY <1>2 DEF InHardware
  <2> QED BY <2>1, <2>2, EthFacts
<1> QED BY <1>7, <1>8, <1>9, EthFacts

-----------------------------------------------------------------------------
(* The results.                                                            *)

(* The service starts in the invariant.                                    *)
LEMMA EthInitInv == Init => EthInv
<1> SUFFICES ASSUME Init PROVE EthInv
  OBVIOUS
<1>1. Init
  OBVIOUS
<1>2. RingOK(eventQueue) /\ eventQueue.count = 0 /\ eventQueue.drops = 0
  BY <1>1, ZeroRingOK DEF Init
<1>3. WorkRaised /\ StrandedWorkIsCounted
  BY <1>1, <1>2, AccountEmpty DEF Init
<1>4. descriptors \in [{RX_READY, TX_DONE} -> 0..MaxEvents]
  BY <1>1, EthFacts DEF Init, NoDescriptors
<1>5. {irqHint, hint, linkChanged} \subseteq BOOLEAN
  BY <1>1 DEF Init
<1>6. i = 0 /\ maxEvents = 0 /\ raised = 0 /\ dispatched = 0 /\ orphaned = 0 /\ pc = "idle" /\ event = NoItem
      /\ isr = {}
  BY <1>1 DEF Init
<1> QED BY <1>2, <1>3, <1>4, <1>5, <1>6, EthFacts DEF EthInv, TypeOK, LoopInv

(* Every step of the service keeps it.                                     *)
LEMMA EthNextInv ==
  ASSUME EthInv, [ServiceNext]_vars
  PROVE  EthInv'
<1>1. ASSUME NEW c \in EventCapacities, NEW b \in EventBudgets, SchEthServiceInit(c, b)
      PROVE  EthInv'
  <2>1. /\ pc = "idle" /\ irqHint' = FALSE /\ maxEvents' = b /\ UNCHANGED <<pc, hint, i, event, isr>>
    BY <1>1 DEF SchEthServiceInit, runVars
  <2>2. event = NoItem /\ i = 0 /\ b \in Nat /\ hint \in BOOLEAN /\ isr \subseteq EventIds
    BY <2>1, EthernetAssumption DEF EthInv, TypeOK, LoopInv
  <2>0. i' \in 0..maxEvents' /\ maxEvents' \in EventBudgets \cup {0} /\ LoopInv'
    BY <2>1, <2>2 DEF LoopInv
  <2>3. CASE InitArgsValid(c, DROP_OLDEST)
    <3>1. /\ eventQueue' = SchSpscRingInit(c, DROP_OLDEST)
          /\ UNCHANGED <<descriptors, linkChanged>>
          /\ raised' = 0 /\ dispatched' = 0 /\ orphaned' = InHardware
      BY <1>1, <2>3 DEF SchEthServiceInit, SchEventQueueInit, hardwareVars
    <3>2. RingOK(eventQueue') /\ eventQueue'.count = 0 /\ eventQueue'.drops = 0
      BY <2>3, <3>1, InitEffect, EthernetAssumption DEF InitArgsValid
    <3>3. /\ WorkRaised' /\ StrandedWorkIsCounted'
          /\ orphaned' \in 0..MaxEvents /\ raised' + orphaned' <= MaxEvents
      BY <2>1, <2>2, <3>1, <3>2, AccountRestarted
    <3>4. descriptors' \in [{RX_READY, TX_DONE} -> 0..MaxEvents]
      BY <3>1, EthTypes
    <3>5. {irqHint', hint', linkChanged'} \subseteq BOOLEAN
      BY <2>1, <2>2, <3>1, EthTypes
    <3>6. raised' \in 0..MaxEvents /\ dispatched' \in 0..raised'
      BY <3>1, EthFacts
    <3> QED BY <2>0, <2>1, <2>2, <3>2, <3>3, <3>4, <3>5, <3>6 DEF EthInv, TypeOK
  <2>4. CASE ~InitArgsValid(c, DROP_OLDEST)
    <3>1. UNCHANGED <<eventQueue, descriptors, linkChanged, raised, dispatched, orphaned>>
      BY <1>1, <2>4 DEF SchEthServiceInit, hardwareVars, histVars
    <3>2. WorkRaised' /\ StrandedWorkIsCounted'
      BY <2>1, <3>1, AccountKept
    <3>3. {irqHint', hint', linkChanged'} \subseteq BOOLEAN
      BY <2>1, <2>2, <3>1, EthTypes
    <3> QED BY <2>0, <2>1, <2>2, <3>1, <3>2, <3>3 DEF EthInv, TypeOK
  <2> QED BY <2>3, <2>4
<1>2. ASSUME NEW e \in EventIds, IsrHint(e) PROVE EthInv'
  <2>1. /\ irqHint' = TRUE /\ isr' = isr \ {e}
        /\ UNCHANGED <<eventQueue, maxEvents, pc, hint, i, event, descriptors, linkChanged,
                       raised, dispatched, orphaned>>
    BY <1>2 DEF IsrHint, runVars, hardwareVars, histVars
  <2>2. WorkRaised' /\ StrandedWorkIsCounted'
    BY <2>1, AccountKept
  <2> QED BY <2>1, <2>2 DEF EthInv, TypeOK, LoopInv
<1>3. ASSUME RunTakeHint \/ RunCheck \/ RunEnd \/ UNCHANGED vars PROVE EthInv'
  <2>1. UNCHANGED <<eventQueue, maxEvents, event, isr, descriptors, linkChanged,
                    raised, dispatched, orphaned>>
    BY <1>3 DEF RunTakeHint, RunCheck, RunEnd, vars, serviceVars, runVars, hardwareVars, histVars
  <2>2. WorkRaised' /\ StrandedWorkIsCounted'
    BY <2>1, AccountKept
  <2>3. /\ {irqHint', hint'} \subseteq BOOLEAN /\ pc' \in {"idle", "check", "drain", "dispatch"}
        /\ i' \in 0..maxEvents /\ (pc' = "dispatch" <=> pc = "dispatch") /\ LoopInv'
    <3>1. /\ irqHint \in BOOLEAN /\ hint \in BOOLEAN /\ i \in 0..maxEvents /\ LoopInv
          /\ pc \in {"idle", "check", "drain", "dispatch"} /\ 0 \in 0..maxEvents
      BY EthTypes DEF EthInv, TypeOK
    <3>2. CASE RunTakeHint
      BY <3>1, <3>2 DEF RunTakeHint, LoopInv
    <3>3. CASE RunCheck
      BY <3>1, <3>3 DEF RunCheck, LoopInv, serviceVars
    <3>4. CASE RunEnd
      BY <3>1, <3>4 DEF RunEnd, LoopInv, serviceVars
    <3>5. CASE UNCHANGED vars
      BY <3>1, <3>5 DEF LoopInv, vars, serviceVars, runVars
    <3> QED BY <1>3, <3>2, <3>3, <3>4, <3>5
  <2> QED BY <2>1, <2>2, <2>3 DEF EthInv, TypeOK
<1> QED BY <1>1, <1>2, <1>3, PushStep, PopStep, DispatchStep DEF ServiceNext

(* The invariant of the service under any scheduling.                      *)
LEMMA EthInvariant == Spec => []EthInv
<1>1. EthInv /\ [Next]_vars => EthInv'
  BY ServiceSteps, EthNextInv
<1> QED BY <1>1, EthInitInv, PTL DEF Spec

(* The firmware runs the service the way its specification allows.         *)
LEMMA FirmwareRunsService == AppSpec => Spec
<1>1. AppInit => Init
  BY DEF AppInit
<1> QED BY <1>1, FirmwareSteps, PTL DEF AppSpec, Spec

(* The Ethernet service is type correct, whenever its run is called: the   *)
(* ring stays a ring, the loop within its budget, and it never hands over  *)
(* more than was raised.                                                   *)
THEOREM EthernetTypeCorrect == Spec => []TypeOK
<1>1. EthInv => TypeOK
  BY DEF EthInv
<1> QED BY <1>1, EthInvariant, PTL

(* Every dispatched event finds its descriptor, and work is stranded in    *)
(* the hardware only for an event that was overwritten and counted, or     *)
(* that an init discarded or had no queue: nothing else goes uncounted,    *)
(* whatever init is called with and whenever the service runs.             *)
THEOREM EthernetStrandedWorkIsCounted == Spec => []StrandedWorkIsCounted
<1>1. EthInv => StrandedWorkIsCounted
  BY DEF EthInv
<1> QED BY <1>1, EthInvariant, PTL

-----------------------------------------------------------------------------
(* Latency.  The inductive invariant on top of EthInv.                     *)

(* The types the turn depends on.                                          *)
TurnTypes ==
  /\ nextBackgroundIdx \in S!Slots
  /\ inUse \in [S!Slots -> BOOLEAN] /\ enabled \in [S!Slots -> BOOLEAN]
  /\ period = [j \in S!Slots |-> period[j]]
  /\ waited \in Nat /\ taskCount \in Nat /\ called \in BOOLEAN

(* The first slot taken is the service's, and it stays a background task;  *)
(* until then there is no other task, and nothing has moved the cursor.    *)
ServiceFirst ==
  /\ inUse[ServiceTask] <=> taskCount # 0
  /\ inUse[ServiceTask] => enabled[ServiceTask] /\ period[ServiceTask] = 0
  /\ ~inUse[ServiceTask] =>
       /\ \A j \in S!Slots : ~inUse[j]
       /\ waited = 0 /\ nextBackgroundIdx = 0

(* The run is in progress only inside the service's callback.              *)
RunInCallback == (~InServiceCallback => ~called) /\ (~called => pc = "idle")

(* Past its first pop, or past its end, a run has served the oldest event. *)
OldestServed ==
  /\ eventQueue.count = 0 => waited = 0
  /\ maxEvents = 0 => eventQueue.capacity = 0
  /\ pc = "dispatch" \/ (pc = "drain" /\ i > 0) \/ (called /\ pc = "idle") => waited = 0

(* The cycles waited and the slots still ahead of the service's turn make  *)
(* at most one round of the table.                                         *)
Turn ==
  IF mainPc = "idle" THEN waited = 0 /\ nextBackgroundIdx = 0
  ELSE IF mainPc = "backgroundCallback"
    THEN IF selected = ServiceTask
           THEN nextBackgroundIdx = S!NextCursor(ServiceTask) /\ waited <= MaxTasks
           ELSE waited + S!Offset(ServiceTask) < MaxTasks
  ELSE waited + S!Offset(ServiceTask) <= MaxTasks

LatencyInv == TurnTypes /\ ServiceFirst /\ RunInCallback /\ OldestServed /\ Turn

(* Facts about the table.                                                  *)
LEMMA TableFacts ==
  /\ MaxTasks \in Nat \ {0} /\ S!Slots = 0..(MaxTasks - 1) /\ S!Slots \subseteq Nat
  /\ ServiceTask = 0 /\ ServiceTask \in S!Slots
BY AppAssumption DEF S!Slots, ServiceTask

(* A nonempty set of naturals has a least element.                         *)
LEMMA LeastNatural ==
  ASSUME NEW T, T \subseteq Nat, T # {}
  PROVE  \E x \in T : \A y \in T : x <= y
<1> DEFINE R == OpToRel(<, Nat)
<1>1. IsWellFoundedOn(R, Nat)
  BY NatLessThanWellFounded, Zenon
<1>2. PICK x \in T : \A y \in T : ~(<<y, x>> \in R)
  BY <1>1, WFMin, Zenon
<1>3. \A y \in T : ~(y < x)
  BY <1>2 DEF OpToRel
<1> QED BY <1>3

(* The distance from c to x, going up and around a table of m slots.       *)
Around(m, c, x) == IF x >= c THEN x - c ELSE (x - c) + m

(* The remainder in the scan's index arithmetic is that distance.          *)
LEMMA AroundIsMod ==
  ASSUME NEW m \in Nat \ {0}, NEW c \in 0..(m - 1), NEW x \in 0..(m - 1)
  PROVE  (x - c) % m = Around(m, c, x)
<1>1. CASE x >= c
  BY <1>1 DEF Around
<1>2. CASE x < c
  <2> DEFINE w == (x - c) + m
  <2>1. w \in 0..(m - 1) /\ x - c = w - m
    BY <1>2
  <2> HIDE DEF w
  <2>2. w % m = w /\ (w - m) % m = w % m
    <3>1. w % m = w
      BY <2>1
    <3>2. w - m = m * (-1) + w
      BY <2>1
    <3>3. (m * (-1) + w) % m = w
      BY <2>1
    <3> QED BY <3>1, <3>2, <3>3
  <2>3. Around(m, c, x) = w
    BY <1>2 DEF Around, w
  <2> QED BY <2>1, <2>2, <2>3
<1> QED BY <1>1, <1>2

(* The offsets of the scan are distances from the cursor.                  *)
LEMMA OffsetIsAround ==
  ASSUME nextBackgroundIdx \in S!Slots, NEW x \in S!Slots
  PROVE  S!Offset(x) = Around(MaxTasks, nextBackgroundIdx, x)
BY TableFacts, AroundIsMod DEF S!Offset

(* The same after a step.                                                  *)
LEMMA OffsetIsAroundAfter ==
  ASSUME nextBackgroundIdx' \in S!Slots, NEW x \in S!Slots
  PROVE  S!Offset(x)' = Around(MaxTasks, nextBackgroundIdx', x)
BY TableFacts, AroundIsMod DEF S!Offset

(* sch_select_background_task: the first background task from the cursor.  *)
LEMMA FirstFromCursor ==
  ASSUME nextBackgroundIdx \in S!Slots, S!BackgroundTasks # {}
  PROVE  /\ S!SchSelectBackgroundTask \in S!BackgroundTasks
         /\ \A j \in S!BackgroundTasks : S!Offset(S!SchSelectBackgroundTask) <= S!Offset(j)
<1>1. S!BackgroundTasks \subseteq S!Slots
  BY DEF S!BackgroundTasks
<1>2. \A j \in S!Slots : S!Offset(j) \in Nat
  BY OffsetIsAround, TableFacts DEF Around
<1> DEFINE P == {S!Offset(j) : j \in S!BackgroundTasks}
<1>3. PICK b \in P : \A y \in P : b <= y
  BY <1>1, <1>2, LeastNatural
<1>4. PICK s \in S!BackgroundTasks : S!Offset(s) = b
  BY <1>3
<1>5. \A j \in S!BackgroundTasks : S!Offset(s) <= S!Offset(j)
  BY <1>3, <1>4
<1> QED BY <1>4, <1>5, Zenon DEF S!SchSelectBackgroundTask

(* sch_add_task takes the service's slot exactly while the table is empty. *)
LEMMA FirstFreeSlot ==
  ASSUME TurnTypes, ServiceFirst, NEW f \in S!Slots, ~inUse[f]
  PROVE  /\ S!FreeSlot \in S!Slots
         /\ S!FreeSlot = ServiceTask <=> ~inUse[ServiceTask]
<1> DEFINE F == {j \in S!Slots : ~inUse[j]}
<1>1. PICK s \in F : \A y \in F : s <= y
  BY TableFacts, LeastNatural
<1>2. ~inUse[s] /\ \A j \in S!Slots : j < s => inUse[j]
  BY <1>1, TableFacts
<1>3. /\ S!FreeSlot \in S!Slots /\ ~inUse[S!FreeSlot]
      /\ \A j \in S!Slots : j < S!FreeSlot => inUse[j]
  BY <1>1, <1>2, Zenon DEF S!FreeSlot
<1>4. CASE inUse[ServiceTask]
  BY <1>3, <1>4
<1>5. CASE ~inUse[ServiceTask]
  BY <1>3, <1>5, TableFacts
<1> QED BY <1>3, <1>4, <1>5

-----------------------------------------------------------------------------
(* It holds initially.                                                     *)
LEMMA LatencyInit == AppInit => LatencyInv
<1> SUFFICES ASSUME AppInit PROVE LatencyInv
  OBVIOUS
<1>1. /\ Init /\ called = FALSE /\ waited = 0 /\ mainPc = "outside" /\ nextBackgroundIdx = 0
      /\ period = [j \in S!Slots |-> 0] /\ enabled = [j \in S!Slots |-> FALSE]
      /\ inUse = [j \in S!Slots |-> FALSE] /\ taskCount = 0
  BY DEF AppInit, S!Init
<1>2. TurnTypes /\ ServiceFirst
  BY <1>1, TableFacts DEF TurnTypes, ServiceFirst
<1>3. RunInCallback /\ OldestServed
  BY <1>1 DEF RunInCallback, OldestServed, Init, ZeroRing
<1>4. S!Offset(ServiceTask) = 0
  BY <1>1, TableFacts, OffsetIsAround DEF Around
<1>5. Turn
  BY <1>1, <1>4, TableFacts DEF Turn
<1> QED BY <1>2, <1>3, <1>5 DEF LatencyInv

(* The scheduler's part of the state that the invariant reads.             *)
tableVars == <<nextBackgroundIdx, inUse, enabled, period, taskCount, mainPc, selected>>

(* A step of the service or of an interrupt: the table stays, and the wait *)
(* goes on or ends.                                                        *)
LEMMA TableKept ==
  ASSUME LatencyInv, UNCHANGED tableVars, waited' \in {0, waited}, called' \in BOOLEAN
  PROVE  TurnTypes' /\ ServiceFirst' /\ Turn' /\ (InServiceCallback' <=> InServiceCallback)
<1>1. UNCHANGED <<nextBackgroundIdx, inUse, enabled, period, taskCount, mainPc, selected>>
  BY DEF tableVars
<1>2. TurnTypes' /\ ServiceFirst'
  BY <1>1 DEF LatencyInv, TurnTypes, ServiceFirst
<1>3. S!Offset(ServiceTask)' = S!Offset(ServiceTask) /\ S!Offset(ServiceTask) \in Nat
  <2>1. S!Offset(ServiceTask) \in Nat
    BY OffsetIsAround, TableFacts DEF Around, LatencyInv, TurnTypes
  <2> QED BY <1>1, <2>1 DEF S!Offset
<1>4. waited \in Nat /\ waited' \in Nat /\ waited' <= waited
  BY DEF LatencyInv, TurnTypes
<1>5. Turn'
  BY <1>1, <1>3, <1>4, TableFacts DEF LatencyInv, Turn, S!NextCursor
<1>6. InServiceCallback' <=> InServiceCallback
  BY <1>1 DEF InServiceCallback
<1> QED BY <1>2, <1>5, <1>6

(* The main program initialises the service between two cycles.            *)
LEMMA LatencyInitService ==
  ASSUME EthInv, LatencyInv, InitService
  PROVE  LatencyInv'
<1>1. PICK c \in EventCapacities, b \in EventBudgets : SchEthServiceInit(c, b)
  BY DEF InitService
<1>2. /\ mainPc = "outside" /\ UNCHANGED schedulerVars /\ called' = called /\ pc' = pc /\ i' = i
      /\ pc = "idle" /\ maxEvents' # 0
      /\ waited' = IF eventQueue'.count = 0 THEN 0 ELSE waited
  BY <1>1 DEF InitService, SchEthServiceInit, runVars
<1>3. UNCHANGED tableVars
  BY <1>2 DEF schedulerVars, tableVars
<1>4. waited' \in {0, waited} /\ called' \in BOOLEAN
  BY <1>2 DEF LatencyInv, TurnTypes
<1>5. TurnTypes' /\ ServiceFirst' /\ Turn' /\ (InServiceCallback' <=> InServiceCallback)
  BY <1>3, <1>4, TableKept
<1>6. ~InServiceCallback /\ ~called
  BY <1>2 DEF InServiceCallback, LatencyInv, RunInCallback
<1>7. RunInCallback' /\ OldestServed'
  BY <1>2, <1>5, <1>6 DEF RunInCallback, OldestServed
<1> QED BY <1>5, <1>7 DEF LatencyInv

(* An interrupt pushes its event or sets the hint.                         *)
LEMMA LatencyInterrupt ==
  ASSUME EthInv, LatencyInv, Interrupt
  PROVE  LatencyInv'
<1>1. /\ UNCHANGED <<tableVars, called, waited, pc, i, maxEvents>>
      /\ \/ eventQueue' = eventQueue
         \/ \E e \in EventIds : eventQueue' = SchSpscRingPushIsr(eventQueue, e)
  BY DEF Interrupt, SchEthIsrRx, SchEthIsrTx, SchEthIsrLink, IsrPush, IsrHint, EventIds, runVars,
         schedulerVars, tableVars, SchEventQueuePushIsr
<1>2. /\ eventQueue'.capacity = eventQueue.capacity
      /\ eventQueue'.count = 0 => eventQueue.count = 0
  <2>1. CASE eventQueue' = eventQueue
    BY <2>1
  <2>2. ASSUME NEW e \in EventIds, eventQueue' = SchSpscRingPushIsr(eventQueue, e)
        PROVE  /\ eventQueue'.capacity = eventQueue.capacity
               /\ eventQueue'.count = 0 => eventQueue.count = 0
    <3>1. /\ RingOK(eventQueue) /\ e \in Items
          /\ eventQueue.capacity \in Nat /\ eventQueue.count \in 0..eventQueue.capacity
      BY EthTypes, EthFacts DEF RingOK
    <3> QED BY <2>2, <3>1, PushEffect
  <2> QED BY <1>1, <2>1, <2>2
<1>3. UNCHANGED tableVars /\ waited' \in {0, waited} /\ called' \in BOOLEAN
  BY <1>1 DEF LatencyInv, TurnTypes
<1>4. TurnTypes' /\ ServiceFirst' /\ Turn' /\ (InServiceCallback' <=> InServiceCallback)
  BY <1>3, TableKept
<1>5. RunInCallback' /\ OldestServed'
  BY <1>1, <1>2, <1>4 DEF LatencyInv, RunInCallback, OldestServed
<1> QED BY <1>4, <1>5 DEF LatencyInv

(* The callback serves the oldest event, or has none to serve.             *)
LEMMA LatencyServiceStep ==
  ASSUME EthInv, LatencyInv, ServiceStep
  PROVE  LatencyInv'
<1>1. /\ InServiceCallback /\ called' = TRUE /\ UNCHANGED schedulerVars
      /\ waited' = IF RunPop THEN 0 ELSE waited
  BY DEF ServiceStep
<1>2. UNCHANGED tableVars /\ waited' \in {0, waited} /\ called' \in BOOLEAN
  BY <1>1 DEF schedulerVars, tableVars
<1>3. TurnTypes' /\ ServiceFirst' /\ Turn' /\ RunInCallback'
  <2>1. TurnTypes' /\ ServiceFirst' /\ Turn' /\ (InServiceCallback' <=> InServiceCallback)
    BY <1>2, TableKept
  <2> QED BY <1>1, <2>1 DEF RunInCallback
<1>4. /\ eventQueue.capacity \in Nat /\ eventQueue.count \in 0..eventQueue.capacity
      /\ SchRingValid(eventQueue) <=> eventQueue.capacity > 0
      /\ maxEvents \in Nat /\ i \in 0..maxEvents
      /\ waited = 0 => waited' = 0
  <2>1. waited = 0 => waited' = 0
    BY <1>1
  <2>2. RingOK(eventQueue) /\ maxEvents \in Nat /\ i \in 0..maxEvents
    BY EthTypes
  <2> QED BY <2>1, <2>2 DEF RingOK, SchRingValid
<1>5. OldestServed'
  <2>1. CASE RunTakeHint
    BY <1>1, <1>4, <2>1 DEF LatencyInv, OldestServed, RunTakeHint
  <2>2. CASE RunCheck
    <3>1. UNCHANGED <<eventQueue, maxEvents, i>>
      BY <2>2 DEF RunCheck, serviceVars
    <3>2. pc' = "idle" => eventQueue.count = 0
      BY <1>4, <2>2 DEF RunCheck, NothingToDo, SchEventQueueSize, SchSpscRingSize
    <3>3. pc' \in {"idle", "drain"} /\ i = 0
      BY <2>2 DEF RunCheck, EthInv, LoopInv
    <3> QED BY <1>4, <3>1, <3>2, <3>3 DEF LatencyInv, OldestServed
  <2>3. CASE RunPop
    <3>1. waited' = 0 /\ maxEvents' = maxEvents
      BY <1>1, <2>3 DEF RunPop
    <3>2. eventQueue'.capacity = eventQueue.capacity
      BY <2>3, EthTypes, PopEffect DEF RunPop, SchEventQueuePopTask
    <3> QED BY <3>1, <3>2 DEF LatencyInv, OldestServed
  <2>4. CASE RunDispatch
    <3>1. UNCHANGED <<eventQueue, maxEvents>> /\ pc = "dispatch"
      BY <2>4 DEF RunDispatch, serviceVars
    <3>2. waited' = 0
      BY <1>4, <3>1 DEF LatencyInv, OldestServed
    <3> QED BY <3>1, <3>2 DEF LatencyInv, OldestServed
  <2>5. CASE RunEnd
    <3>1. UNCHANGED <<eventQueue, maxEvents>> /\ pc = "drain"
          /\ (i = maxEvents \/ ~PopSucceeds(eventQueue))
      BY <2>5 DEF RunEnd, serviceVars
    <3>2. waited = 0
      <4>1. CASE i > 0
        BY <3>1, <4>1 DEF LatencyInv, OldestServed
      <4>2. CASE i = maxEvents /\ ~(i > 0)
        <5>1. maxEvents = 0 /\ eventQueue.capacity = 0
          BY <1>4, <4>2 DEF LatencyInv, OldestServed
        <5> QED BY <1>4, <5>1 DEF LatencyInv, OldestServed
      <4>3. CASE ~PopSucceeds(eventQueue)
        <5>1. eventQueue.count = 0
          BY <1>4, <4>3 DEF PopSucceeds
        <5> QED BY <5>1 DEF LatencyInv, OldestServed
      <4> QED BY <3>1, <4>1, <4>2, <4>3
    <3> QED BY <1>4, <3>1, <3>2 DEF LatencyInv, OldestServed
  <2> QED BY <2>1, <2>2, <2>3, <2>4, <2>5 DEF ServiceStep, SchEthServiceRun
<1> QED BY <1>3, <1>5 DEF LatencyInv

(* A task is added; the first one is the service.                          *)
LEMMA LatencyAddTask ==
  ASSUME LatencyInv, AddTask
  PROVE  LatencyInv'
<1>1. PICK p \in Periods, d \in Delays, q \in Priorities :
        (taskCount = ServiceTask => p = 0) /\ S!SchAddTask(p, d, q)
  BY DEF AddTask
<1> DEFINE f == S!FreeSlot
<1>2. /\ \E j \in S!Slots : ~inUse[j]
      /\ period' = [period EXCEPT ![f] = p] /\ enabled' = [enabled EXCEPT ![f] = TRUE]
      /\ inUse' = [inUse EXCEPT ![f] = TRUE] /\ taskCount' = taskCount + 1
      /\ UNCHANGED <<nextBackgroundIdx, mainPc, selected>>
  BY <1>1 DEF S!SchAddTask, S!runVars
<1>3. UNCHANGED <<called, waited, pc, i, eventQueue, maxEvents>>
  BY DEF AddTask, vars, runVars, serviceVars
<1>4. f \in S!Slots /\ (f = ServiceTask <=> ~inUse[ServiceTask])
  BY <1>2, FirstFreeSlot DEF LatencyInv
<1> HIDE DEF f
<1>5. TurnTypes'
  BY <1>2, <1>3, <1>4 DEF LatencyInv, TurnTypes
<1>6. ServiceFirst'
  <2>1. inUse'[ServiceTask] /\ enabled'[ServiceTask] /\ period'[ServiceTask] = 0
    <3>1. CASE inUse[ServiceTask]
      BY <1>2, <1>4, <3>1, TableFacts DEF LatencyInv, TurnTypes, ServiceFirst
    <3>2. CASE ~inUse[ServiceTask]
      BY <1>1, <1>2, <1>4, <3>2, TableFacts DEF LatencyInv, TurnTypes, ServiceFirst
    <3> QED BY <3>1, <3>2
  <2>2. taskCount' # 0
    BY <1>2 DEF LatencyInv, TurnTypes
  <2> QED BY <2>1, <2>2 DEF ServiceFirst
<1>7. RunInCallback' /\ OldestServed'
  BY <1>2, <1>3 DEF LatencyInv, RunInCallback, OldestServed, InServiceCallback
<1>8. Turn'
  <2>1. S!Offset(ServiceTask)' = S!Offset(ServiceTask)
    BY <1>2 DEF S!Offset
  <2> QED BY <1>2, <1>3, <2>1 DEF LatencyInv, Turn, S!NextCursor
<1> QED BY <1>5, <1>6, <1>7, <1>8 DEF LatencyInv

(* A step of sch_run: the cursor moves by what the scan has passed.        *)
LEMMA LatencySchedulerStep ==
  ASSUME LatencyInv, SchedulerStep
  PROVE  LatencyInv'
<1> DEFINE o == S!Offset(ServiceTask)
<1>1. /\ S!SchRun /\ (InServiceCallback => called /\ pc = "idle") /\ called' = FALSE
      /\ waited' = IF mainPc' = "outside" /\ inUse[ServiceTask] /\ eventQueue.count > 0
                     THEN waited + 1 ELSE waited
      /\ UNCHANGED <<pc, i, eventQueue, maxEvents>>
  BY DEF SchedulerStep, vars, runVars, serviceVars
<1>2. /\ nextBackgroundIdx \in S!Slots /\ waited \in Nat /\ o \in 0..(MaxTasks - 1)
      /\ waited' \in Nat /\ waited' \in {waited, waited + 1}
  <2>1. nextBackgroundIdx \in S!Slots /\ waited \in Nat
    BY DEF LatencyInv, TurnTypes
  <2> QED BY <1>1, <2>1, OffsetIsAround, TableFacts DEF Around
<1>3. RunInCallback' /\ pc = "idle"
  BY <1>1 DEF LatencyInv, RunInCallback
<1>4. UNCHANGED <<inUse, enabled, period, taskCount>>
  BY <1>1 DEF S!SchRun, S!SchRunEnter, S!SchRunSelect, S!SchRunCallbackReturn, S!SchRunLoopEnd,
     S!SchRunBackground, S!SchRunBackgroundReturn, S!SchRunNoBackground, S!SchRunIdleReturn,
     S!taskVars
<1>5. OldestServed'
  BY <1>1, <1>3 DEF LatencyInv, OldestServed
<1>6. CASE S!SchRunBackground
  <2> DEFINE s == S!SchSelectBackgroundTask
  <2>1. /\ S!BackgroundTasks # {} /\ mainPc' = "backgroundCallback" /\ mainPc = "background"
        /\ selected' = s /\ nextBackgroundIdx' = S!NextCursor(s)
    BY <1>6 DEF S!SchRunBackground
  <2>2. s \in S!Slots /\ inUse[s] /\ \A j \in S!BackgroundTasks : S!Offset(s) <= S!Offset(j)
    BY <1>2, <2>1, FirstFromCursor DEF S!BackgroundTasks
  <2> HIDE DEF s
  <2>3. inUse[ServiceTask] /\ ServiceTask \in S!BackgroundTasks
    BY <2>2, TableFacts DEF LatencyInv, ServiceFirst, S!BackgroundTasks
  <2>4. nextBackgroundIdx' \in S!Slots /\ nextBackgroundIdx' = IF s + 1 = MaxTasks THEN 0 ELSE s + 1
    BY <2>1, <2>2, TableFacts DEF S!NextCursor
  <2>5. waited' = waited /\ waited + o <= MaxTasks
    BY <1>1, <2>1 DEF LatencyInv, Turn
  <2>6. TurnTypes' /\ ServiceFirst'
    BY <1>1, <1>2, <1>4, <2>3, <2>4 DEF LatencyInv, TurnTypes, ServiceFirst
  <2>7. Turn'
    <3>1. CASE s = ServiceTask
      <4>1. waited' <= MaxTasks
        BY <1>2, <2>5, TableFacts
      <4> QED BY <2>1, <3>1, <4>1 DEF Turn, S!NextCursor
    <3>2. CASE s # ServiceTask
      <4>1. S!Offset(s) <= o
        BY <2>2, <2>3
      <4>2. /\ S!Offset(s) = Around(MaxTasks, nextBackgroundIdx, s)
            /\ o = Around(MaxTasks, nextBackgroundIdx, 0)
            /\ o' = Around(MaxTasks, nextBackgroundIdx', 0)
        BY <1>2, <2>2, <2>4, TableFacts, OffsetIsAround, OffsetIsAroundAfter
      <4> HIDE DEF o
      <4>3. o' < o
        BY <1>2, <2>2, <2>4, <3>2, <4>1, <4>2, TableFacts DEF Around
      <4>4. waited' + o' < MaxTasks
        <5>1. PICK e \in Int : e = o'
          BY <2>4, <4>2, TableFacts DEF Around
        <5>2. e < o /\ o \in Int /\ waited \in Int /\ MaxTasks \in Int
          BY <1>2, <4>3, <5>1, TableFacts
        <5>3. waited + e < MaxTasks
          BY <2>5, <5>2
        <5> QED BY <2>5, <5>1, <5>3
      <4> QED BY <2>1, <3>2, <4>4 DEF Turn, o
    <3> QED BY <3>1, <3>2
  <2> QED BY <1>3, <1>5, <2>6, <2>7 DEF LatencyInv
<1>7. CASE ~S!SchRunBackground
  <2>1. /\ nextBackgroundIdx' = nextBackgroundIdx
        /\ \/ /\ mainPc' \in {"loop", "callback", "background"}
              /\ mainPc \in {"outside", "loop", "callback"}
           \/ mainPc = "background" /\ mainPc' = "idle" /\ S!BackgroundTasks = {}
           \/ mainPc \in {"backgroundCallback", "idle"} /\ mainPc' = "outside"
    BY <1>1, <1>7 DEF S!SchRun, S!SchRunEnter, S!SchRunSelect, S!SchRunCallbackReturn, S!SchRunLoopEnd,
       S!SchRunBackgroundReturn, S!SchRunNoBackground, S!SchRunIdleReturn, S!LeaveRun
  <2>2. TurnTypes' /\ ServiceFirst'
    BY <1>1, <1>2, <1>4, <2>1 DEF LatencyInv, TurnTypes, ServiceFirst
  <2>3. o' = o
    BY <2>1 DEF S!Offset
  <2>4. Turn'
    <3>1. CASE /\ mainPc' \in {"loop", "callback", "background"}
               /\ mainPc \in {"outside", "loop", "callback"}
      BY <1>1, <2>3, <3>1 DEF LatencyInv, Turn
    <3>2. CASE mainPc = "background" /\ mainPc' = "idle" /\ S!BackgroundTasks = {}
      <4>1. ~inUse[ServiceTask]
        BY <3>2, TableFacts DEF S!BackgroundTasks, LatencyInv, ServiceFirst
      <4> QED BY <1>1, <2>1, <3>2, <4>1 DEF LatencyInv, ServiceFirst, Turn
    <3>3. CASE mainPc \in {"backgroundCallback", "idle"} /\ mainPc' = "outside"
      <4>1. waited + 1 + o <= MaxTasks
        <5>1. CASE mainPc = "idle"
          <6>1. waited = 0 /\ nextBackgroundIdx = 0
            BY <5>1 DEF LatencyInv, Turn
          <6>2. o = 0
            BY <6>1, TableFacts, OffsetIsAround DEF Around
          <6> QED BY <6>1, <6>2, TableFacts
        <5>2. CASE mainPc = "backgroundCallback" /\ selected = ServiceTask
          <6>1. waited = 0
            BY <1>1, <5>2 DEF LatencyInv, OldestServed, InServiceCallback
          <6> QED BY <1>2, <6>1, TableFacts
        <5>3. CASE mainPc = "backgroundCallback" /\ selected # ServiceTask
          <6>1. waited + o < MaxTasks
            BY <5>3 DEF LatencyInv, Turn
          <6> QED BY <1>2, <6>1, TableFacts
        <5> QED BY <3>3, <5>1, <5>2, <5>3
      <4>2. waited' + o <= MaxTasks
        BY <1>2, <4>1, TableFacts
      <4> QED BY <2>3, <3>3, <4>2 DEF Turn
    <3> QED BY <2>1, <3>1, <3>2, <3>3
  <2> QED BY <1>3, <1>5, <2>2, <2>4 DEF LatencyInv
<1> QED BY <1>6, <1>7

(* Every step of the firmware keeps the invariant.                         *)
LEMMA LatencyNext ==
  ASSUME EthInv, LatencyInv, [AppNext]_appVars
  PROVE  LatencyInv'
<1>1. CASE Timer \/ Rebase \/ UNCHANGED appVars
  <2>1. UNCHANGED <<tableVars, called, waited, pc, i, maxEvents, eventQueue>>
    <3>1. CASE Timer
      BY <3>1 DEF Timer, S!Tick, S!taskVars, S!runVars, vars, runVars, serviceVars, tableVars
    <3>2. CASE Rebase
      BY <3>2 DEF Rebase, vars, runVars, serviceVars, tableVars
    <3>3. CASE UNCHANGED appVars
      BY <3>3 DEF appVars, schedulerVars, vars, runVars, serviceVars, tableVars
    <3> QED BY <1>1, <3>1, <3>2, <3>3
  <2>2. UNCHANGED tableVars /\ waited' \in {0, waited} /\ called' \in BOOLEAN
    BY <2>1 DEF LatencyInv, TurnTypes
  <2>3. TurnTypes' /\ ServiceFirst' /\ Turn' /\ (InServiceCallback' <=> InServiceCallback)
    BY <2>2, TableKept
  <2>4. RunInCallback' /\ OldestServed'
    BY <2>1, <2>3 DEF LatencyInv, RunInCallback, OldestServed
  <2> QED BY <2>3, <2>4 DEF LatencyInv
<1> QED BY <1>1, LatencyInitService, LatencyAddTask, LatencyServiceStep, LatencySchedulerStep,
           LatencyInterrupt DEF AppNext, MainLoop

(* The oldest event in the queue waits for at most one round of the table: *)
(* it is handed over within SCH_MAX_TASKS calls of sch_run, for any number *)
(* of slots and any tasks beside the service, periodic or background,      *)
(* added at any time, and for any capacity, budget and interleaving of     *)
(* interrupts.                                                             *)
THEOREM EthernetEventLatencyBounded == AppSpec => []EventLatencyBounded
<1>1. EthInv /\ LatencyInv /\ [AppNext]_appVars => LatencyInv'
  BY LatencyNext
<1>2. LatencyInv => EventLatencyBounded
  <2> SUFFICES ASSUME LatencyInv PROVE waited <= MaxTasks
    BY DEF EventLatencyBounded
  <2>1. S!Offset(ServiceTask) \in Nat /\ waited \in Nat
    BY OffsetIsAround, TableFacts DEF Around, LatencyInv, TurnTypes
  <2> QED BY <2>1, TableFacts DEF LatencyInv, Turn
<1> QED BY <1>1, <1>2, LatencyInit, EthInvariant, FirmwareRunsService, PTL DEF AppSpec
=============================================================================
