---------------------------- MODULE UartService -----------------------------
(***************************************************************************)
(* uart_service.c: a receive ring filled by the RX interrupt, a transmit   *)
(* ring filled by sch_uart_service_queue_tx, two wake hints, and a         *)
(* scheduler task that drains both rings within its budgets.               *)
(*                                                                         *)
(* Steps are the critical sections and the HAL calls.  A byte is a serial  *)
(* number, per direction.  try_write_byte may refuse a byte at any time.   *)
(***************************************************************************)
EXTENDS SpscRing

CONSTANTS
  RxCapacities, TxCapacities,   \* capacity arguments of init
  RxBudgets, TxBudgets,         \* max_*_items_per_run arguments
  MaxRx, MaxTx                  \* bounds on bytes between two inits

Bytes == 1..(MaxRx + MaxTx)

ASSUME UartAssumption ==
  /\ Items = Bytes
  /\ RxCapacities \cup TxCapacities \cup RxBudgets \cup TxBudgets \subseteq Nat
  /\ MaxRx \in Nat /\ MaxTx \in Nat

VARIABLES
  \* sch_uart_service_t
  rxRing, txRing, rxHint, txHint, maxRxItems, maxTxItems,
  \* sch_uart_service_run
  pc, hint, i, byte,
  rxIsr,      \* the RX handler has pushed and not yet set its hint
  \* history, since the last init of the ring concerned
  received,   \* bytes the RX handler pushed
  handed,     \* bytes the task took from the receive ring
  queued,     \* calls of queue_tx
  sent,       \* bytes try_write_byte accepted
  lastSent,   \* serial number of the last one
  intruded    \* queue_tx was called since the run popped byte

serviceVars == <<rxRing, txRing, rxHint, txHint, maxRxItems, maxTxItems>>
runVars  == <<pc, hint, i, byte>>
rxHist   == <<received, handed>>
txHist   == <<queued, sent, lastSent, intruded>>
vars == <<serviceVars, runVars, rxIsr, rxHist, txHist>>

Init ==
  /\ rxRing = ZeroRing /\ txRing = ZeroRing
  /\ rxHint = FALSE /\ txHint = FALSE
  /\ maxRxItems = 0 /\ maxTxItems = 0
  /\ pc = "idle" /\ hint = FALSE /\ i = 0 /\ byte = NoItem
  /\ rxIsr = FALSE
  /\ received = 0 /\ handed = 0
  /\ queued = 0 /\ sent = 0 /\ lastSent = 0 /\ intruded = FALSE

(* Init that passes its own argument tests.  Each ring is replaced only if *)
(* its capacity is valid; the other assignments happen in any case.        *)
SchUartServiceInit(rc, tc, rb, tb) ==
  /\ pc = "idle" /\ rb # 0 /\ tb # 0
  /\ rxHint' = FALSE /\ txHint' = FALSE
  /\ maxRxItems' = rb /\ maxTxItems' = tb
  /\ IF InitArgsValid(rc, DROP_OLDEST)
       THEN /\ rxRing' = SchSpscRingInit(rc, DROP_OLDEST)
            /\ received' = 0 /\ handed' = 0
       ELSE UNCHANGED <<rxRing, rxHist>>
  /\ IF InitArgsValid(tc, DROP_NEWEST)
       THEN /\ txRing' = SchSpscRingInit(tc, DROP_NEWEST)
            /\ queued' = 0 /\ sent' = 0 /\ lastSent' = 0 /\ UNCHANGED intruded
       ELSE UNCHANGED <<txRing, txHist>>
  /\ UNCHANGED <<runVars, rxIsr>>

(* sch_uart_isr_rx when try_read_byte has a byte: push it, then set the    *)
(* hint.  Without a byte the handler changes nothing.  The handler, too,   *)
(* needs the HAL callbacks of an init that passed its argument tests.      *)
SchUartIsrRxPush ==
  /\ ~rxIsr /\ maxRxItems # 0
  /\ received < MaxRx
  /\ rxRing' = SchSpscRingPushIsr(rxRing, received + 1)
  /\ received' = IF SchRingValid(rxRing) THEN received + 1 ELSE received
  /\ rxIsr' = TRUE
  /\ UNCHANGED <<txRing, rxHint, txHint, maxRxItems, maxTxItems, runVars, handed, txHist>>

SchUartIsrRxHint ==
  /\ rxIsr
  /\ rxHint' = TRUE
  /\ rxIsr' = FALSE
  /\ UNCHANGED <<rxRing, txRing, txHint, maxRxItems, maxTxItems, runVars, rxHist, txHist>>

SchUartIsrTxReady ==
  /\ txHint' = TRUE
  /\ UNCHANGED <<rxRing, txRing, rxHint, maxRxItems, maxTxItems, runVars, rxIsr, rxHist, txHist>>

(* sch_uart_service_queue_tx, from a task or, at any time, from an         *)
(* interrupt.  A ring that no init has made valid refuses the byte and     *)
(* nothing changes.                                                        *)
SchUartServiceQueueTx ==
  /\ SchRingValid(txRing) /\ queued < MaxTx
  /\ txRing' = SchSpscRingPushIsr(txRing, queued + 1)
  /\ queued' = queued + 1
  /\ intruded' = (byte # NoItem)
  /\ UNCHANGED <<rxRing, rxHint, txHint, maxRxItems, maxTxItems, runVars, rxIsr,
                 rxHist, sent, lastSent>>

-----------------------------------------------------------------------------
(* A run needs the HAL callbacks: the first init has passed its argument   *)
(* tests.                                                                  *)
RunTakeHints ==
  /\ pc = "idle" /\ maxTxItems # 0
  /\ hint' = (rxHint \/ txHint)
  /\ rxHint' = FALSE /\ txHint' = FALSE
  /\ pc' = "check"
  /\ UNCHANGED <<rxRing, txRing, maxRxItems, maxTxItems, i, byte, rxIsr, rxHist, txHist>>

(* Faulty variant: the hints alone decide whether there is work.           *)
NothingToDoHintOnly == ~hint

NothingToDo ==
  /\ ~hint
  /\ SchSpscRingIsEmpty(rxRing)
  /\ SchSpscRingIsEmpty(txRing)

RunCheck ==
  /\ pc = "check"
  /\ pc' = IF NothingToDo THEN "idle" ELSE "tx"
  /\ hint' = FALSE
  /\ UNCHANGED <<serviceVars, i, byte, rxIsr, rxHist, txHist>>

(* Faulty variant: the byte is read without leaving the ring.              *)
RunPopTxPeek ==
  /\ pc = "tx" /\ i < maxTxItems /\ PopSucceeds(txRing)
  /\ byte' = PoppedItem(txRing)
  /\ pc' = "write"
  /\ UNCHANGED <<serviceVars, hint, i, rxIsr, rxHist, txHist>>

RunPopTx ==
  /\ pc = "tx" /\ i < maxTxItems /\ PopSucceeds(txRing)
  /\ txRing' = SchSpscRingPopTask(txRing)
  /\ byte' = PoppedItem(txRing)
  /\ pc' = "write"
  /\ UNCHANGED <<rxRing, rxHint, txHint, maxRxItems, maxTxItems, hint, i, rxIsr, rxHist, txHist>>

(* try_write_byte takes the byte.                                          *)
RunWriteAccepted ==
  /\ pc = "write"
  /\ sent' = sent + 1 /\ lastSent' = byte /\ intruded' = FALSE
  /\ byte' = NoItem
  /\ i' = i + 1
  /\ pc' = "tx"
  /\ UNCHANGED <<serviceVars, hint, rxIsr, rxHist, queued>>

(* try_write_byte refuses it.                                              *)
RunWriteRefused ==
  /\ pc = "write"
  /\ pc' = "requeue"
  /\ UNCHANGED <<serviceVars, hint, i, byte, rxIsr, rxHist, txHist>>

(* Faulty variant: the refused byte is forgotten.                          *)
RunRequeueForgotten ==
  /\ pc = "requeue"
  /\ byte' = NoItem /\ intruded' = FALSE
  /\ i' = 0
  /\ pc' = "rx"
  /\ UNCHANGED <<serviceVars, hint, rxIsr, rxHist, queued, sent, lastSent>>

(* The refused byte goes to the back of the transmit ring.                 *)
RunRequeue ==
  /\ pc = "requeue"
  /\ txRing' = SchSpscRingPushIsr(txRing, byte)
  /\ byte' = NoItem /\ intruded' = FALSE
  /\ i' = 0
  /\ pc' = "rx"
  /\ UNCHANGED <<rxRing, rxHint, txHint, maxRxItems, maxTxItems, hint, rxIsr, rxHist,
                 queued, sent, lastSent>>

RunTxEnd ==
  /\ pc = "tx" /\ (i = maxTxItems \/ ~PopSucceeds(txRing))
  /\ pc' = "rx" /\ i' = 0
  /\ UNCHANGED <<serviceVars, hint, byte, rxIsr, rxHist, txHist>>

(* A received byte is taken and let go: the code's extension point.        *)
RunPopRx ==
  /\ pc = "rx" /\ i < maxRxItems /\ PopSucceeds(rxRing)
  /\ rxRing' = SchSpscRingPopTask(rxRing)
  /\ i' = i + 1
  /\ handed' = handed + 1
  /\ UNCHANGED <<txRing, rxHint, txHint, maxRxItems, maxTxItems, pc, hint, byte, rxIsr,
                 received, txHist>>

RunEnd ==
  /\ pc = "rx" /\ (i = maxRxItems \/ ~PopSucceeds(rxRing))
  /\ pc' = "idle" /\ i' = 0
  /\ UNCHANGED <<serviceVars, hint, byte, rxIsr, rxHist, txHist>>

SchUartServiceRun ==
  \/ RunTakeHints \/ RunCheck
  \/ RunPopTx \/ RunWriteAccepted \/ RunWriteRefused \/ RunRequeue \/ RunTxEnd
  \/ RunPopRx \/ RunEnd

Next ==
  \/ \E rc \in RxCapacities, tc \in TxCapacities, rb \in RxBudgets, tb \in TxBudgets :
       SchUartServiceInit(rc, tc, rb, tb)
  \/ SchUartIsrRxPush \/ SchUartIsrRxHint \/ SchUartIsrTxReady
  \/ SchUartServiceQueueTx
  \/ SchUartServiceRun

(* The scheduler keeps calling the service's task.                         *)
Spec == Init /\ [][Next]_vars /\ WF_vars(SchUartServiceRun)

-----------------------------------------------------------------------------
(* Type invariant.                                                         *)
TypeOK ==
  /\ RingOK(rxRing) /\ RingOK(txRing)
  /\ {rxHint, txHint, hint, rxIsr, intruded} \subseteq BOOLEAN
  /\ maxRxItems \in RxBudgets \cup {0} /\ maxTxItems \in TxBudgets \cup {0}
  /\ pc \in {"idle", "check", "tx", "write", "requeue", "rx"}
  /\ pc \in {"tx", "write", "requeue"} => i \in 0..maxTxItems
  /\ pc = "rx" => i \in 0..maxRxItems
  /\ pc \in {"idle", "check"} => i = 0
  /\ byte \in Bytes \cup {NoItem}
  /\ byte # NoItem <=> pc \in {"write", "requeue"}
  /\ received \in 0..MaxRx /\ handed \in 0..received
  /\ queued \in 0..MaxTx /\ sent \in 0..queued /\ lastSent \in 0..queued

InFlight == IF byte = NoItem THEN 0 ELSE 1

(* Every byte received or queued is accounted for: passed on, buffered, in *)
(* flight, or counted by the drop counter of its ring.  This covers the    *)
(* byte that is pushed a second time after a refused write, and finds the  *)
(* ring full when an interrupt has taken its place meanwhile.              *)
ByteAccounting ==
  /\ received = handed + SchSpscRingSize(rxRing) + SchSpscRingDropCount(rxRing)
  /\ queued = sent + InFlight + SchSpscRingSize(txRing) + SchSpscRingDropCount(txRing)

(* A refused write costs a byte only if an interrupt has queued another    *)
(* one meanwhile: otherwise the place of the popped byte is still free     *)
(* when it is pushed back.                                                 *)
RequeueHasRoom == pc = "requeue" /\ ~intruded => ~SchSpscRingIsFull(txRing)

(* docs/isr_buffer_event_queue_usage.md: the ring is there "for            *)
(* multiplicity and ordering".  Bytes go out in the order they were        *)
(* queued.                                                                 *)
TxInOrder == [][pc = "write" => lastSent' >= lastSent]_vars
=============================================================================
