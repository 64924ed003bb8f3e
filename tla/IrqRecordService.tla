-------------------------- MODULE IrqRecordService --------------------------
(***************************************************************************)
(* The deferred-interrupt service that fsi_service.c and ipc_service.c     *)
(* both are: ISRs push IRQ records into a ring and set an advisory event   *)
(* bit, a scheduler task takes the bits and drains the ring within a       *)
(* budget.  The definitions are read off fsi_service.c; FsiService and     *)
(* IpcService name the entry points of the two files.                      *)
(*                                                                         *)
(* An ISR's push and its bit are two critical sections.  The model lets    *)
(* other ISRs and the task run between them, which covers nested           *)
(* interrupts and an ISR served by another core.                           *)
(***************************************************************************)
EXTENDS SpscRing, Sequences

CONSTANTS
  Tags,         \* the irq_tag values; each has one event bit
  Capacities,   \* record_capacity arguments of init
  Modes,        \* overflow_mode arguments of init
  Budgets,      \* max_records_per_run arguments of init
  MaxIrqs       \* bound on the interrupts between two inits

(* An IRQ record: its tag, and a serial number standing for the metadata.  *)
Records == [tag : Tags, id : 1..MaxIrqs]

(* The ring holds IRQ records.                                             *)
ASSUME ServiceAssumption ==
  /\ Items = Records
  /\ Capacities \subseteq Nat
  /\ Budgets \subseteq Nat
  /\ MaxIrqs \in Nat

VARIABLES
  ring,        \* irq_records
  eventBits,   \* event_bits, as the set of tags whose bit is 1
  budget,      \* max_records_per_run, 0 until the first init
  isr,         \* tags whose ISR has pushed and not yet set its bit
  pc,          \* where sch_*_service_run is
  bits,        \* its pending_event_bits
  i,           \* its loop counter
  record,      \* the record it popped last, NoItem when dispatched
  captured,    \* history: records pushed to a valid ring since the last init
  delivered,   \* history: records dispatched since then
  last         \* history: serial number of the last one dispatched

vars == <<ring, eventBits, budget, isr, pc, bits, i, record, captured, delivered, last>>

runVars  == <<pc, bits, i, record>>
histVars == <<captured, delivered, last>>

Init ==
  /\ ring = ZeroRing
  /\ eventBits = {} /\ budget = 0 /\ isr = {}
  /\ pc = "idle" /\ bits = {} /\ i = 0 /\ record = NoItem
  /\ captured = 0 /\ delivered = 0 /\ last = 0

(* Init with valid arguments, while no service run is active.              *)
ServiceInit(c, b, m) ==
  /\ pc = "idle" /\ b # 0 /\ InitArgsValid(c, m)
  /\ eventBits' = {} /\ budget' = b
  /\ ring' = SchSpscRingInit(c, m)
  /\ captured' = 0 /\ delivered' = 0 /\ last' = 0
  /\ UNCHANGED <<isr, runVars>>

(* Init whose ring initialisation fails returns false, but the event bits  *)
(* are cleared and the budget replaced by then, and the old ring remains.  *)
ServiceInitRingFails(c, b, m) ==
  /\ pc = "idle" /\ b # 0 /\ ~InitArgsValid(c, m)
  /\ eventBits' = {} /\ budget' = b
  /\ UNCHANGED <<ring, isr, runVars, histVars>>

(* The first half of an ISR: acknowledge and push the record.              *)
IsrPush(t) ==
  /\ t \notin isr
  /\ SchRingValid(ring) => captured < MaxIrqs
  /\ ring' = IF SchRingValid(ring)
               THEN SchSpscRingPushIsr(ring, [tag |-> t, id |-> captured + 1]) ELSE ring
  /\ captured' = IF SchRingValid(ring) THEN captured + 1 ELSE captured
  /\ isr' = isr \cup {t}
  /\ UNCHANGED <<eventBits, budget, runVars, delivered, last>>

(* The second half: set the advisory bit, whatever became of the record.   *)
IsrSetBit(t) ==
  /\ t \in isr
  /\ eventBits' = eventBits \cup {t}
  /\ isr' = isr \ {t}
  /\ UNCHANGED <<ring, budget, runVars, histVars>>

RunTakeBits ==
  /\ pc = "idle"
  /\ bits' = eventBits
  /\ eventBits' = {}
  /\ pc' = "check"
  /\ UNCHANGED <<ring, budget, isr, i, record, histVars>>

(* Faulty variant: the event bits alone decide whether there is work.      *)
NothingToDoHintOnly == bits = {}

NothingToDo == bits = {} /\ SchSpscRingIsEmpty(ring)

RunCheck ==
  /\ pc = "check"
  /\ pc' = IF NothingToDo THEN "idle" ELSE "drain"
  /\ bits' = {}
  /\ i' = 0
  /\ UNCHANGED <<ring, eventBits, budget, isr, record, histVars>>

(* Faulty variant: the record is read without being removed from the ring. *)
RunPopPeek ==
  /\ pc = "drain" /\ i < budget /\ PopSucceeds(ring)
  /\ record' = PoppedItem(ring)
  /\ pc' = "dispatch"
  /\ UNCHANGED <<ring, eventBits, budget, isr, bits, i, histVars>>

RunPop ==
  /\ pc = "drain" /\ i < budget /\ PopSucceeds(ring)
  /\ ring' = SchSpscRingPopTask(ring)
  /\ record' = PoppedItem(ring)
  /\ pc' = "dispatch"
  /\ UNCHANGED <<eventBits, budget, isr, bits, i, histVars>>

(* The switch on irq_tag: the record is handed to its HAL callback, or let *)
(* go if the HAL has none.                                                 *)
RunDispatch ==
  /\ pc = "dispatch"
  /\ delivered' = delivered + 1
  /\ last' = record.id
  /\ record' = NoItem
  /\ i' = i + 1
  /\ pc' = "drain"
  /\ UNCHANGED <<ring, eventBits, budget, isr, bits, captured>>

RunEnd ==
  /\ pc = "drain"
  /\ i = budget \/ ~PopSucceeds(ring)
  /\ pc' = "idle" /\ i' = 0
  /\ UNCHANGED <<ring, eventBits, budget, isr, bits, record, histVars>>

(* What sch_*_service_drop_count returns.                                  *)
ServiceDropCount == SchSpscRingDropCount(ring)

ServiceRun == RunTakeBits \/ RunCheck \/ RunPop \/ RunDispatch \/ RunEnd

-----------------------------------------------------------------------------
(* Type invariant.                                                         *)
TypeOK ==
  /\ RingOK(ring)
  /\ eventBits \subseteq Tags /\ isr \subseteq Tags /\ bits \subseteq Tags
  /\ budget \in Budgets \cup {0}
  /\ pc \in {"idle", "check", "drain", "dispatch"}
  /\ i \in 0..budget
  /\ record \in Records \cup {NoItem}
  /\ record # NoItem <=> pc = "dispatch"
  /\ captured \in 0..MaxIrqs /\ delivered \in 0..captured /\ last \in 0..captured

(* The serial numbers still on their way to a callback, oldest first.      *)
InFlight ==
  (IF record = NoItem THEN << >> ELSE <<record.id>>)
    \o [k \in 1..ring.count |-> Contents(ring)[k].id]

(* Records reach the callbacks in the order of their interrupts and none   *)
(* twice, also when an ISR overwrites the oldest record between the pop    *)
(* and the dispatch of another.                                            *)
RecordsInOrder ==
  /\ \A k \in 1..Len(InFlight) : last < InFlight[k]
  /\ \A k \in 1..(Len(InFlight) - 1) : InFlight[k] < InFlight[k + 1]

(* Every interrupt since init is accounted for: dispatched, in flight, or  *)
(* in the drop count that sch_*_service_drop_count reports.                *)
NoSilentLoss ==
  ServiceDropCount = (captured - (delivered + Len(InFlight))) % SizeMod

(* A record in the ring does not stay there: the task dispatches it or it  *)
(* is overwritten, even when its advisory bit was consumed by an earlier   *)
(* run, cleared by a failed init, or not set yet.                          *)
EveryRecordServed ==
  \A n \in 1..MaxIrqs :
    (\E k \in 1..ring.count : Contents(ring)[k].id = n)
      ~> (\A k \in 1..Len(InFlight) : InFlight[k] # n)
=============================================================================
