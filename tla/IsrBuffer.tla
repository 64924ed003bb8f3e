------------------------------ MODULE IsrBuffer ------------------------------
(***************************************************************************)
(* One ring shared by its producer (an ISR) and its consumer (a task), as  *)
(* isr_buffer.c lets them call it: any call may come between any two       *)
(* others, because each one is a critical section.  Init may be repeated   *)
(* with another capacity or mode, and may be called with bad arguments.    *)
(***************************************************************************)
EXTENDS SpscRing, Sequences

CONSTANTS
  Capacities,   \* capacities passed to sch_spsc_ring_init, 0 included
  Modes,        \* overflow values passed to it; the enum type admits others
  MaxOffered    \* bound on the pushes between two inits or resets

ASSUME IsrBufferAssumption ==
  /\ Capacities \subseteq Nat
  /\ MaxOffered \in Nat

VARIABLES
  ring,      \* the sch_spsc_ring_t
  ret,       \* return value of the last call
  out,       \* the consumer's out_item
  offered,   \* history: pushes to a valid ring since the last init or reset
  taken      \* history: successful pops since then

vars == <<ring, ret, out, offered, taken>>

Init ==
  /\ ring = ZeroRing
  /\ ret = "none"
  /\ out = NoItem
  /\ offered = 0
  /\ taken = 0

RingInit(c, m) ==
  /\ InitArgsValid(c, m)
  /\ ring' = SchSpscRingInit(c, m)
  /\ ret' = "true"
  /\ offered' = 0 /\ taken' = 0
  /\ UNCHANGED out

RingInitRejected(c, m) ==
  /\ ~InitArgsValid(c, m)
  /\ ret' = "false"
  /\ UNCHANGED <<ring, out, offered, taken>>

RingReset ==
  /\ ring' = SchSpscRingReset(ring)
  /\ ret' = "void"
  /\ offered' = 0 /\ taken' = 0
  /\ UNCHANGED out

IsrPush(item) ==
  /\ SchRingValid(ring) => offered < MaxOffered
  /\ ring' = SchSpscRingPushIsr(ring, item)
  /\ ret' = PushStatus(ring)
  /\ offered' = IF SchRingValid(ring) THEN offered + 1 ELSE offered
  /\ UNCHANGED <<out, taken>>

TaskPop ==
  /\ PopSucceeds(ring)
  /\ ring' = SchSpscRingPopTask(ring)
  /\ out' = PoppedItem(ring)
  /\ ret' = "true"
  /\ taken' = taken + 1
  /\ UNCHANGED offered

TaskPopEmpty ==
  /\ ~PopSucceeds(ring)
  /\ ret' = "false"
  /\ UNCHANGED <<ring, out, offered, taken>>

Next ==
  \/ \E c \in Capacities, m \in Modes : RingInit(c, m) \/ RingInitRejected(c, m)
  \/ RingReset
  \/ \E item \in Items : IsrPush(item)
  \/ TaskPop
  \/ TaskPopEmpty

Spec == Init /\ [][Next]_vars

-----------------------------------------------------------------------------
(* Type invariant: a record of the right shape whose indices stay inside   *)
(* storage, with head exactly count slots past tail, and whose buffered    *)
(* slots all hold pushed elements, never the caller's uninitialised bytes. *)
TypeOK ==
  /\ RingOK(ring)
  /\ ret \in {"none", "true", "false", "void"} \cup PushStatuses
  /\ out \in Items \cup {NoItem}
  /\ offered \in Nat
  /\ taken \in Nat

(* Nothing is lost silently: every element pushed since the last init or   *)
(* reset has been popped, is still buffered, or is in the drop count that  *)
(* sch_spsc_ring_drop_count reports (modulo the width of size_t).          *)
DropAccounting ==
  ring.drops = (offered - (taken + ring.count)) % SizeMod

(* The ring behaves as the queue isr_buffer.h describes: elements leave in *)
(* the order they came, and overflow removes exactly the end the mode      *)
(* names, with the matching status code.                                   *)
Fifo == INSTANCE BoundedFifo WITH
          queue <- Contents(ring), capacity <- ring.capacity,
          mode <- ring.overflow, drops <- ring.drops,
          ValidModes <- OverflowModes, DropNewest <- DROP_NEWEST

ImplementsFifo == Fifo!FifoSpec
=============================================================================
