--------------------------- MODULE IsrBufferProofs ---------------------------
(***************************************************************************)
(* TLAPS proofs about the ring of isr_buffer.c, for every capacity, every  *)
(* element set and every width of size_t.                                  *)
(***************************************************************************)
EXTENDS IsrBuffer, SpscRingTheorems
-----------------------------------------------------------------------------
(* The invariants.  Together they are inductive: the drop accounting needs *)
(* the ring to be well formed (count bounded by capacity), and nothing of  *)
(* the environment beyond the critical section around each call.           *)
Inv == TypeOK /\ DropAccounting

(* A zeroed ring satisfies it.                                             *)
LEMMA InitInv == Init => Inv
<1> SUFFICES ASSUME Init PROVE Inv
  OBVIOUS
<1>1. /\ DOMAIN ring = RingFields /\ ring.storage = [k \in {} |-> NoItem]
      /\ ring.capacity = 0 /\ ring.head = 0 /\ ring.tail = 0 /\ ring.count = 0
      /\ ring.drops = 0 /\ ring.overflow \in OverflowModes
  BY DEF Init, ZeroRing, RingFields, OverflowModes
<1>2. ring.storage \in [0..(0 - 1) -> Items \cup {NoItem}]
  BY <1>1
<1>3. RingOK(ring)
  BY <1>1, <1>2, RingAssumption DEF RingOK
<1>4. (0 - (0 + 0)) % SizeMod = 0
  BY RingAssumption
<1> QED BY <1>1, <1>3, <1>4 DEF Init, Inv, TypeOK, DropAccounting

(* Every call preserves it.                                                *)
LEMMA NextInv == Inv /\ [Next]_vars => Inv'
<1> SUFFICES ASSUME Inv, [Next]_vars PROVE Inv'
  OBVIOUS
<1>0. /\ RingOK(ring) /\ ret \in {"none", "true", "false", "void"} \cup PushStatuses
      /\ out \in Items \cup {NoItem} /\ offered \in Nat /\ taken \in Nat
      /\ ring.drops = (offered - (taken + ring.count)) % SizeMod
      /\ ring.count \in Nat /\ ring.capacity \in Nat /\ ring.count <= ring.capacity
      /\ (SchRingValid(ring) <=> ring.capacity > 0)
  BY DEF Inv, TypeOK, DropAccounting, RingOK, SchRingValid
<1>1. ASSUME NEW c \in Capacities, NEW m \in Modes, RingInit(c, m)
      PROVE  Inv'
  <2>1. c \in Nat \ {0} /\ m \in OverflowModes
    BY <1>1, IsrBufferAssumption DEF RingInit, InitArgsValid
  <2>2. RingOK(ring') /\ ring'.drops = 0 /\ ring'.count = 0
    BY <1>1, <2>1, InitEffect DEF RingInit
  <2>3. (0 - (0 + 0)) % SizeMod = 0
    BY RingAssumption
  <2> QED BY <1>0, <1>1, <2>2, <2>3 DEF RingInit, Inv, TypeOK, DropAccounting
<1>2. ASSUME NEW c \in Capacities, NEW m \in Modes, RingInitRejected(c, m)
      PROVE  Inv'
  BY <1>0, <1>2 DEF RingInitRejected, Inv, TypeOK, DropAccounting
<1>3. ASSUME RingReset
      PROVE  Inv'
  <2>1. RingOK(ring') /\ ring'.drops = 0 /\ ring'.count = 0
    BY <1>0, <1>3, ResetEffect DEF RingReset
  <2>2. (0 - (0 + 0)) % SizeMod = 0
    BY RingAssumption
  <2> QED BY <1>0, <1>3, <2>1, <2>2 DEF RingReset, Inv, TypeOK, DropAccounting
<1>4. ASSUME NEW item \in Items, IsrPush(item)
      PROVE  Inv'
  <2>1. /\ ring' = SchSpscRingPushIsr(ring, item) /\ taken' = taken /\ out' = out
        /\ offered' = IF SchRingValid(ring) THEN offered + 1 ELSE offered
        /\ ret' \in PushStatuses
    BY <1>4 DEF IsrPush, PushStatus, PushStatuses
  <2>2. RingOK(ring')
    BY <1>0, <2>1, PushEffect
  <2>3. ring'.drops = (offered' - (taken' + ring'.count)) % SizeMod
    <3>1. CASE ring.capacity = 0
      <4>1. ring' = ring
        BY <1>0, <2>1, <3>1, PushEffect
      <4> QED BY <1>0, <2>1, <3>1, <4>1
    <3>2. CASE ring.count < ring.capacity
      <4>1. ring'.drops = ring.drops /\ ring'.count = ring.count + 1
        BY <1>0, <2>1, <3>2, PushEffect
      <4>2. offered' - (taken' + ring'.count) = offered - (taken + ring.count)
        BY <1>0, <2>1, <3>2, <4>1
      <4> QED BY <1>0, <4>1, <4>2
    <3>3. CASE ring.capacity > 0 /\ ring.count = ring.capacity
      <4> DEFINE x == offered - (taken + ring.count)
      <4>1. ring'.drops = (ring.drops + 1) % SizeMod /\ ring'.count = ring.count
        BY <1>0, <2>1, <3>3, PushEffect
      <4>2. offered' - (taken' + ring'.count) = x + 1 /\ x \in Int
        BY <1>0, <2>1, <3>3, <4>1
      <4>3. ((x % SizeMod) + 1) % SizeMod = (x + 1) % SizeMod
        BY <4>2, ModSucc, RingAssumption
      <4> QED BY <1>0, <4>1, <4>2, <4>3
    <3> QED BY <1>0, <3>1, <3>2, <3>3
  <2>4. offered' \in Nat
    BY <1>0, <2>1
  <2> QED BY <1>0, <2>1, <2>2, <2>3, <2>4 DEF Inv, TypeOK, DropAccounting
<1>5. ASSUME TaskPop
      PROVE  Inv'
  <2>1. /\ RingOK(ring') /\ ring'.drops = ring.drops /\ ring'.count = ring.count - 1
        /\ out' \in Items
    BY <1>0, <1>5, PopEffect DEF TaskPop
  <2>2. offered' - (taken' + ring'.count) = offered - (taken + ring.count)
    BY <1>0, <1>5, <2>1 DEF TaskPop
  <2> QED BY <1>0, <1>5, <2>1, <2>2 DEF TaskPop, Inv, TypeOK, DropAccounting
<1>6. ASSUME TaskPopEmpty
      PROVE  Inv'
  BY <1>0, <1>6 DEF TaskPopEmpty, Inv, TypeOK, DropAccounting
<1>7. ASSUME UNCHANGED vars
      PROVE  Inv'
  BY <1>0, <1>7 DEF vars, Inv, TypeOK, DropAccounting
<1> QED BY <1>1, <1>2, <1>3, <1>4, <1>5, <1>6, <1>7 DEF Next

(* The ring always stays well formed: indices inside storage, head exactly *)
(* count slots past tail, buffered slots holding only pushed elements.     *)
THEOREM RingTypeCorrect == Spec => []TypeOK
<1>1. Inv => TypeOK
  BY DEF Inv
<1> QED BY <1>1, InitInv, NextInv, PTL DEF Spec

(* Nothing is lost silently: pushes equal pops plus buffered plus the      *)
(* reported drops, modulo the width of size_t.                             *)
THEOREM RingDropAccounting == Spec => []DropAccounting
<1>1. Inv => DropAccounting
  BY DEF Inv
<1> QED BY <1>1, InitInv, NextInv, PTL DEF Spec

-----------------------------------------------------------------------------
(* The ring implements the bounded queue.                                  *)
LEMMA FifoStep == Inv /\ [Next]_vars => [Fifo!FifoNext]_Fifo!fifoVars
<1> SUFFICES ASSUME Inv, [Next]_vars PROVE [Fifo!FifoNext]_Fifo!fifoVars
  OBVIOUS
<1>0. /\ RingOK(ring) /\ ring.count \in Nat /\ ring.capacity \in Nat
      /\ ring.count <= ring.capacity /\ (SchRingValid(ring) <=> ring.capacity > 0)
      /\ Len(Contents(ring)) = ring.count /\ Contents(ring) \in Seq(Items)
  <2>1. RingOK(ring)
    BY DEF Inv, TypeOK
  <2>2. /\ ring.count \in Nat /\ ring.capacity \in Nat /\ ring.count <= ring.capacity
        /\ (SchRingValid(ring) <=> ring.capacity > 0)
    BY <2>1 DEF RingOK, SchRingValid
  <2> QED BY <2>1, <2>2, ContentsType
<1>1. ASSUME NEW c \in Capacities, NEW m \in Modes, RingInit(c, m)
      PROVE  Fifo!Configure(c, m)
  <2>1. c \in Nat \ {0} /\ m \in OverflowModes /\ c # 0
    BY <1>1, IsrBufferAssumption DEF RingInit, InitArgsValid
  <2>2. /\ ring'.capacity = c /\ ring'.overflow = m /\ ring'.drops = 0
        /\ Contents(ring') = << >>
    BY <1>1, <2>1, InitEffect DEF RingInit
  <2> QED BY <1>1, <2>1, <2>2 DEF RingInit, Fifo!Configure
<1>2. ASSUME NEW c \in Capacities, NEW m \in Modes, RingInitRejected(c, m)
      PROVE  Fifo!RejectConfigure
  BY <1>2 DEF RingInitRejected, Fifo!RejectConfigure
<1>3. ASSUME RingReset
      PROVE  Fifo!Clear \/ Fifo!ClearNothing
  <2>1. /\ ring'.capacity = ring.capacity /\ ring'.overflow = ring.overflow
        /\ ring'.drops = 0 /\ Contents(ring') = << >>
        /\ ring.capacity = 0 => ring' = ring
    BY <1>0, <1>3, ResetEffect DEF RingReset
  <2> QED BY <1>3, <2>1 DEF RingReset, Fifo!Clear, Fifo!ClearNothing
<1>4. ASSUME NEW item \in Items, IsrPush(item)
      PROVE  Fifo!Put(item) \/ Fifo!PutDropNewest \/ Fifo!PutDropOldest(item) \/ Fifo!PutRefused
  <2>1. /\ ring' = SchSpscRingPushIsr(ring, item) /\ out' = out
        /\ ret' = PushStatus(ring)
    BY <1>4 DEF IsrPush
  <2>2. ring'.capacity = ring.capacity /\ ring'.overflow = ring.overflow
    BY <1>0, <2>1, PushEffect
  <2>3. CASE ring.capacity = 0
    <3>1. ring' = ring
      BY <1>0, <2>1, <2>3, PushEffect
    <3>2. ret' = "SCH_RING_PUSH_DROPPED_NEWEST"
      BY <1>0, <2>1, <2>3 DEF PushStatus, PUSH_DROPPED_NEWEST
    <3> QED BY <2>1, <2>3, <3>1, <3>2 DEF Fifo!PutRefused
  <2>4. CASE ring.count < ring.capacity
    <3>1. Contents(ring') = Append(Contents(ring), item) /\ ring'.drops = ring.drops
      BY <1>0, <2>1, <2>4, PushEffect
    <3>2. ret' = "SCH_RING_PUSH_OK"
      BY <1>0, <2>1, <2>4 DEF PushStatus, IsFull, PUSH_OK
    <3> QED BY <1>0, <2>1, <2>2, <2>4, <3>1, <3>2 DEF Fifo!Put
  <2>5. CASE ring.capacity > 0 /\ ring.count = ring.capacity /\ ring.overflow = DROP_NEWEST
    <3>1. Contents(ring') = Contents(ring) /\ ring'.drops = (ring.drops + 1) % SizeMod
      BY <1>0, <2>1, <2>5, PushEffect
    <3>2. ret' = "SCH_RING_PUSH_DROPPED_NEWEST"
      BY <1>0, <2>1, <2>5 DEF PushStatus, IsFull, PUSH_DROPPED_NEWEST
    <3> QED BY <1>0, <2>1, <2>2, <2>5, <3>1, <3>2 DEF Fifo!PutDropNewest
  <2>6. CASE ring.capacity > 0 /\ ring.count = ring.capacity /\ ring.overflow # DROP_NEWEST
    <3>1. /\ Contents(ring') = Append(Tail(Contents(ring)), item)
          /\ ring'.drops = (ring.drops + 1) % SizeMod
      BY <1>0, <2>1, <2>6, PushEffect
    <3>2. ret' = "SCH_RING_PUSH_DROPPED_OLDEST"
      BY <1>0, <2>1, <2>6 DEF PushStatus, IsFull, PUSH_DROPPED_OLDEST
    <3> QED BY <1>0, <2>1, <2>2, <2>6, <3>1, <3>2 DEF Fifo!PutDropOldest
  <2> QED BY <1>0, <2>3, <2>4, <2>5, <2>6
<1>5. ASSUME TaskPop
      PROVE  Fifo!Get
  <2>1. /\ ring'.capacity = ring.capacity /\ ring'.overflow = ring.overflow
        /\ ring'.drops = ring.drops /\ Contents(ring') = Tail(Contents(ring))
        /\ Contents(ring) # << >> /\ out' = Head(Contents(ring))
    BY <1>0, <1>5, PopEffect DEF TaskPop
  <2> QED BY <1>5, <2>1 DEF TaskPop, Fifo!Get
<1>6. ASSUME TaskPopEmpty
      PROVE  Fifo!GetEmpty
  <2>1. ring.count = 0
    BY <1>0, <1>6 DEF TaskPopEmpty, PopSucceeds
  <2>2. Contents(ring) = << >>
    BY <1>0, <2>1, EmptySeq
  <2> QED BY <1>6, <2>2 DEF TaskPopEmpty, Fifo!GetEmpty
<1>7. ASSUME UNCHANGED vars
      PROVE  UNCHANGED Fifo!fifoVars
  BY <1>7 DEF vars, Fifo!fifoVars
<1> QED BY <1>1, <1>2, <1>3, <1>4, <1>5, <1>6, <1>7 DEF Next, Fifo!FifoNext

(* Every behaviour of the ring is one of the bounded queue: first in first *)
(* out, and a full ring loses exactly the end its overflow mode names.     *)
THEOREM RingImplementsFifo == Spec => ImplementsFifo
<1>1. Init => Fifo!FifoInit
  <2> SUFFICES ASSUME Init PROVE Fifo!FifoInit
    OBVIOUS
  <2>1. /\ ring.capacity = 0 /\ ring.count = 0 /\ ring.drops = 0
        /\ ring.overflow = DROP_NEWEST
    BY DEF Init, ZeroRing
  <2>2. Contents(ring) = << >>
    BY <2>1 DEF Contents
  <2> QED BY <2>1, <2>2 DEF Init, Fifo!FifoInit
<1> QED BY <1>1, InitInv, NextInv, FifoStep, PTL DEF Spec, ImplementsFifo, Fifo!FifoSpec
=============================================================================
