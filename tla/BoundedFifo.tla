----------------------------- MODULE BoundedFifo -----------------------------
(***************************************************************************)
(* What isr_buffer.h promises of a ring, with no indices and no storage: a *)
(* first-in first-out queue of bounded length that loses an element only   *)
(* when it is full, loses the end its overflow mode names, and counts it.  *)
(***************************************************************************)
EXTENDS Integers, Sequences

CONSTANTS
  Items, NoItem, SizeMod,
  Capacities,      \* the capacities init is called with, 0 included
  Modes,           \* the overflow values init is called with
  ValidModes,      \* the two members of sch_overflow_mode_t
  DropNewest       \* the member that rejects the incoming element

VARIABLES
  queue,     \* the buffered elements, oldest first
  capacity,  \* 0 until the first successful init
  mode,      \* overflow mode of the last successful init
  drops,     \* elements lost since the last init or reset, modulo SizeMod
  ret,       \* what the last call returned
  out        \* the caller's out_item variable

fifoVars == <<queue, capacity, mode, drops, ret, out>>

FifoInit ==
  /\ queue = << >>
  /\ capacity = 0
  /\ mode = DropNewest
  /\ drops = 0
  /\ ret = "none"
  /\ out = NoItem

Configure(c, m) ==
  /\ c # 0 /\ m \in ValidModes
  /\ queue' = << >> /\ capacity' = c /\ mode' = m /\ drops' = 0
  /\ ret' = "true"
  /\ UNCHANGED out

RejectConfigure ==
  /\ ret' = "false"
  /\ UNCHANGED <<queue, capacity, mode, drops, out>>

Clear ==
  /\ capacity # 0
  /\ queue' = << >> /\ drops' = 0
  /\ ret' = "void"
  /\ UNCHANGED <<capacity, mode, out>>

(* Clear of a queue that was never configured does nothing.                *)
ClearNothing ==
  /\ capacity = 0
  /\ ret' = "void"
  /\ UNCHANGED <<queue, capacity, mode, drops, out>>

Put(item) ==
  /\ Len(queue) < capacity
  /\ queue' = Append(queue, item)
  /\ ret' = "SCH_RING_PUSH_OK"
  /\ UNCHANGED <<capacity, mode, drops, out>>

PutDropNewest ==
  /\ capacity # 0 /\ Len(queue) = capacity /\ mode = DropNewest
  /\ drops' = (drops + 1) % SizeMod
  /\ ret' = "SCH_RING_PUSH_DROPPED_NEWEST"
  /\ UNCHANGED <<queue, capacity, mode, out>>

PutDropOldest(item) ==
  /\ capacity # 0 /\ Len(queue) = capacity /\ mode # DropNewest
  /\ queue' = Append(Tail(queue), item)
  /\ drops' = (drops + 1) % SizeMod
  /\ ret' = "SCH_RING_PUSH_DROPPED_OLDEST"
  /\ UNCHANGED <<capacity, mode, out>>

(* A push to a queue that was never configured is refused, uncounted.      *)
PutRefused ==
  /\ capacity = 0
  /\ ret' = "SCH_RING_PUSH_DROPPED_NEWEST"
  /\ UNCHANGED <<queue, capacity, mode, drops, out>>

Get ==
  /\ queue # << >>
  /\ out' = Head(queue)
  /\ queue' = Tail(queue)
  /\ ret' = "true"
  /\ UNCHANGED <<capacity, mode, drops>>

GetEmpty ==
  /\ queue = << >>
  /\ ret' = "false"
  /\ UNCHANGED <<queue, capacity, mode, drops, out>>

FifoNext ==
  \/ \E c \in Capacities, m \in Modes : Configure(c, m)
  \/ RejectConfigure
  \/ Clear \/ ClearNothing
  \/ \E item \in Items : Put(item) \/ PutDropOldest(item)
  \/ PutDropNewest \/ PutRefused
  \/ Get \/ GetEmpty

FifoSpec == FifoInit /\ [][FifoNext]_fifoVars
=============================================================================
