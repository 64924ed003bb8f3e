--------------------------- MODULE SchedulerTicks ---------------------------
(***************************************************************************)
(* The tick arithmetic of scheduler.c.  uint32_t values are residues       *)
(* modulo TickMod and a cast to int32_t splits them at HalfRange, so       *)
(* HalfRange is 2^31 in the program and small in a model.                  *)
(***************************************************************************)
EXTENDS Integers

CONSTANT HalfRange

ASSUME TicksAssumption == HalfRange \in Nat \ {0}

TickMod == 2 * HalfRange

(* Faulty variant: a tick type too wide to wrap.                           *)
U32Wide(x) == x

U32(x) == x % TickMod

I32(x) == IF U32(x) < HalfRange THEN U32(x) ELSE U32(x) - TickMod

(* Faulty variant: both ticks are compared as plain unsigned numbers.      *)
SchTimeReachedUnsigned(now, target) == now >= target

(* Faulty variant: a task is due one tick after its release.               *)
SchTimeReachedLate(now, target) == I32(now - target) > 0

SchTimeReached(now, target) == I32(now - target) >= 0

(* Faulty variant: the period restarts from now, so the grid drifts.       *)
SchAdvanceFromNow(now, nextRelease, period) ==
  IF period = 0 \/ I32(now - nextRelease) < 0 THEN nextRelease ELSE U32(now + period)

SchAdvanceNextRelease(now, nextRelease, period) ==
  LET lateness == I32(now - nextRelease) IN
  IF period = 0 \/ lateness < 0
    THEN nextRelease
    ELSE U32(nextRelease + U32(((lateness \div period) + 1) * period))
=============================================================================
