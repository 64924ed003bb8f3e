---------------------------- MODULE UartLatency -----------------------------
(***************************************************************************)
(* How long bytes wait for their turn, counted in runs.  Unlike a wait     *)
(* without end, a wait of two runs shows in a finite piece of traffic: it  *)
(* does not take silent producers for a byte to get its turn.              *)
(***************************************************************************)
EXTENDS UartService

\* history: runs ended since the ring was empty or a byte was last popped
VARIABLES rxPassed, txPassed

latencyVars == <<vars, rxPassed, txPassed>>

LatencyInit == Init /\ rxPassed = 0 /\ txPassed = 0

Passed(before, after, n) ==
  IF after.count = 0 \/ after.count < before.count THEN 0
  ELSE IF pc # "idle" /\ pc' = "idle" THEN n + 1
  ELSE n

LatencyNext ==
  /\ Next
  /\ rxPassed' = Passed(rxRing, rxRing', rxPassed)
  /\ txPassed' = Passed(txRing, txRing', txPassed)

LatencySpec == LatencyInit /\ [][LatencyNext]_latencyVars

-----------------------------------------------------------------------------
(* No ring with bytes in it is passed over by two runs in a row, although  *)
(* a hint may be consumed before its byte is pushed, queue_tx sets none,   *)
(* the budgets may leave bytes behind and a refused byte ends the loop: so *)
(* a byte is offered to try_write_byte, or a received one taken, after at  *)
(* most one run more than there are bytes before it, whatever is received  *)
(* or queued after it.                                                     *)
EveryRunServes == rxPassed <= 1 /\ txPassed <= 1
=============================================================================
