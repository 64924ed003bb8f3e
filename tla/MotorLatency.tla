---------------------------- MODULE MotorLatency -----------------------------
(***************************************************************************)
(* How long a queued fault waits: each run switches the motor on or off as *)
(* commanded before it looks at the events, and its budget may end before  *)
(* the fault is reached, so the wait is counted in runs.                   *)
(***************************************************************************)
EXTENDS MotorService

(* history: runs that ended while the oldest fault in the queue waited     *)
VARIABLE waited

Lost == faults - (taken + QueuedFaults)

LatencyInit == Init /\ waited = 0

(* The wait of the oldest fault ends when it is consumed or overwritten,   *)
(* or when a new queue replaces its own.  Runs are counted until the bound *)
(* below is exceeded.                                                      *)
LatencyNext ==
  /\ Next
  /\ waited' = IF QueuedFaults' = 0 \/ taken' # taken \/ Lost' # Lost THEN 0
               ELSE IF pc # "idle" /\ pc' = "idle" /\ waited <= eventQueue.capacity THEN waited + 1
               ELSE waited

LatencySpec ==
  /\ LatencyInit /\ [][LatencyNext]_<<vars, waited>>
  /\ WF_vars(SchMotorSupervisionServiceRun)

-----------------------------------------------------------------------------
(* A fault in the queue waits for no more runs than the queue has places,  *)
(* even when every run has a budget of one event, other events are ahead   *)
(* of it, and its own hint was consumed before it was pushed.              *)
FaultWaitBounded == waited <= eventQueue.capacity
=============================================================================
