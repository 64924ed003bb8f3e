----------------------------- MODULE SelectScan -----------------------------
(***************************************************************************)
(* The two selection loops of scheduler.c, turn by turn, against the       *)
(* definitions by CHOOSE that Scheduler and its proofs use.                *)
(***************************************************************************)
EXTENDS Scheduler

(* Faulty variant: a later task of equal priority takes the place.         *)
BetterOrEqual(scan, i) == scan.selected = NoTask \/ priority[i] <= scan.best

(* The test of one turn: the first candidate, a more urgent one, or an     *)
(* equally urgent one in a lower slot.                                     *)
Better(scan, i) ==
  \/ scan.selected = NoTask
  \/ priority[i] < scan.best
  \/ priority[i] = scan.best /\ i < scan.selected

(* The loop of sch_select_pending_task after n turns.                      *)
PendingScan[n \in 0..MaxTasks] ==
  IF n = 0 THEN [selected |-> NoTask, best |-> LowestPriority]
  ELSE LET scan == PendingScan[n - 1]
           i == n - 1
       IN IF inUse[i] /\ enabled[i] /\ pending[i] /\ period[i] # 0 /\ Better(scan, i)
            THEN [selected |-> i, best |-> priority[i]] ELSE scan

(* The loop of sch_select_background_task from its turn for offset k on.   *)
BackgroundScan[k \in 0..MaxTasks] ==
  IF k = MaxTasks THEN NoTask
  ELSE LET idx == (nextBackgroundIdx + k) % MaxTasks
       IN IF inUse[idx] /\ enabled[idx] /\ period[idx] = 0 THEN idx ELSE BackgroundScan[k + 1]

(* The loops find what Scheduler says they find: every callback sch_run    *)
(* makes is the one its scan stops with, and it leaves its loop, or idles, *)
(* only when the scan finds none or the bound is reached, with any table,  *)
(* any pending set and any cursor.                                         *)
ScansAgree ==
  [][/\ pc = "loop" /\ pc' = "callback" => selected' = PendingScan[MaxTasks].selected
     /\ pc = "loop" /\ pc' = "background" =>
          executed = MaxTasks \/ PendingScan[MaxTasks].selected = NoTask
     /\ pc = "background" /\ pc' = "backgroundCallback" => selected' = BackgroundScan[0]
     /\ pc = "background" /\ pc' = "idle" => BackgroundScan[0] = NoTask]_vars
=============================================================================
