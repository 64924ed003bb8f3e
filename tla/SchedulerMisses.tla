-------------------------- MODULE SchedulerMisses --------------------------
(***************************************************************************)
(* The instrumented scheduler watched for releases that are lost: a        *)
(* release that comes while its task is pending and that no run of the     *)
(* task ever serves, because the next run skips it.                        *)
(***************************************************************************)
EXTENDS SchedulerStats

VARIABLES
  blocked,   \* per slot, the releases that came while the task was pending
  misses     \* per slot, those of them a run has skipped since its last clear

missVars == <<blocked, misses>>

MissesInit ==
  /\ StatsInit
  /\ blocked = [i \in Slots |-> {}]
  /\ misses = [i \in Slots |-> 0]

(* A tick that is a later release of a task whose pending flag is set.     *)
ComesWhilePending(i) ==
  /\ pending[i]
  /\ clock' # clock
  /\ (clock' - release[i]) % period[i] = 0

(* The releases between the one a run serves and the one planned next.     *)
Skipped(i) == {r \in blocked[i] : release[i] < r /\ r < release'[i]}

(* The counters of the slot are cleared in this step.                      *)
Clears(i) == SchResetStats \/ inUse'[i] # inUse[i]

MissesNext ==
  /\ StatsNext
  /\ blocked' = [i \in Slots |-> IF Clears(i) THEN {}
                                 ELSE IF ComesWhilePending(i) THEN blocked[i] \cup {clock'}
                                 ELSE blocked[i]]
  /\ misses' = [i \in Slots |-> IF Clears(i) THEN 0
                                ELSE misses[i] + Cardinality(Skipped(i))]

MissesSpec == MissesInit /\ [][MissesNext]_<<statsVars, missVars>>

(* scheduler.h says of miss_count "Number of periodic releases missed      *)
(* while pending.": between two cycles it is the number of releases that   *)
(* came while their task was pending and that no run has served.           *)
MissesCounted ==
  pc = "outside" =>
    \A i \in Slots : inUse[i] => SchGetTaskStats(i).miss_count = U32(misses[i])
=============================================================================
