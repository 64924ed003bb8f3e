----------------------------- MODULE Scheduler ------------------------------
(***************************************************************************)
(* scheduler.c as compiled by default (stats and trace off).  The main     *)
(* loop calls sch_run again and again; sch_run is split at the boundaries  *)
(* of its critical sections and at the callbacks it makes, so ticks, ISRs  *)
(* and callbacks that add tasks interleave everywhere they can.            *)
(*                                                                         *)
(* sch_t's task array is one function per field of sch_task_t.  fn and ctx *)
(* are the identity of the slot: a slot in use has a callback.             *)
(***************************************************************************)
EXTENDS SchedulerTicks, FiniteSets

CONSTANTS
  MaxTasks,         \* SCH_MAX_TASKS
  LowestPriority,   \* SCH_LOWEST_PRIORITY
  Periods,          \* period_ticks arguments, 0 for a background task
  Delays,           \* start_delay_ticks arguments
  Priorities,       \* priority arguments
  StartClock,       \* real time at which the program starts
  MaxClock          \* bound on real time

ASSUME SchedulerAssumption ==
  /\ MaxTasks \in Nat \ {0}
  /\ LowestPriority \in Nat
  /\ Periods \subseteq 0..(TickMod - 1)
  /\ Delays \subseteq 0..(TickMod - 1)
  /\ Priorities \subseteq 0..LowestPriority
  /\ StartClock \in Nat
  /\ MaxClock \in Nat

VARIABLES
  \* sch_t
  period, nextRelease, priority, enabled, pending, inUse,   \* tasks[]
  taskCount,
  nextBackgroundIdx,
  \* sch_run and its locals
  pc,           \* where the main loop is
  now,          \* the tick sampled at entry
  executed,     \* executed_periodic
  selected,     \* the task whose callback runs
  \* the hardware timer, not reduced modulo TickMod
  clock,
  \* history, read by properties only
  release,      \* real time of each task's next release
  cycleStart,   \* real time at which the current sch_run was entered
  ready,        \* periodic tasks really due at cycleStart
  done,         \* periodic tasks run in this cycle
  passed        \* background tasks run since each background task last ran

taskVars   == <<period, nextRelease, priority, enabled, pending, inUse, taskCount>>
runVars    == <<pc, now, executed, selected>>
cycleVars  == <<cycleStart, ready, done>>
vars == <<taskVars, nextBackgroundIdx, runVars, clock, release, cycleVars, passed>>

Slots == 0..(MaxTasks - 1)

NoTask == -1   \* SCH_INVALID_TASK_ID

PeriodicTasks   == {i \in Slots : inUse[i] /\ enabled[i] /\ period[i] # 0}
BackgroundTasks == {i \in Slots : inUse[i] /\ enabled[i] /\ period[i] = 0}

(* The program after its first sch_init.                                   *)
Init ==
  /\ period = [i \in Slots |-> 0]
  /\ nextRelease = [i \in Slots |-> 0]
  /\ priority = [i \in Slots |-> LowestPriority]
  /\ enabled = [i \in Slots |-> FALSE]
  /\ pending = [i \in Slots |-> FALSE]
  /\ inUse = [i \in Slots |-> FALSE]
  /\ taskCount = 0
  /\ nextBackgroundIdx = 0
  /\ pc = "outside" /\ now = 0 /\ executed = 0 /\ selected = NoTask
  /\ clock = StartClock
  /\ release = [i \in Slots |-> 0]
  /\ cycleStart = 0 /\ ready = {} /\ done = {}
  /\ passed = [i \in Slots |-> {}]

(* A later sch_init, between two calls of sch_run.                         *)
SchInit ==
  /\ pc = "outside"
  /\ period' = [i \in Slots |-> 0]
  /\ nextRelease' = [i \in Slots |-> 0]
  /\ priority' = [i \in Slots |-> LowestPriority]
  /\ enabled' = [i \in Slots |-> FALSE]
  /\ pending' = [i \in Slots |-> FALSE]
  /\ inUse' = [i \in Slots |-> FALSE]
  /\ taskCount' = 0
  /\ nextBackgroundIdx' = 0
  /\ release' = [i \in Slots |-> 0]
  /\ passed' = [i \in Slots |-> {}]
  /\ UNCHANGED <<runVars, clock, cycleVars>>

-----------------------------------------------------------------------------
(* Faulty variant: the table is scanned from its end.                      *)
FreeSlotFromEnd == CHOOSE i \in Slots : ~inUse[i] /\ \A j \in Slots : j > i => inUse[j]

(* The first free slot, in index order.                                    *)
FreeSlot == CHOOSE i \in Slots : ~inUse[i] /\ \A j \in Slots : j < i => inUse[j]

(* sch_add_task with a callback, from the main loop, a task callback or an *)
(* ISR.  When task_count is at its limit the call changes nothing.         *)
SchAddTask(p, delay, prio) ==
  /\ taskCount < MaxTasks
  /\ \E i \in Slots : ~inUse[i]
  /\ LET i == FreeSlot IN
       /\ period' = [period EXCEPT ![i] = p]
       /\ nextRelease' = [nextRelease EXCEPT ![i] = U32(U32(clock) + delay)]
       /\ priority' = [priority EXCEPT ![i] = prio]
       /\ enabled' = [enabled EXCEPT ![i] = TRUE]
       /\ pending' = [pending EXCEPT ![i] = FALSE]
       /\ inUse' = [inUse EXCEPT ![i] = TRUE]
       /\ release' = [release EXCEPT ![i] = clock + delay]
       /\ passed' = [passed EXCEPT ![i] = {}]
  /\ taskCount' = taskCount + 1
  /\ UNCHANGED <<nextBackgroundIdx, runVars, clock, cycleVars>>

-----------------------------------------------------------------------------
(* sch_mark_periodic_ready: pending is set, never cleared, by this scan.   *)
SchMarkPeriodicReady(tick) ==
  pending' = [i \in Slots |->
                \/ pending[i]
                \/ i \in PeriodicTasks /\ SchTimeReached(tick, nextRelease[i])]

(* The entry of sch_run: one critical section.                             *)
SchRunEnter ==
  /\ pc = "outside"
  /\ now' = U32(clock)
  /\ SchMarkPeriodicReady(now')
  /\ executed' = 0
  /\ pc' = "loop"
  /\ cycleStart' = clock
  /\ ready' = {i \in PeriodicTasks : release[i] <= clock}
  /\ done' = {}
  /\ UNCHANGED <<period, nextRelease, priority, enabled, inUse, taskCount,
                 nextBackgroundIdx, selected, clock, release, passed>>

(* Lower priority value first, then lower slot.                            *)
Precedes(i, j) ==
  \/ priority[i] < priority[j]
  \/ priority[i] = priority[j] /\ i < j

Candidates == {i \in PeriodicTasks : pending[i]}

(* Faulty variant: the scan keeps the last of the best, not the first.     *)
SchSelectLastBest ==
  CHOOSE i \in Candidates :
    \A j \in Candidates \ {i} : priority[i] < priority[j] \/ (priority[i] = priority[j] /\ i > j)

(* The result of the scan in sch_select_pending_task.                      *)
SchSelectPendingTask == CHOOSE i \in Candidates : \A j \in Candidates \ {i} : Precedes(i, j)

(* The first point of a task's release grid strictly after time t.         *)
FirstReleaseAfter(t, r, p) == CHOOSE x \in (t + 1)..(t + p) : (x - r) % p = 0

(* One turn of the loop, up to the callback: one critical section.         *)
SchRunSelect ==
  /\ pc = "loop"
  /\ executed < MaxTasks
  /\ Candidates # {}
  /\ LET i == SchSelectPendingTask IN
       /\ selected' = i
       /\ pending' = [pending EXCEPT ![i] = FALSE]
       /\ nextRelease' =
            [nextRelease EXCEPT ![i] = SchAdvanceNextRelease(now, nextRelease[i], period[i])]
       /\ release' = [release EXCEPT ![i] = FirstReleaseAfter(cycleStart, release[i], period[i])]
       /\ done' = done \cup {i}
  /\ pc' = "callback"
  /\ UNCHANGED <<period, priority, enabled, inUse, taskCount, nextBackgroundIdx,
                 now, executed, clock, cycleStart, ready, passed>>

(* The callback returns.  With stats and trace compiled out the overrun    *)
(* test has no effect.                                                     *)
SchRunCallbackReturn ==
  /\ pc = "callback"
  /\ executed' = executed + 1
  /\ selected' = NoTask
  /\ pc' = "loop"
  /\ UNCHANGED <<taskVars, nextBackgroundIdx, now, clock, release, cycleVars, passed>>

(* Faulty variant: the loop bound is one too small.                        *)
SchRunLoopEndEarly ==
  /\ pc = "loop"
  /\ executed + 1 >= MaxTasks \/ Candidates = {}
  /\ pc' = "background"
  /\ UNCHANGED <<taskVars, nextBackgroundIdx, now, executed, selected, clock, release,
                 cycleVars, passed>>

(* The loop ends: nothing is pending, or SCH_MAX_TASKS callbacks have run. *)
SchRunLoopEnd ==
  /\ pc = "loop"
  /\ executed = MaxTasks \/ Candidates = {}
  /\ pc' = "background"
  /\ UNCHANGED <<taskVars, nextBackgroundIdx, now, executed, selected, clock, release,
                 cycleVars, passed>>

-----------------------------------------------------------------------------
(* How many slots the round-robin scan visits before slot i.               *)
Offset(i) == (i - nextBackgroundIdx) % MaxTasks

(* Faulty variant: the scan ignores the cursor and starts at slot 0.       *)
SchSelectFirstBackground == CHOOSE i \in BackgroundTasks : \A j \in BackgroundTasks : i <= j

(* The result of the scan in sch_select_background_task.                   *)
SchSelectBackgroundTask ==
  CHOOSE i \in BackgroundTasks : \A j \in BackgroundTasks : Offset(i) <= Offset(j)

(* Faulty variant: the cursor stays on the task just chosen.               *)
NextCursorStays(i) == i

NextCursor(i) == (i + 1) % MaxTasks

(* The critical section that picks a background task and moves the cursor. *)
SchRunBackground ==
  /\ pc = "background"
  /\ BackgroundTasks # {}
  /\ LET i == SchSelectBackgroundTask IN
       /\ selected' = i
       /\ nextBackgroundIdx' = NextCursor(i)
       /\ passed' = [j \in Slots |-> IF j = i THEN {}
                                     ELSE IF j \in BackgroundTasks THEN passed[j] \cup {i}
                                     ELSE passed[j]]
  /\ pc' = "backgroundCallback"
  /\ UNCHANGED <<taskVars, now, executed, clock, release, cycleVars>>

(* sch_run returns: its locals and the record of the cycle are gone.       *)
LeaveRun ==
  /\ pc' = "outside" /\ now' = 0 /\ executed' = 0 /\ selected' = NoTask
  /\ cycleStart' = 0 /\ ready' = {} /\ done' = {}

(* The background callback returns and sch_run with it.                    *)
SchRunBackgroundReturn ==
  /\ pc = "backgroundCallback"
  /\ LeaveRun
  /\ UNCHANGED <<taskVars, nextBackgroundIdx, clock, release, passed>>

(* No background task: sch_port_idle is called.                            *)
SchRunNoBackground ==
  /\ pc = "background"
  /\ BackgroundTasks = {}
  /\ pc' = "idle"
  /\ UNCHANGED <<taskVars, nextBackgroundIdx, now, executed, selected, clock, release,
                 cycleVars, passed>>

(* sch_port_idle returns and sch_run with it.                              *)
SchRunIdleReturn ==
  /\ pc = "idle"
  /\ LeaveRun
  /\ UNCHANGED <<taskVars, nextBackgroundIdx, clock, release, passed>>

-----------------------------------------------------------------------------
(* The timer.  The comparison of sch_time_reached is meant for "the usual  *)
(* half-range interval": the application polls sch_run often enough that   *)
(* no release is ever HalfRange ticks old.                                 *)
Polled == \A i \in PeriodicTasks : (clock + 1) - release[i] < HalfRange

Tick ==
  /\ clock < MaxClock
  /\ Polled
  /\ clock' = clock + 1
  /\ UNCHANGED <<taskVars, nextBackgroundIdx, runVars, release, cycleVars, passed>>

(* The steps of the main loop, which calls sch_run without end.            *)
SchRun ==
  \/ SchRunEnter \/ SchRunSelect \/ SchRunCallbackReturn \/ SchRunLoopEnd
  \/ SchRunBackground \/ SchRunBackgroundReturn
  \/ SchRunNoBackground \/ SchRunIdleReturn

Next ==
  \/ SchInit
  \/ \E p \in Periods, d \in Delays, q \in Priorities : SchAddTask(p, d, q)
  \/ SchRun
  \/ Tick

Spec == Init /\ [][Next]_vars

-----------------------------------------------------------------------------
(* Type invariant.                                                         *)
TypeOK ==
  /\ period \in [Slots -> 0..(TickMod - 1)]
  /\ nextRelease \in [Slots -> 0..(TickMod - 1)]
  /\ priority \in [Slots -> 0..LowestPriority]
  /\ enabled \in [Slots -> BOOLEAN]
  /\ pending \in [Slots -> BOOLEAN]
  /\ inUse \in [Slots -> BOOLEAN]
  /\ taskCount \in 0..MaxTasks
  /\ nextBackgroundIdx \in Slots
  /\ pc \in {"outside", "loop", "callback", "background", "backgroundCallback", "idle"}
  /\ now \in 0..(TickMod - 1)
  /\ executed \in 0..MaxTasks
  /\ selected \in Slots \cup {NoTask}
  /\ clock \in Nat
  /\ release \in [Slots -> Nat]
  /\ cycleStart \in Nat
  /\ ready \subseteq Slots
  /\ done \subseteq Slots
  /\ passed \in [Slots -> SUBSET Slots]

(* task_count and the in_use flags agree: the slots in use are exactly the *)
(* first task_count, so sch_add_task finds a slot whenever the count says  *)
(* there is room, and the ids it returns are consecutive.                  *)
SlotsDense ==
  \A i \in Slots : /\ inUse[i] <=> i < taskCount
                   /\ enabled[i] <=> inUse[i]

(* The stored 32-bit release is the real release time of the task's grid   *)
(* start_delay + k * period, through every wrap of the tick counter and    *)
(* however many releases a long cycle made it skip.                        *)
ReleaseOnGrid == \A i \in PeriodicTasks : nextRelease[i] = U32(release[i])

(* sch_run runs a periodic task only if its release time had really come   *)
(* when the cycle began.                                                   *)
NoEarlyRelease == done \subseteq ready

(* A cycle serves exactly the ready set collected at run entry: what is    *)
(* pending is what is ready and not yet run, each task runs at most once,  *)
(* the loop bound SCH_MAX_TASKS never cuts the set short, and no pending   *)
(* flag outlives the cycle.                                                *)
CycleServesReadySet ==
  /\ {i \in Slots : pending[i]} = IF pc \in {"loop", "callback"} THEN ready \ done ELSE {}
  /\ pc = "loop" => executed = Cardinality(done)
  /\ pc = "callback" => executed + 1 = Cardinality(done) /\ selected \in done
  /\ pc \in {"background", "backgroundCallback", "idle"} => done = ready

(* Within a cycle tasks run in order of priority, then of slot: nothing    *)
(* still pending comes before something already run, also when a callback  *)
(* or an ISR adds a more urgent task in the middle of the cycle.           *)
PriorityOrder ==
  \A i \in done, j \in Slots : pending[j] => Precedes(i, j)

(* Round robin: between two runs of a background task no other one runs    *)
(* twice, whatever tasks are added meanwhile.                              *)
NoDoubleService ==
  [][\A i \in BackgroundTasks :
       pc = "background" /\ pc' = "backgroundCallback" => selected' \notin passed[i]]_vars

(* No background task starves: the superloop reaches every one of them.    *)
BackgroundTaskRuns ==
  \A i \in Slots :
    i \in BackgroundTasks ~> ((pc = "backgroundCallback" /\ selected = i) \/ ~inUse[i])

-----------------------------------------------------------------------------
(* What the proofs add to the properties above.                            *)

(* The arguments sch_add_task can represent: a delay or a period of more   *)
(* than half the tick range is indistinguishable from one in the past.     *)
HalfRangeArguments == Periods \subseteq 0..HalfRange /\ Delays \subseteq 0..HalfRange

(* Every release lies within half the tick range of the present.           *)
WithinHalfRange ==
  \A i \in PeriodicTasks : /\ period[i] <= HalfRange
                           /\ clock - release[i] < HalfRange
                           /\ release[i] - clock <= HalfRange

(* The entry tick is a stale sample of the clock while the loop uses it,   *)
(* and the tasks it made ready stay periodic and due at that tick.         *)
CycleSample ==
  /\ pc \in {"loop", "callback"} => now = U32(cycleStart) /\ cycleStart <= clock
  /\ ready \subseteq PeriodicTasks
  /\ \A i \in ready \ done : release[i] <= cycleStart
  /\ pc = "outside" => ready = {} /\ done = {}
  /\ pc = "callback" => executed < MaxTasks

(* A background task run since task i last ran lies behind i in the scan.  *)
PassedBehind ==
  \A i \in BackgroundTasks : \A j \in passed[i] : Offset(i) < Offset(j)
=============================================================================
