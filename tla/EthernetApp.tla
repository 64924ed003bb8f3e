---------------------------- MODULE EthernetApp -----------------------------
(***************************************************************************)
(* A firmware: the scheduler, the Ethernet service as its first task, and  *)
(* other tasks added at any time.  Nothing is assumed of the service here  *)
(* but that the main loop goes on: when and how often it runs is what the  *)
(* scheduler makes of it.                                                  *)
(*                                                                         *)
(* The service is a background task (period 0).  sch_eth_service_run is    *)
(* its callback: while the scheduler is inside that callback, the steps of *)
(* the main loop are those of the service.  Interrupts and the timer go on *)
(* in between.                                                             *)
(***************************************************************************)
EXTENDS EthernetService

CONSTANTS
  HalfRange, MaxTasks, LowestPriority, Periods, Delays, Priorities, StartClock, MaxClock

ASSUME AppAssumption == MaxTasks \in Nat \ {0}

VARIABLES
  \* the scheduler, as in module Scheduler; its pc is mainPc here
  period, nextRelease, priority, enabled, pending, inUse, taskCount,
  nextBackgroundIdx, mainPc, now, executed, selected, clock,
  release, cycleStart, ready, done, passed,
  \* the service's run has begun in the current callback
  called,
  \* history: cycles that ended while the oldest event in the queue waited
  waited

S == INSTANCE Scheduler WITH pc <- mainPc

schedulerVars ==
  <<period, nextRelease, priority, enabled, pending, inUse, taskCount, nextBackgroundIdx,
    mainPc, now, executed, selected, clock, release, cycleStart, ready, done, passed>>

appVars == <<vars, schedulerVars, called, waited>>

ServiceTask == 0

AppInit == Init /\ S!Init /\ called = FALSE /\ waited = 0

(* The main program, between two cycles, initialises the service.          *)
InitService ==
  /\ mainPc = "outside"
  /\ \E c \in EventCapacities, b \in EventBudgets : SchEthServiceInit(c, b)
  /\ waited' = IF eventQueue'.count = 0 THEN 0 ELSE waited
  /\ UNCHANGED <<schedulerVars, called>>

(* The first task to be registered is the service.                         *)
AddTask ==
  /\ \E p \in Periods, d \in Delays, q \in Priorities :
       /\ taskCount = ServiceTask => p = 0
       /\ S!SchAddTask(p, d, q)
  /\ UNCHANGED <<vars, called, waited>>

InServiceCallback ==
  mainPc \in {"callback", "backgroundCallback"} /\ selected = ServiceTask

(* A step of the service inside its callback.                              *)
ServiceStep ==
  /\ InServiceCallback
  /\ ~called \/ pc # "idle"
  /\ SchEthServiceRun
  /\ called' = TRUE
  /\ waited' = IF RunPop THEN 0 ELSE waited
  /\ UNCHANGED schedulerVars

(* A step of sch_run; the service's callback returns when its run has.     *)
SchedulerStep ==
  /\ S!SchRun
  /\ InServiceCallback => called /\ pc = "idle"
  /\ called' = FALSE
  /\ waited' = IF mainPc' = "outside" /\ inUse[ServiceTask] /\ eventQueue.count > 0
                 THEN waited + 1 ELSE waited
  /\ UNCHANGED vars

MainLoop == ServiceStep \/ SchedulerStep

Interrupt ==
  /\ SchEthIsrRx \/ SchEthIsrTx \/ SchEthIsrLink
  /\ UNCHANGED <<schedulerVars, called, waited>>

(* Time starts with the first periodic task: without one nothing reads it. *)
Timer == S!PeriodicTasks # {} /\ S!Tick /\ UNCHANGED <<vars, called, waited>>

(* A whole turn of the tick counter lies behind: between two cycles, and   *)
(* before the release of every task.                                       *)
TurnIsOver ==
  /\ mainPc = "outside"
  /\ clock >= S!TickMod
  /\ \A t \in S!PeriodicTasks : release[t] >= S!TickMod

(* Real time is then counted from one turn later, so that it never ends    *)
(* in a finite model.  The code sees times modulo TickMod only, and the    *)
(* properties their differences.                                           *)
Rebase ==
  /\ TurnIsOver
  /\ clock' = clock - S!TickMod
  /\ release' = [t \in S!Slots |-> IF t \in S!PeriodicTasks THEN release[t] - S!TickMod ELSE 0]
  /\ UNCHANGED <<vars, called, waited, period, nextRelease, priority, enabled, pending, inUse,
                 taskCount, nextBackgroundIdx, mainPc, now, executed, selected, cycleStart,
                 ready, done, passed>>

AppNext ==
  \/ ~TurnIsOver /\ (InitService \/ AddTask \/ MainLoop \/ Interrupt \/ Timer)
  \/ Rebase

(* The main loop calls sch_run for ever and callbacks return.              *)
AppSpec == AppInit /\ [][AppNext]_appVars /\ WF_appVars(MainLoop)

-----------------------------------------------------------------------------
(* Latency: the oldest event in the queue waits for at most as many cycles *)
(* as there are task slots, whatever tasks are added or become due, and    *)
(* whether its hint was taken by an earlier run or is not set yet.         *)
EventLatencyBounded == waited <= MaxTasks

(* No background task starves beside the service, nor under a periodic     *)
(* task that is due again at every tick.                                   *)
BackgroundTasksRun == S!BackgroundTaskRuns
=============================================================================
