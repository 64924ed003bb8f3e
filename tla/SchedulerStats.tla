--------------------------- MODULE SchedulerStats ---------------------------
(***************************************************************************)
(* scheduler.c built with SCH_ENABLE_STATS and SCH_ENABLE_TRACE: the       *)
(* actions of Scheduler with the instrumentation around each callback, and *)
(* sch_reset_stats, sch_get_task_stats and sch_set_trace_hook.             *)
(*                                                                         *)
(* The code around a callback updates the counters outside any critical    *)
(* section, so a reset made by an interrupt may fall between the loads and *)
(* the stores of one update.  An update is therefore two steps, and each   *)
(* field of the second is computed from the value before or after a reset  *)
(* that fell between, or is wiped by it.                                   *)
(***************************************************************************)
EXTENDS Scheduler

CONSTANTS MaxExecutions   \* bound on callback executions since sch_init

ASSUME StatsAssumption == MaxExecutions \in Nat

VARIABLES
  stats,      \* sch_t.stats: the counters of each slot
  hook,       \* trace_hook is not NULL
  \* the callback in progress
  phase,      \* "none", "start", "body", "update" or "ended"
  loaded,     \* the counters of its slot when the current update began
  execEnd, execTicks,   \* exec_end and exec_ticks
  \* history
  trace,      \* the latest event the present hook received
  executions, \* callbacks completed since sch_init
  truth,      \* per slot, in real time: the executions since its last clear
  startedAt,  \* real time at which the current callback began
  hit,        \* where a reset hit the current callback: "none", "body", "update"
  spoilt      \* per slot, the groups of counters a reset has spoilt

instrVars == <<stats, hook, phase, loaded, execEnd, execTicks>>
statsHist == <<trace, executions, truth, startedAt, hit, spoilt>>
statsVars == <<vars, instrVars, statsHist>>

NoEvent == [event |-> "none", id |-> NoTask]

(* sch_stats_clear_slot.                                                   *)
ClearSlot ==
  [run_count |-> 0, miss_count |-> 0, overrun_count |-> 0,
   last_start_tick |-> 0, last_end_tick |-> 0, last_exec_ticks |-> 0,
   max_exec_ticks |-> 0, total_exec_ticks |-> 0]

NoTruth == [runs |-> 0, overruns |-> 0, start |-> 0, end |-> 0, longest |-> 0, total |-> 0]

StatsInit ==
  /\ Init
  /\ stats = [i \in Slots |-> ClearSlot] /\ hook = FALSE
  /\ phase = "none" /\ loaded = ClearSlot /\ execEnd = 0 /\ execTicks = 0
  /\ trace = NoEvent /\ executions = 0
  /\ truth = [i \in Slots |-> NoTruth] /\ startedAt = 0
  /\ hit = "none" /\ spoilt = [i \in Slots |-> {}]

-----------------------------------------------------------------------------
(* sch_trace_emit.  The hook only observes: it may not call the scheduler. *)
SchTraceEmit(event, i) ==
  trace' = IF hook THEN [event |-> event, id |-> i] ELSE trace

(* sch_init and sch_add_task with the counters they clear.                 *)
StatsSchInit ==
  /\ SchInit
  /\ stats' = [i \in Slots |-> ClearSlot] /\ hook' = FALSE
  /\ trace' = NoEvent /\ executions' = 0
  /\ truth' = [i \in Slots |-> NoTruth] /\ spoilt' = [i \in Slots |-> {}]
  /\ UNCHANGED <<phase, loaded, execEnd, execTicks, startedAt, hit>>

StatsAddTask(p, delay, prio) ==
  /\ SchAddTask(p, delay, prio)
  /\ stats' = [stats EXCEPT ![FreeSlot] = ClearSlot]
  /\ truth' = [truth EXCEPT ![FreeSlot] = NoTruth]
  /\ spoilt' = [spoilt EXCEPT ![FreeSlot] = {}]
  /\ UNCHANGED <<hook, phase, loaded, execEnd, execTicks, trace, executions, startedAt, hit>>

(* A task already pending when its release comes has missed one.           *)
Missed(tick) == {i \in PeriodicTasks : pending[i] /\ SchTimeReached(tick, nextRelease[i])}

StatsEnter ==
  /\ executions < MaxExecutions
  /\ SchRunEnter
  /\ stats' = [i \in Slots |->
                 IF i \in Missed(now')
                   THEN [stats[i] EXCEPT !.miss_count = U32(@ + 1)] ELSE stats[i]]
  /\ IF Missed(now') = {} THEN UNCHANGED trace
     ELSE SchTraceEmit("MISS", CHOOSE i \in Missed(now') : \A j \in Missed(now') : j <= i)
  /\ UNCHANGED <<hook, phase, loaded, execEnd, execTicks, executions, truth, startedAt, hit, spoilt>>

(* A periodic or a background callback is selected.                        *)
StatsSelect ==
  /\ SchRunSelect \/ SchRunBackground
  /\ phase' = "start"
  /\ UNCHANGED <<stats, hook, loaded, execEnd, execTicks, statsHist>>

(* Faulty variant: only periodic tasks are announced.                      *)
TraceStartPeriodic == IF pc = "callback" THEN SchTraceEmit("START", selected) ELSE UNCHANGED trace

TraceStart == SchTraceEmit("START", selected)

(* The start tick is stored and the hook told; the callback begins.        *)
ExecStart ==
  /\ phase = "start"
  /\ stats' = [stats EXCEPT ![selected].last_start_tick = U32(clock)]
  /\ TraceStart
  /\ phase' = "body"
  /\ startedAt' = clock
  /\ hit' = "none"
  /\ UNCHANGED <<vars, hook, loaded, execEnd, execTicks, executions, truth, spoilt>>

(* The callback returns: exec_end is sampled and the duration computed     *)
(* from the stored start tick.                                             *)
ExecEnd ==
  /\ phase = "body"
  /\ execEnd' = U32(clock)
  /\ execTicks' = U32(execEnd' - stats[selected].last_start_tick)
  /\ loaded' = stats[selected]
  /\ phase' = "update"
  /\ executions' = executions + 1
  /\ LET t == truth[selected]
         took == clock - startedAt
     IN truth' = [truth EXCEPT ![selected] =
                    [t EXCEPT !.runs = t.runs + 1, !.start = startedAt, !.end = clock,
                              !.total = t.total + took,
                              !.longest = IF took > t.longest THEN took ELSE t.longest]]
  /\ UNCHANGED <<vars, stats, hook, trace, startedAt, hit, spoilt>>

(* The values an unguarded read-modify-write of a field may leave: made    *)
(* from the value before or after a reset in its window, or wiped by it.   *)
Stored(before, after) == {before, after} \cup (IF hit = "update" THEN {0} ELSE {})

Increment(x) == U32(x + 1)
(* Faulty variant: the sum is kept in a wider word.                        *)
AccumulateWide(x) == x + execTicks
Accumulate(x) == U32(x + execTicks)
(* Faulty variant: the maximum is the latest duration.                     *)
LargerLatest(x) == execTicks
Larger(x) == IF execTicks > x THEN execTicks ELSE x

(* Which counters of the slot a hit callback leaves wrong.                 *)
Spoils(where) == IF where = "update" THEN {"count", "time", "last"}
                 ELSE IF where = "body" THEN {"time", "last"} ELSE {}

(* The stores that end an execution, and the END event.                    *)
StatsUpdate ==
  /\ phase = "update"
  /\ LET s == stats[selected] IN
     \E runs \in Stored(Increment(loaded.run_count), Increment(s.run_count)),
        end \in Stored(execEnd, execEnd), ticks \in Stored(execTicks, execTicks),
        total \in Stored(Accumulate(loaded.total_exec_ticks), Accumulate(s.total_exec_ticks)),
        longest \in Stored(Larger(loaded.max_exec_ticks), Larger(s.max_exec_ticks)) :
       /\ stats' = [stats EXCEPT ![selected] =
                      [@ EXCEPT !.run_count = runs, !.last_end_tick = end,
                                !.last_exec_ticks = ticks, !.total_exec_ticks = total,
                                !.max_exec_ticks = longest]]
       /\ loaded' = stats'[selected]
  /\ SchTraceEmit("END", selected)
  /\ phase' = "ended"
  /\ spoilt' = [spoilt EXCEPT ![selected] = (@ \ {"last"}) \cup Spoils(hit)]
  /\ execEnd' = 0 /\ execTicks' = 0 /\ hit' = "none"
  /\ UNCHANGED <<vars, hook, executions, truth, startedAt>>

(* Back in sch_run: the locals of the instrumentation are gone.            *)
Finished ==
  /\ phase' = "none" /\ loaded' = ClearSlot /\ startedAt' = 0 /\ hit' = "none"
  /\ UNCHANGED <<hook, execEnd, execTicks, executions>>

(* Faulty variant: completion is compared with the tick of run entry.      *)
OverranAtEntry == SchTimeReached(now, nextRelease[selected])

(* The test of completed_at against the release planned next.              *)
Overran == SchTimeReached(U32(clock), nextRelease[selected])

(* The same test in real time.                                             *)
CountTrueOverrun ==
  truth' = [truth EXCEPT ![selected].overruns = IF release[selected] <= clock THEN @ + 1 ELSE @]

StatsOverrun ==
  /\ phase = "ended" /\ pc = "callback" /\ Overran
  /\ SchRunCallbackReturn
  /\ \E n \in Stored(Increment(loaded.overrun_count),
                   Increment(stats[selected].overrun_count)) :
       stats' = [stats EXCEPT ![selected].overrun_count = n]
  /\ SchTraceEmit("OVERRUN", selected)
  /\ spoilt' = [spoilt EXCEPT ![selected] = @ \cup (IF hit = "update" THEN {"count"} ELSE {})]
  /\ CountTrueOverrun
  /\ Finished

StatsInTime ==
  /\ phase = "ended" /\ pc = "callback" /\ ~Overran
  /\ SchRunCallbackReturn
  /\ CountTrueOverrun
  /\ Finished
  /\ UNCHANGED <<stats, trace, spoilt>>

(* A background execution has no overrun test.                             *)
StatsBackgroundReturn ==
  /\ phase = "ended"
  /\ SchRunBackgroundReturn
  /\ Finished
  /\ UNCHANGED <<stats, trace, truth, spoilt>>

StatsNoBackground ==
  /\ SchRunNoBackground
  /\ SchTraceEmit("IDLE", NoTask)
  /\ UNCHANGED <<instrVars, executions, truth, startedAt, hit, spoilt>>

(* Steps of sch_run the instrumentation does not touch, and the timer.     *)
StatsPlainStep ==
  /\ SchRunLoopEnd \/ SchRunIdleReturn \/ Tick
  /\ UNCHANGED <<instrVars, statsHist>>

-----------------------------------------------------------------------------
(* sch_reset_stats, from a task, a callback or an interrupt.               *)
SchResetStats ==
  /\ stats' = [i \in Slots |-> ClearSlot]
  /\ truth' = [i \in Slots |-> NoTruth]
  /\ spoilt' = [i \in Slots |-> {}]
  /\ hit' = CASE phase \in {"update", "ended"} -> "update"
              [] phase = "body" -> "body"
              [] OTHER -> hit
  /\ UNCHANGED <<vars, hook, phase, loaded, execEnd, execTicks, trace, executions, startedAt>>

SchSetTraceHook(h) ==
  /\ hook' = h
  /\ trace' = NoEvent
  /\ UNCHANGED <<vars, stats, phase, loaded, execEnd, execTicks, executions, truth, startedAt,
                 hit, spoilt>>

(* sch_get_task_stats, for a slot in use.                                  *)
SchGetTaskStats(i) == stats[i]

StatsNext ==
  \/ StatsSchInit
  \/ \E p \in Periods, d \in Delays, q \in Priorities : StatsAddTask(p, d, q)
  \/ StatsEnter \/ StatsSelect \/ ExecStart \/ ExecEnd \/ StatsUpdate
  \/ StatsOverrun \/ StatsInTime \/ StatsBackgroundReturn \/ StatsNoBackground
  \/ StatsPlainStep
  \/ SchResetStats
  \/ \E h \in BOOLEAN : SchSetTraceHook(h)

StatsSpec == StatsInit /\ [][StatsNext]_statsVars

-----------------------------------------------------------------------------
(* Type invariant of the instrumentation.                                  *)
StatsTypeOK ==
  /\ stats \in [Slots -> [DOMAIN ClearSlot -> 0..(TickMod - 1)]]
  /\ loaded \in [DOMAIN ClearSlot -> 0..(TickMod - 1)]
  /\ hook \in BOOLEAN
  /\ phase \in {"none", "start", "body", "update", "ended"}
  /\ (phase # "none") <=> (pc \in {"callback", "backgroundCallback"})
  /\ {execEnd, execTicks} \subseteq 0..(TickMod - 1)
  /\ trace.event \in {"none", "START", "END", "MISS", "OVERRUN", "IDLE"}
  /\ trace.id \in Slots \cup {NoTask}
  /\ DOMAIN truth = Slots /\ startedAt \in 0..clock /\ executions \in Nat
  /\ hit \in {"none", "body", "update"}
  /\ spoilt \in [Slots -> SUBSET {"count", "time", "last"}]

(* The slots whose counters a reader finds in a consistent state: all but  *)
(* the one whose update is half done.                                      *)
Readable == {i \in Slots : inUse[i] /\ ~(phase = "update" /\ selected = i)}

(* The counts sch_get_task_stats returns are the executions completed and  *)
(* the ones that outlasted the task's next release, in real time, since    *)
(* the slot was cleared; the 32-bit comparison never misjudges an overrun. *)
(* Only a reset that fell into an update spoils them, a reset made by a    *)
(* callback does not.  No release is ever counted as missed: a cycle       *)
(* leaves no task pending for the next one to find.                        *)
CountsExact ==
  \A i \in Readable : "count" \notin spoilt[i] =>
    LET s == SchGetTaskStats(i) IN
      /\ s.run_count = U32(truth[i].runs)
      /\ s.overrun_count = U32(truth[i].overruns)
      /\ s.miss_count = 0

(* The times sch_get_task_stats returns are the true ones, across the wrap *)
(* of the tick counter, for a slot none of whose executions a reset has    *)
(* hit; and what describes the latest execution is right again after the   *)
(* first one that no reset hits, whatever happened before.                 *)
TimesExact ==
  \A i \in Readable :
    LET s == SchGetTaskStats(i)
        t == truth[i]
    IN /\ "time" \notin spoilt[i] => /\ s.total_exec_ticks = U32(t.total)
                                      /\ s.max_exec_ticks = t.longest
       /\ "last" \notin spoilt[i] => /\ s.last_end_tick = U32(t.end)
                                      /\ s.last_exec_ticks = U32(t.end - t.start)
                                      /\ ~(phase = "body" /\ selected = i) =>
                                            s.last_start_tick = U32(t.start)

(* What a hook hears: an END or an OVERRUN of a task directly follows its  *)
(* START or END, two executions never overlap, and idle never falls inside *)
(* one, from whichever moment the hook was registered.                     *)
TraceOrder ==
  [][trace' # trace /\ NoEvent \notin {trace, trace'} =>
       CASE trace'.event = "START"   -> trace.event # "START"
         [] trace'.event = "END"     -> trace = [event |-> "START", id |-> trace'.id]
         [] trace'.event = "OVERRUN" -> trace = [event |-> "END", id |-> trace'.id]
         [] trace'.event = "IDLE"    -> trace.event \in {"END", "OVERRUN"}
         [] OTHER                    -> FALSE]_trace

(* scheduler.h says of last_exec_ticks "Duration in ticks of last          *)
(* execution."                                                             *)
LastExecIsDuration ==
  \A i \in Readable : truth[i].runs # 0 =>
    SchGetTaskStats(i).last_exec_ticks = U32(truth[i].end - truth[i].start)
=============================================================================
