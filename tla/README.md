# Verification of scheduler-lib

TLA+ models, TLC runs and TLAPS proofs for the cooperative scheduler, its
interrupt buffers and its deferred-interrupt services. `PROJECT.json` lists the
runs, the map from definitions to source lines, the hazards, the findings and
the theorems. Source paths below are relative to the repository root.

## The system

| Component | State | Operations | Interacts with |
|---|---|---|---|
| Scheduler core (`src/scheduler.c`) | table of 64 tasks (period, next release, priority, enabled, pending, in use), task count, round-robin cursor | `sch_init`, `sch_add_task`, `sch_run`; `sch_enable_task` is a no-op | calls task callbacks, the port's tick, critical-section and idle hooks |
| Statistics and trace (same file, compiled out by default) | counters and timestamps per task, trace hook | `sch_reset_stats`, `sch_get_task_stats`, `sch_set_trace_hook` | updated by `sch_run` around callbacks |
| Ring buffer (`src/isr_buffer.c`) | storage, head, tail, count, drops, overflow mode | init, reset, push (ISR), pop (task), queries | one producer context, one consumer context |
| Event queue (same file) | a ring of 16-bit ids | forwards to the ring | motor, Ethernet and EEPROM services |
| FSI, IPC services | ring of IRQ records, advisory event bits, budget | init, three ISR entry points, run | ISRs push and set a bit; the scheduler calls run |
| UART service | RX and TX ring, two hints, two budgets | init, RX ISR, TX-ready ISR, `queue_tx`, run | HAL reads and writes bytes |
| Motor service | feedback ring, event queue, command, hint | init, `set_command`, feedback ISR, fault ISR, run | HAL switches the motor |
| Ethernet, I2C EEPROM services | event queue; request ring and completion queue | init, ISR entry points, run | HAL |
| Port layer | tick counter, interrupt mask | external | everything |

What is hard here: interrupts fall between any two critical sections, so hints,
queues and the task that drains them race; the 32-bit tick wraps; callbacks take
time and add tasks while a cycle works from a tick sampled at its start; budgets
leave work behind; full queues drop at one end or the other; an init that fails
half way leaves a mixture; two scans (priority, round robin) must agree with the
flags they read. A unit test calls these functions one after the other and meets
none of it.

What makes each part correct:

* ring: first in, first out; loses only when full, at the end its mode names, and
  counts every loss;
* scheduler: releases stay on the grid `start + k * period`; nothing runs early; a
  cycle runs exactly the tasks due at its entry, by priority; background tasks
  take turns; nothing starves;
* statistics: counts and times are the real ones, whenever a reset comes;
* services: nothing is handed over twice or out of order, nothing is lost
  uncounted, nothing is stranded when a hint is consumed early; a motor fault
  stops the motor and keeps it stopped; an accepted EEPROM request is offered once;
  an Ethernet event finds its descriptor within a bounded number of cycles.

## Modules

| Module | Models |
|---|---|
| `SpscRing` | `sch_spsc_ring_t` as a record and every function of `isr_buffer.c` as an operator on it |
| `IsrBuffer` | one ring, its producer and its consumer, and init or reset at any time |
| `BoundedFifo` | the abstract queue: sequences, no indices |
| `SchedulerTicks` | `uint32_t`/`int32_t` tick arithmetic, `sch_time_reached`, `sch_advance_next_release` |
| `Scheduler` | the task table and `sch_run`, cut at its critical sections and callbacks |
| `SelectScan` | the two selection loops turn by turn, against the definitions by `CHOOSE` in `Scheduler` |
| `SchedulerStats` | the build with statistics and trace: the actions of `Scheduler` with the instrumentation around them |
| `SchedulerMisses` | the same with the releases recorded that come while their task is pending and are skipped |
| `IrqRecordService` | what `fsi_service.c` and `ipc_service.c` have in common |
| `FsiService`, `IpcService` | the entry points of each, with the tags they push |
| `RecordServices` | either of the two |
| `UartService` | `uart_service.c` |
| `UartLatency` | the same with the runs counted that pass a ring over |
| `MotorService` | `motor_supervision_service.c`, with the motor behind the HAL |
| `MotorLatency` | the same with the runs counted that a queued fault has to wait |
| `I2cEepromService` | `i2c_eeprom_service.c` |
| `EthernetService` | `ethernet_service.c`, with the descriptors and the link behind the HAL |
| `EthernetApp` | a firmware: `Scheduler` and `EthernetService`, whose run is a task's callback |
| `SpscRingTheorems` | lemmas about the ring operators that every proof with a ring uses |
| `IsrBufferProofs`, `SchedulerProofs`, `RecordServicesProofs`, `UartServiceProofs`, `MotorServiceProofs`, `I2cEepromServiceProofs`, `EthernetProofs` | the proofs |

The service modules EXTEND `SpscRing`, so a change of the ring is a change of
every service, and one set of ring lemmas serves all of their proofs.
`EthernetApp` INSTANCEs `Scheduler` and lets its main loop take the
steps of the service while the service's callback is the one selected: the
scheduler decides when the service runs, the service when the callback returns.

**Steps.** A step is one critical section, one callback of the scheduler or one
HAL call. This is the atomicity `docs/porting_contract.md` requires of a port. An
ISR that pushes and then sets a hint is two steps, and any other ISR or the task
may come between them; that also covers nested interrupts. Tasks do not preempt
one another, so init and task-context calls find no service run in progress.
The motor service reads `enabled` twice, and each read is a step, so a command from an
interrupt can fall between them. A
`set_command` of the motor service may come from an interrupt, at any point of a
run. Code that touches shared words outside a critical section is split where it
loads and stores them: in `SchedulerStats` the update after a callback is two
steps, and with a reset between them each field takes the value made from the one
before or after the reset, or is wiped by it. Two
successive emptiness tests of the same condition are one step: with interrupts
only adding elements, every outcome of the pair is an outcome of one of the two
moments.

**Correspondence of state.** `Scheduler` has one function per field of
`sch_task_t`, indexed by slot; `fn` and `ctx` are the slot's identity. `pc`,
`now`, `executed`, `selected` are the locals of `sch_run`. `clock` is real time,
not reduced; the code sees it only as `U32(clock)`. `release`, `cycleStart`,
`ready`, `done`, `passed` are history variables that hold the real-time truth the
properties compare with, and no action's guard in the code's part reads them. In
the services serial numbers stand for payloads, and history counters say how many
elements went in and out since the last init. The descriptors and the link change
of `EthernetService` belong to the hardware: interrupts add to them and HAL calls take
from them, whether or not there is a queue, and no init touches them. Work that an
init cuts off from its event id, or that arrives before a queue exists, is counted in
the history variable `orphaned`.

**Conventions.** A definition commented "Faulty variant" is a plausible bug of
the definition that follows it. It is not part of the specification; substituting
it must make the property named in `PROJECT.json` fail.

## Runs

| Run | What it shows | Bounds, and why they suffice |
|---|---|---|
| `ring` | type correctness, exact drop counter, refinement of `BoundedFifo` | capacities 0 to 3, both modes and an invalid one, 9 pushes between inits: several turns of the indices, more drops than the counter (mod 4) can hold |
| `periodic` | grid, no early release, ready set, priority order, dense slots, round robin; the loops compute the selection definitions | 3-bit ticks from 6 to 10, so the counter wraps within the run; period 1, due at every tick, and periods and delays up to the half range, background tasks too; three slots, two priorities, tasks addable at every step |
| `stats` | exact counts and times, order of trace events | two slots, a periodic and a background task, ticks across the wrap, cycles until two executions are complete, resets and hook changes at every step |
| `records` | order, accounting, no stranded record, for FSI and IPC | rings of 1 and 2, 4 interrupts of three kinds, budgets 1 and 2, drop counter mod 3, failing and repeated inits |
| `uart` | accounting, room for the refused byte unless `queue_tx` took it, no ring with bytes in it passed over twice | RX and TX ring of 2 with 3 and 4 bytes, budgets below the backlog, half-failed inits, a refusal at every write |
| `motor` | fault latched, undisturbed run applies the command, fault loss counted, queued fault reaches the stop within as many runs as the queue has places | event queue of 2 with 3 events, feedback ring of 1, budgets 1 and 2, two speeds, a refusal at every HAL call |
| `eeprom` | accepted requests offered once and in turn, completions accounted for, nothing stranded | request ring of 2 with 4 requests, completion queue of 2 with 3 completions, budgets below the backlog, half-failed inits |
| `ethernet_app` | what stays in the hardware was overwritten and counted, or orphaned by an init or for want of a queue; latency bounded by the number of slots; no background task starves | two slots, a task of period 1 beside the service, queues of 0 to 2 ids with 2 interrupts before and after inits; time has no end |

Four runs are expected to end in a violation, each of a statement of the
repository (`findings` in `PROJECT.json` quotes it):

* `long_delay`: a start delay above half the tick range is released at once.
* `scheduler_misses`: `miss_count` counts releases of a task still pending when a cycle
  begins, and no pending flag outlives a cycle (`CycleServesReadySet`), so it stays 0
  (`CountsExact`). Trace: a task of period 1 is made pending at tick 6, ticks 7 and 8
  come before it is run, the next run serves 7 and skips 8. `MissesCounted` is strict
  about what it calls missed: the release came while the pending flag was set, and no
  run ever serves it.
* `stats_reset`: a callback that calls `sch_reset_stats` (a monitor task that reads
  and resets) wipes its own start tick, and its execution time becomes the tick
  value at its end. `TimesExact` says what is left: the counts are right, the last
  execution is right again after the next one, the maximum and the total stay
  wrong until the next reset.
* `uart_tx_order`: a refused byte goes to the back of the transmit ring and is
  overtaken. Trace: queue 1, queue 2, write of 1 refused, 2 sent, 1 sent.

More that the models make precise without a run of their own:

* A refused byte may be held back for ever. `EveryRunServes` gives it turn after turn,
  but a transmitter that takes other bytes and refuses this one at each of its turns,
  next to a producer that keeps the ring filled, never lets it go. The repository
  promises nothing of a byte's delivery, so no property claims it.
* A new motor command waits for an interrupt: a run with no hint and empty queues
  returns first (`src/services/motor_supervision_service.c:125`), while
  `docs/motor_supervision_service.md:16` says that the latest command "is applied each
  run". `CommandAppliedUndisturbed` is about the runs that go past that return.
* A background task is chosen at the end of every cycle by the ready set of its
  beginning, so it may run while a periodic task has become due; that task is run by
  the next cycle (`CycleServesReadySet`).
* The overflow case of `tests/unit/test_service_module_contracts.c:311` pushes RX, TX
  and link events into a queue of two and expects a TX count that is still 1. The queue
  drops the oldest, the RX event, so the code dispatches the TX event and the count
  is 2.

`MaxClock`, `MaxOffered`, `MaxIrqs`, `MaxRx`, `MaxTx`, `MaxRequests`,
`MaxCompletions`, `MaxEvents`, `MaxExecutions` bound counters that the program does
not bound. A successful re-init starts the interrupt counts again,
so sequences of epochs are covered; in `EthernetService` the orphans of earlier epochs
count against `MaxEvents`, since they stay. `EthernetApp` moves the origin of time back
by a whole turn of the tick counter when its clock is far enough on (`Rebase`), which the
code cannot see: its ticks go on for ever, and its periodic task of period 1 is due at
every one of them. The other runs' time ends at `MaxClock`. `EveryRunServes`,
`FaultWaitBounded` and `EventLatencyBounded` count runs or cycles, so they do not hold for
the reason that a bounded producer falls silent.

**Deadlock** is checked in every run: no state of a passing run's model is without a step.

**Fairness.** Weak fairness of the scheduler's main loop: the application calls
`sch_run` for ever and callbacks run to completion, the premise of a cooperative
scheduler (README, "Run-to-completion"). `EthernetApp` assumes nothing else: that
the service's task runs again and again is derived there from the scheduler
(`BackgroundTasksRun`). The other services are checked alone, with weak fairness of
their run. The UART service has no liveness property: `EveryRunServes` counts runs and
needs no fairness, and nothing is assumed of the transmitter. No fairness is
assumed of interrupts, `sch_add_task`, init or time.

**Assumption on polling.** `Tick` keeps every release younger than half the tick
range (`Polled`). This is the "usual half-range interval" in the comment of
`sch_time_reached`: an application whose cycle takes 2^31 ticks is outside the
model.

## Proofs

Every safety invariant and every action property of the passing runs is a theorem,
but `FaultWaitBounded`. A theorem holds for every value of the constants, so for every
capacity, budget, table size, counter width and number of interrupts; the bounds of the
runs do not enter. Each inductive invariant was checked with TLC on the configuration
of its run before it was proved.

**The ring (`SpscRingTheorems`).** What push, pop, init and reset do to the fields
(`PushEffect`, `PopEffect`, `InitEffect`, `ResetEffect`), to the sequence buffered
(`StoreAppends`, `PopTakesHead`), to the number of occurrences of one element
(`PushHowMany`, `PopHowMany`) and to the set of elements (`PushElements`,
`PopElements`). All rest on `RingOK`, in which head is `(tail + count) % capacity`
and every buffered slot holds a pushed element.

**`IsrBufferProofs`.**

* `RingTypeCorrect`, `RingDropAccounting`: the drop counter equals pushed minus
  popped minus buffered, modulo its width.
* `RingImplementsFifo`: `Spec => ImplementsFifo`. The mapping is `Contents`, the
  slots from tail on. The core is that storing at head appends, that discarding or
  popping takes the head of the sequence, and that the two commute on a full ring,
  where head and tail are the same slot.

**`SchedulerProofs`, default build.** Two inductive invariants.

* `TableInv`, for any arguments of `sch_add_task`: what does not depend on how ticks
  compare. It joins type correctness, `SlotsDense` and `PriorityOrder` with two facts
  the properties do not state. `RunInv`: the loop runs periodic tasks only, none
  twice, counts what it runs, and leaves no pending flag behind; so a task added
  meanwhile takes a slot the loop has neither run nor still to run, and the bound
  `MaxTasks` never ends the loop early. `PassedBehind`: a task that has run since
  task i did lies behind i in the scan order, so the scan meets i first. From it
  follow type correctness, dense slots, the priority order, `NoDoubleService` and
  `ScansAgree`, without hypotheses.
* `IInv`, for delays and periods of at most half the tick range
  (`HalfRangeArguments`; `long_delay` shows the hypothesis is needed). It adds
  `WithinHalfRange`: every release is within half a range of now, so signed
  differences of residues are true differences (`SignedDifference`,
  `TimeReachedExact`). And `CycleSample`: the entry tick is the residue of the
  cycle's start, and tasks still to be served were due then, so
  `sch_advance_next_release` yields the first grid point after the entry
  (`AdvanceExact`, `GridStep`). From it follow the grid, no early release and the
  ready set.

`SchedulerScansAgree` shows that the two selection loops stop with the tasks the
model picks by `CHOOSE`. The loops are recursive functions; what they compute after
n turns is proved for every n by the least n that would fail (`LeastNatural`), since
the library's induction rules are out of reach. The loop over pending tasks holds
the most urgent of the candidates seen so far, the lowest slot among equals
(`TurnFinds`, `PendingScanResult`). The loop over background tasks stops at the
first one at or after the cursor, around the end of the table, and so at the one
with the least offset (`TurnReaches`, `BackgroundScanResult`).

**`SchedulerProofs`, build with statistics and trace.**

* Every step of this build is a step of `Scheduler` or leaves the scheduler alone
  (`StatsStepRefines`, a consequence of how the module is composed). `TableInv`, and
  `IInv` under its hypothesis, therefore hold here too (`SchInv`,
  `SchedulerInvariant`), and the theorems below use them: that
  no pending flag outlives a cycle keeps `miss_count` at 0, and that releases are
  within half a range makes the overrun test exact (`OverrunExact`). Only
  `StatsCountsExact` assumes `HalfRangeArguments`, for the overrun counter.
* `StatsTypeCorrect`, `StatsCountsExact`, `StatsTraceOrder`, from `StatsInv`. The
  checked property speaks only of slots not in the middle of an update, so
  `StatsInv` says what the pending update will store: `LoadedInv` (an update no
  reset has hit works on the current counters), `CountPending` (one more run than
  stored), `RunningSlot` (the slot of a callback is in use, so no `sch_add_task`
  clears it), and `TraceInv` (what the hook heard last, by phase).
* `StatsTimesExact`: `StatsSpec /\ []ShortExecution => []TimesExact`, from `TimeInv`
  and `TimePending`. `ShortExecution` says that no callback lasts a full turn of the
  tick counter. `max_exec_ticks` of a longer one is its duration modulo 2^32, so
  the hypothesis cannot be dropped.

**Services.** In each, the checked accounts relate history counters to a ring, and
become inductive with the element between pop and callback added, and with a bound
on the loop counter at the pop.

* `RecordServicesProofs` (FSI and IPC at once): type correctness, `RecordsInOrder`,
  `NoSilentLoss`. `OrderInv`: the contents of the ring ascend, above what has left
  it and up to the last interrupt.
* `UartServiceProofs`: type correctness, `ByteAccounting`, `RequeueHasRoom`,
  `EveryRunServes`.
  `RoomInv`: a byte in flight was popped from a valid ring, where it left a place
  only `queue_tx` can have taken. `ByteAccounting` compares with the raw drop
  counter and so assumes fewer bytes between two inits than it can count
  (`MaxRx < SizeMod`, `MaxTx < SizeMod`); the invariants `RxInv` and `TxInv` state
  the account modulo the width and assume nothing. `ServesInv`: a run that meets a ring
  passed over once has its whole budget left for it.
* `MotorServiceProofs`: type correctness, `FaultLatched`,
  `CommandAppliedUndisturbed` (from `CommandStages`, what an undisturbed run has
  achieved at each stage), and `NoUncountedFaultLoss` for at most as many events
  between two inits as the drop counter counts (`MaxIrqs < SizeMod`).
* `I2cEepromServiceProofs`: type correctness, `AcceptedRequestsOfferedOnce`,
  `CompletionAccounting`. `RequestsInv`: the ring holds exactly the accepted
  requests not yet offered, in turn, because it turns away the newest.
* `EthernetProofs`, of the service under any scheduling: type correctness and
  `StrandedWorkIsCounted`. A push that overwrites an event of one kind moves one
  descriptor of that kind from owed to stranded, and counts one drop (`PushStep`); an
  init makes orphans of whatever is in the hardware; a dispatch finds its descriptor
  because no kind is owed more than the hardware has (`DispatchStep`). The firmware
  `AppSpec` runs the service as one of its schedulings (`FirmwareRunsService`), so
  both hold there, too.
* `EthernetProofs`, `EthernetEventLatencyBounded`: with `LatencyInv`, on top of the
  service's own invariant. Its core is `Turn`: the cycles the oldest event has waited
  and the slots between the cursor and the service make at most `MaxTasks`. A cycle
  that gives the turn to another background task adds one to the first and takes at
  least one from the second, because the scan never passes the service
  (`ServiceFirst` keeps it a background task in its slot). A cycle that gives the turn
  to the service starts the count anew, because a run that has popped once, or
  ended, has served the oldest event (`OldestServed`, `RunInCallback`). Periodic
  tasks and additions move neither. Needs only `AppAssumption`, at least one slot.

Assumed besides: the named `ASSUME`s on constants, which TLC evaluates in the runs,
and `Polled` in `Tick`.

Only model-checked: the liveness properties `EveryRecordServed`, `FaultReachesStop`,
`EveryRequestOffered`, `EveryCompletionHandled` and `BackgroundTasksRun`, and the bound
`FaultWaitBounded`. Leads-to under fairness is outside the proof system. For the Ethernet
and the UART service bounded forms are proved: `EventLatencyBounded` counts the cycles an
event can wait, `EveryRunServes` the runs that pass over a ring.

## Not modelled

* NULL arguments and zero budgets: the code returns before it changes anything.
  `sch_add_task` on a full table likewise.
* The examples: demonstration programs on a host port with canned data.
* `sch_init` or a nested `sch_run` from inside a task callback, and interrupts
  that arrive in the middle of a service's init.
* The timestamps of trace events, and a hook replaced between the test of the
  pointer and the call: an event is one step.
* A snapshot of `sch_get_task_stats` taken by an interrupt inside the update of the
  same slot: it is torn, and the properties exclude it (`Readable`).
* Two callers of `set_command` that interrupt each other.
* Memory ordering: critical sections are taken as atomic. A port that masks too
  little breaks the contract and is not described.

## Plan

Modelled: every component but the examples and the internals of a port. Proved:
every safety invariant and action property that the passing runs check, but
`FaultWaitBounded`. Left to the
model checker: liveness, that bound, and the runs that show where the code departs from its
documentation.
