\* Two task slots: the service and one other task of either kind, which may
\* be due all the time.  A queue of one or two ids with two interrupts.
CONSTANTS
  Items <- EventIds
  NoItem = NoItem
  SizeMod = 2
  EventCapacities = {0, 1, 2}
  EventBudgets = {1}
  MaxEvents = 2
  HalfRange = 2
  MaxTasks = 2
  LowestPriority = 0
  Periods = {0, 1}
  Delays = {0}
  Priorities = {0}
  StartClock = 3
  MaxClock = 8
SPECIFICATION AppSpec
INVARIANTS TypeOK StrandedWorkIsCounted EventLatencyBounded
PROPERTIES BackgroundTasksRun
