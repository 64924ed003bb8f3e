\* A reset while a callback runs.
CONSTANTS
  HalfRange = 4
  MaxTasks = 1
  LowestPriority = 2
  Periods = {0}
  Delays = {0}
  Priorities = {0}
  StartClock = 2
  MaxClock = 4
  MaxExecutions = 1
SPECIFICATION StatsSpec
INVARIANTS LastExecIsDuration
