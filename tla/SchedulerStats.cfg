\* A periodic and a background task in any order, callbacks that take time
\* across the wrap of the tick counter at real time 8, and resets and hook
\* changes at every moment.
CONSTANTS
  HalfRange = 4
  MaxTasks = 2
  LowestPriority = 2
  Periods = {0, 2}
  Delays = {0}
  Priorities = {0}
  StartClock = 6
  MaxClock = 9
  MaxExecutions = 2
SPECIFICATION StatsSpec
INVARIANTS StatsTypeOK CountsExact TimesExact
PROPERTIES TraceOrder
