\* A task of every tick whose callback takes two: the release that comes first
\* while the other task is pending is served late, the next one never.
CONSTANTS
  HalfRange = 4
  MaxTasks = 2
  LowestPriority = 2
  Periods = {1}
  Delays = {0}
  Priorities = {0}
  StartClock = 6
  MaxClock = 9
  MaxExecutions = 3
SPECIFICATION MissesSpec
INVARIANTS MissesCounted
