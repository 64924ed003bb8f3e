\* A start delay longer than half the tick range.
CONSTANTS
  HalfRange = 4
  MaxTasks = 2
  LowestPriority = 2
  Periods = {2}
  Delays = {0, 5}
  Priorities = {0}
  StartClock = 0
  MaxClock = 8
SPECIFICATION Spec
INVARIANTS NoEarlyRelease
