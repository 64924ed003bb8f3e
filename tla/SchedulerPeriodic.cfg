\* Three tasks, periodic or background, added at any moment, on a 3-bit tick
\* counter that wraps at real time 8.  A delay and a period of exactly
\* HalfRange are the largest the arithmetic allows; period 3 does not divide
\* the counter's range and a long cycle makes it skip releases.
CONSTANTS
  HalfRange = 4
  MaxTasks = 3
  LowestPriority = 2
  Periods = {0, 1, 3, 4}
  Delays = {0, 4}
  Priorities = {0, 1}
  StartClock = 6
  MaxClock = 10
SPECIFICATION Spec
INVARIANTS TypeOK SlotsDense ReleaseOnGrid NoEarlyRelease CycleServesReadySet PriorityOrder
PROPERTIES NoDoubleService ScansAgree
