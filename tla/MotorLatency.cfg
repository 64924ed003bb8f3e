\* Event bursts larger than their queue, budgets smaller and larger than the
\* backlog, commands and HAL refusals at any time, inits that succeed or fail
\* for the event queue alone.
CONSTANTS
  Items <- MotorItems
  NoItem = NoItem
  SizeMod = 16
  FeedbackCapacities = {1}
  EventCapacities = {0, 2}
  FeedbackBudgets = {1}
  EventBudgets = {0, 1, 2}
  Speeds = {0, 1}
  MaxIrqs = 3
SPECIFICATION LatencySpec
INVARIANTS TypeOK FaultLatched CommandAppliedUndisturbed NoUncountedFaultLoss FaultWaitBounded
PROPERTIES FaultReachesStop
