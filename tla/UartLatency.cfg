\* Transmit bursts larger than the ring, bytes queued by tasks and by
\* interrupts in the middle of a run, refused writes, budgets below the
\* backlog, inits that succeed, fail or half fail.
CONSTANTS
  Items <- Bytes
  NoItem = NoItem
  SizeMod = 16
  RxCapacities = {0, 2}
  TxCapacities = {0, 2}
  RxBudgets = {1}
  TxBudgets = {0, 1, 2}
  MaxRx = 3
  MaxTx = 4
SPECIFICATION LatencySpec
INVARIANTS TypeOK ByteAccounting RequeueHasRoom EveryRunServes
