\* Rings of one and two records, smaller than the interrupt burst; budgets
\* below, at and above the ring; both overflow modes; inits that succeed or
\* fail at any time; a drop counter that wraps.
CONSTANTS
  Tags = {"RX", "TX", "ERROR", "NOTIFY", "ACK", "FAULT"}
  Items <- Records
  NoItem = NoItem
  SizeMod = 3
  Capacities = {0, 1, 2}
  Modes = {"SCH_OVERFLOW_DROP_NEWEST", "SCH_OVERFLOW_DROP_OLDEST"}
  Budgets = {0, 1, 2}
  MaxIrqs = 4
SPECIFICATION RecordSpec
INVARIANTS TypeOK RecordsInOrder NoSilentLoss
PROPERTIES EveryRecordServed
