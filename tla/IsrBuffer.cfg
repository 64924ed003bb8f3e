\* Every history of a ring of up to three slots, both overflow modes, with a
\* drop counter that wraps after four.
CONSTANTS
  Items = {a, b, c}
  NoItem = NoItem
  SizeMod = 4
  Capacities = {0, 1, 2, 3}
  Modes = {"SCH_OVERFLOW_DROP_NEWEST", "SCH_OVERFLOW_DROP_OLDEST", "out_of_range"}
  MaxOffered = 9
SPECIFICATION Spec
INVARIANTS TypeOK DropAccounting
PROPERTIES ImplementsFifo
