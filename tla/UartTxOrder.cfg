\* Two bytes and a transmitter that refuses the first one once.
CONSTANTS
  Items <- Bytes
  NoItem = NoItem
  SizeMod = 16
  RxCapacities = {1}
  TxCapacities = {2}
  RxBudgets = {1}
  TxBudgets = {1}
  MaxRx = 1
  MaxTx = 2
SPECIFICATION Spec
PROPERTIES TxInOrder
