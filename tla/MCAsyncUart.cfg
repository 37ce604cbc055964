SPECIFICATION Spec
CONSTANTS
  Size = 3
  FifoSize = 1
  MaxPut = 5
  MaxRecv = 5
INVARIANTS RxExact TxExact NothingRepeated
PROPERTIES WritesTaken ReceiverServed
CHECK_DEADLOCK FALSE
