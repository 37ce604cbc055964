SPECIFICATION Spec
CONSTANTS
  NR_TASKS = 3
  PageSize = 8
  Levels = 3
  Fanout = 4
  NrFrames = 40
  StackSize = 16
  FileSizes = {65}
  FileAlign = 4
  Values = {1}
  MaxStores = 0
INVARIANTS Isolation
CHECK_DEADLOCK FALSE
