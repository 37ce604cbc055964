SPECIFICATION Spec
CONSTANTS
  NR_TASKS = 3
  PageSize = 4
  Levels = 3
  Fanout = 4
  NrFrames = 44
  StackSize = 8
  FileSizes = {3, 5}
  FileAlign = 2
  Values = {1}
  MaxStores = 1
INVARIANTS Isolation
PROPERTIES LaunchSees
CHECK_DEADLOCK FALSE
