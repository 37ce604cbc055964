SPECIFICATION Spec
CONSTANTS
  NR_TASKS = 2
  Signals = {1}
  KthreadPriorities = {}
  MaxForks = 1
  MaxFrames = 3
INVARIANT SigreturnRestores
CHECK_DEADLOCK FALSE
