SPECIFICATION Spec
CONSTANTS
  NR_TASKS = 3
  Signals = {}
  KthreadPriorities = {2}
  MaxForks = 3
  MaxFrames = 1
INVARIANTS NumRunningExact CountersBounded
PROPERTIES NeverSwitchToStopped NoStarvation
CHECK_DEADLOCK FALSE
