SPECIFICATION Spec
CONSTANTS
  NR_TASKS = 2
  Signals = {9}
  KthreadPriorities = {}
  MaxForks = 2
  MaxFrames = 4
INVARIANTS TypeOK HandlerAboveItsFrame NoFrameSkipped
PROPERTIES SignalDelivered
CHECK_DEADLOCK FALSE
