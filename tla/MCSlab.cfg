SPECIFICATION Spec
CONSTANTS
  PageSize = 8
  NrPages = 3
  MaxOrder = 2
  Pow2 <- MCPow2
  NrObjects = 2
  MinObject = 2
  Sizes = {1, 3, 5, 8, 16}
  MaxLive = 4
INVARIANTS FreelistExact KfreeNeverHangs
PROPERTIES ReusesFreed KeepsPromise
CHECK_DEADLOCK FALSE
