SPECIFICATION Spec
CONSTANTS
  MaxOrder = 3
  NrPages = 12
  Pow2 <- MCPow2
  PageSize = 4
  ReservedRegions <- LastPages
  StalePages <- ZeroedRam
INVARIANTS NoOverlap NoPageLost ReservedNeverHeld BuddyCheckSound Coalesced
PROPERTIES FailsOnlyWhenEmpty OperationsEnd KeepsPromise
