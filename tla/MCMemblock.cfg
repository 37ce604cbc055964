SPECIFICATION BootSpec
CONSTANTS
  Word = 2
  PhysMax = 14
  MaxRegions = 4
  KernelEnd = 2
  HeaderSize = 1
  Archives <- MCArchives
  Sizes = {0, 1, 2, 5}
  Aligns = {1, 4}
  MaxCalls = 2
INVARIANTS ReservedExact ArrayBounded
PROPERTIES AllocIsFresh SearchEnds
CHECK_DEADLOCK FALSE
