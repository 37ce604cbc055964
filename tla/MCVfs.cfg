SPECIFICATION Spec
CONSTANTS
  Tasks = {1, 2}
  FirstTask = 1
  Files = {f1, f2}
  Names = {"", "i", "d", "f", "g"}
  Paths <- MCPaths
  Values = {"x"}
  Archive <- MCArchive
  FD_TABLE_SIZE = 1
  MAX_DIR_NUM = 2
  MaxData = 2
  MaxNodes = 7
INVARIANTS TreeSound PosWithinSize
PROPERTIES OpenMeetsLookup MountTakesEffect
SYMMETRY FileSymmetry
CHECK_DEADLOCK FALSE
