SPECIFICATION Spec
CONSTANTS
  FatBlocks = 2
  PerBlock = 5
  RootChain <- MCShortChain
  SubDir = 3
  DirSlots = 3
  MAX_DIR_NUM = 2
  Stems = {"d"}
  BlockLen = 1
  Values = {1}
  MaxBoots = 1
  MaxNodes = 4
INVARIANTS NewClusterFree
CHECK_DEADLOCK FALSE
