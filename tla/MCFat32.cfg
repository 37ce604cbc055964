SPECIFICATION Spec
CONSTANTS
  FatBlocks = 1
  PerBlock = 7
  RootChain <- MCRootChain
  SubDir = 3
  DirSlots = 2
  MAX_DIR_NUM = 2
  Stems = {"d", "e"}
  BlockLen = 1
  Values = {1}
  MaxBoots = 3
  MaxNodes = 5
INVARIANTS AckedDurable CrossLinksTorn ScanFits
CHECK_DEADLOCK FALSE
