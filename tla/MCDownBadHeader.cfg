\* Leaf iteration into a leaf block whose header fails verification.
CONSTANTS
  NULL = NULL
  BlockSize = 64
  Addrs <- MCAddrs
  Trees <- LostLeafTrees
  ImageMode = FALSE
  AllocFaults = FALSE
  ReadWrite = FALSE
  InodesCount = 1
  InodeNums = {1}
  Calls = {"open", "get"}
  GetOps = {"NEXT_LEAF"}
  GotoBlocks = {}
  NewExtents = {}
  MaxIOErrors = 0
  MaxOpens = 1
  MaxRetries = 8
  MaxMutations = 0
INIT Init
NEXT Next
CHECK_DEADLOCK FALSE
INVARIANT HeaderMatchesFrame
