\* Descent through an index record whose ei_leaf_hi is not zero.
CONSTANTS
  NULL = NULL
  BlockSize = 64
  Addrs <- MCAddrs
  Trees <- HighTrees
  ImageMode = FALSE
  AllocFaults = FALSE
  ReadWrite = FALSE
  InodesCount = 1
  InodeNums = {1}
  Calls = {"open", "get"}
  GetOps = {"NEXT_LEAF"}
  GotoBlocks = {}
  NewExtents = {}
  MaxIOErrors = 0
  MaxOpens = 1
  MaxRetries = 8
  MaxMutations = 0
INIT Init
NEXT Next
CHECK_DEADLOCK FALSE
INVARIANT PathFollowsIndex
