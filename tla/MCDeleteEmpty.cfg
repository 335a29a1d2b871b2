\* Deletes that empty a leaf, and moves back into it.
CONSTANTS
  NULL = NULL
  BlockSize = 64
  Addrs <- MCAddrs
  Trees <- ShallowTrees
  ImageMode = FALSE
  AllocFaults = FALSE
  ReadWrite = TRUE
  InodesCount = 1
  InodeNums = {1}
  Calls = {"open", "get", "delete"}
  GetOps = {"NEXT_LEAF", "UP", "DOWN"}
  GotoBlocks = {}
  NewExtents = {}
  MaxIOErrors = 0
  MaxOpens = 1
  MaxRetries = 8
  MaxMutations = 3
INIT Init
NEXT Next
CHECK_DEADLOCK FALSE
INVARIANT NoCrash
