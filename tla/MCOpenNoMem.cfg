\* Opening the inode while heap allocations may fail.
CONSTANTS
  NULL = NULL
  BlockSize = 64
  Addrs <- MCAddrs
  Trees <- FlatTrees
  ImageMode = FALSE
  AllocFaults = TRUE
  ReadWrite = FALSE
  InodesCount = 1
  InodeNums = {1}
  Calls = {"open"}
  GetOps = {}
  GotoBlocks = {}
  NewExtents = {}
  MaxIOErrors = 1
  MaxOpens = 1
  MaxRetries = 8
  MaxMutations = 0
INIT Init
NEXT Next
CHECK_DEADLOCK FALSE
INVARIANT NoCrash
