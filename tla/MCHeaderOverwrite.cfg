\* Deletes that empty the root, LAST_SIB, then replace.
CONSTANTS
  NULL = NULL
  BlockSize = 64
  Addrs <- MCAddrs
  Trees <- FlatTrees
  ImageMode = FALSE
  AllocFaults = FALSE
  ReadWrite = TRUE
  InodesCount = 1
  InodeNums = {1}
  Calls = {"open", "get", "delete", "replace"}
  GetOps = {"LAST_SIB"}
  GotoBlocks = {}
  NewExtents <- SomeExtents
  MaxIOErrors = 0
  MaxOpens = 1
  MaxRetries = 8
  MaxMutations = 4
INIT Init
NEXT Next
CHECK_DEADLOCK FALSE
INVARIANT OnDiskTreeVerifies
