\* ext2fs_extent_insert straight after ext2fs_extent_open.
CONSTANTS
  NULL = NULL
  BlockSize = 64
  Addrs <- MCAddrs
  Trees <- FlatTrees
  ImageMode = FALSE
  AllocFaults = FALSE
  ReadWrite = TRUE
  InodesCount = 1
  InodeNums = {1}
  Calls = {"open", "insert"}
  GetOps = {}
  GotoBlocks = {}
  NewExtents <- SomeExtents
  MaxIOErrors = 0
  MaxOpens = 1
  MaxRetries = 8
  MaxMutations = 1
INIT Init
NEXT Next
CHECK_DEADLOCK FALSE
INVARIANT NoOverflow
