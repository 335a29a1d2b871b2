\* ext2fs_extent_replace while the write-back of the changed node fails.
CONSTANTS
  NULL = NULL
  BlockSize = 64
  Addrs <- MCAddrs
  Trees <- ShallowTrees
  ImageMode = FALSE
  AllocFaults = FALSE
  ReadWrite = TRUE
  InodesCount = 1
  InodeNums = {1}
  Calls = {"open", "get", "replace"}
  GetOps = {"NEXT_LEAF"}
  GotoBlocks = {}
  NewExtents <- SomeExtents
  MaxIOErrors = 1
  MaxOpens = 1
  MaxRetries = 8
  MaxMutations = 1
INIT Init
NEXT Next
CHECK_DEADLOCK FALSE
PROPERTY ReplaceDurable
