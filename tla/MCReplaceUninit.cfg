\* ext2fs_extent_replace of an uninitialized extent, read back.
CONSTANTS
  NULL = NULL
  BlockSize = 64
  Addrs <- MCAddrs
  Trees <- ShallowTrees
  ImageMode = FALSE
  AllocFaults = FALSE
  ReadWrite = TRUE
  InodesCount = 1
  InodeNums = {1}
  Calls = {"open", "get", "replace"}
  GetOps = {"NEXT_LEAF"}
  GotoBlocks = {}
  NewExtents <- UninitExtents
  MaxIOErrors = 0
  MaxOpens = 1
  MaxRetries = 8
  MaxMutations = 1
INIT Init
NEXT Next
CHECK_DEADLOCK FALSE
PROPERTY ReplaceRoundTrip
