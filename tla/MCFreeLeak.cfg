\* ext2fs_extent_free after a walk that read the leaf level.
CONSTANTS
  NULL = NULL
  BlockSize = 64
  Addrs <- MCAddrs
  Trees <- ShallowTrees
  ImageMode = FALSE
  AllocFaults = FALSE
  ReadWrite = FALSE
  InodesCount = 1
  InodeNums = {1}
  Calls = {"open", "get", "free"}
  GetOps = {"NEXT_LEAF"}
  GotoBlocks = {}
  NewExtents = {}
  MaxIOErrors = 0
  MaxOpens = 1
  MaxRetries = 8
  MaxMutations = 0
INIT Init
NEXT Next
CHECK_DEADLOCK FALSE
INVARIANT NoLeak
