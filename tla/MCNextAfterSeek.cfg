\* NEXT_LEAF after ext2fs_extent_goto, which descends without marking
\* the interior frames visited.
CONSTANTS
  NULL = NULL
  BlockSize = 64
  Addrs <- MCAddrs
  Trees <- WellFormedTrees
  ImageMode = FALSE
  AllocFaults = FALSE
  ReadWrite = FALSE
  InodesCount = 1
  InodeNums = {1}
  Calls = {"open", "get", "goto"}
  GetOps = {"NEXT_LEAF"}
  GotoBlocks <- SeekBlocks
  NewExtents = {}
  MaxIOErrors = 0
  MaxOpens = 1
  MaxRetries = 8
  MaxMutations = 0
INIT Init
NEXT Next
PROPERTY NextLeafIsSuccessor
