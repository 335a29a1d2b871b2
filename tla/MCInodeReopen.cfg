\* The inode command typed twice: the first handle is never freed.
CONSTANTS
  NULL = NULL
  BlockSize = 64
  Addrs <- MCAddrs
  Trees <- FlatTrees
  ImageMode = FALSE
  AllocFaults = FALSE
  ReadWrite = FALSE
  InodesCount = 1
  InodeNums = {1}
  Calls = {}
  GetOps = {}
  GotoBlocks = {}
  NewExtents = {}
  MaxIOErrors = 0
  MaxOpens = 2
  MaxRetries = 8
  MaxMutations = 1
  Commands = {"inode"}
  PrintModes = {}
  MaxPrint = 20
SPECIFICATION DebugfsSpec
INVARIANT NoLeak
CHECK_DEADLOCK FALSE
