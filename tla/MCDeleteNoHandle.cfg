\* delete_node typed before any inode command, on a read-write file system.
CONSTANTS
  NULL = NULL
  BlockSize = 64
  Addrs <- MCAddrs
  Trees <- FlatTrees
  ImageMode = FALSE
  AllocFaults = FALSE
  ReadWrite = TRUE
  InodesCount = 1
  InodeNums = {1}
  Calls = {}
  GetOps = {}
  GotoBlocks = {}
  NewExtents = {}
  MaxIOErrors = 0
  MaxOpens = 1
  MaxRetries = 8
  MaxMutations = 1
  Commands = {"delete"}
  PrintModes = {}
  MaxPrint = 20
SPECIFICATION DebugfsSpec
INVARIANT NoCrash
CHECK_DEADLOCK FALSE
