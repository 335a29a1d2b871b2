CONSTANTS
  NULL = NULL
  BlockSize = 64
  Addrs <- MCAddrs
  Trees <- ShallowTrees
  ImageMode = FALSE
  AllocFaults = TRUE
  ReadWrite = TRUE
  InodesCount = 1
  InodeNums = {0, 1}
  Calls = {"open", "free", "get", "replace", "insert", "delete"}
  GetOps = {"ROOT", "NEXT_LEAF", "UP", "DOWN", "PREV"}
  GotoBlocks = {}
  NewExtents <- SomeExtents
  MaxIOErrors = 1
  MaxOpens = 1
  MaxRetries = 8
  MaxMutations = 2
INIT Init
NEXT Next
CHECK_DEADLOCK FALSE
INVARIANT TypeOK
PROPERTY InsertRollbackRestores
PROPERTY InsertDeleteDurable
