\* Leaf iteration from the root with one failed block read, and the
\* NEXT_LEAF a caller would retry from the handle that failure leaves.
CONSTANTS
  NULL = NULL
  BlockSize = 64
  Addrs <- MCAddrs
  Trees <- DeepTrees
  ImageMode = FALSE
  AllocFaults = FALSE
  ReadWrite = FALSE
  InodesCount = 1
  InodeNums = {1}
  Calls = {"open", "get"}
  GetOps = {"ROOT", "NEXT_LEAF"}
  GotoBlocks = {}
  NewExtents = {}
  MaxIOErrors = 1
  MaxOpens = 1
  MaxRetries = 8
  MaxMutations = 0
INIT Init
NEXT Next
CHECK_DEADLOCK FALSE
PROPERTY NextLeafResumes
