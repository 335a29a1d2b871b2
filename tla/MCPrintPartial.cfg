\* print_all --reverse-leaf after next_leaf has left the cursor in the first
\* leaf block: LAST_LEAF goes to the last extent of that block only.
CONSTANTS
  NULL = NULL
  BlockSize = 64
  Addrs <- MCAddrs
  Trees <- DeepTrees
  ImageMode = FALSE
  AllocFaults = FALSE
  ReadWrite = FALSE
  InodesCount = 1
  InodeNums = {1}
  Calls = {}
  GetOps = {"NEXT_LEAF"}
  GotoBlocks = {}
  NewExtents = {}
  MaxIOErrors = 0
  MaxOpens = 1
  MaxRetries = 8
  MaxMutations = 1
  Commands = {"inode", "goto_node", "print_all"}
  PrintModes = {"PREV_LEAF"}
  MaxPrint = 20
SPECIFICATION DebugfsSpec
PROPERTY PrintAllComplete
CHECK_DEADLOCK FALSE
