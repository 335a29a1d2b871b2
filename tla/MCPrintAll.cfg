\* print_all's four walks, started wherever generic_goto_node and goto_block
\* left the cursor, on well-formed trees of depth 0, 1 and 2, with one failed
\* block or inode read and the file system read-only: each walk ends, and one
\* started at the root prints the whole tree in order.
CONSTANTS
  NULL = NULL
  BlockSize = 64
  Addrs <- MCAddrs
  Trees <- WellFormedTrees
  ImageMode = FALSE
  AllocFaults = FALSE
  ReadWrite = FALSE
  InodesCount = 1
  InodeNums = {1}
  Calls = {}
  GetOps <- CursorMoves
  GotoBlocks = {18}
  NewExtents = {}
  MaxIOErrors = 1
  MaxOpens = 1
  MaxRetries = 8
  MaxMutations = 0
  Commands <- AllCommands
  PrintModes <- AllWalks
  MaxPrint = 16
SPECIFICATION DebugfsSpec
PROPERTY PrintAllOrder
PROPERTY PrintAllTerminates
