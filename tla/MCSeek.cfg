\* Seeks, explicit descents and backward iteration over well-formed
\* trees of depth 0, 1 and 2, with one failed block or inode read or one
\* failed allocation (a second open is left for an open that failed).
CONSTANTS
  NULL = NULL
  BlockSize = 64
  Addrs <- MCAddrs
  Trees <- WellFormedTrees
  ImageMode = FALSE
  AllocFaults = TRUE
  ReadWrite = FALSE
  InodesCount = 1
  InodeNums = {1}
  Calls = {"open", "get", "goto"}
  GetOps <- ReverseMoves
  GotoBlocks <- SeekBlocks
  NewExtents = {}
  MaxIOErrors = 1
  MaxOpens = 2
  MaxRetries = 8
  MaxMutations = 0
INIT Init
NEXT Next
INVARIANT CursorFrames
INVARIANT PathFollowsIndex
PROPERTY PrevLeafIsPredecessor
PROPERTY GotoLocates
PROPERTY ImplementsTour
