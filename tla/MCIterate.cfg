\* Forward and backward leaf iteration over well-formed trees of depth
\* 0, 1 and 2, mixed with sibling moves, UP, ROOT and CURRENT, with one
\* failed block or inode read or one failed allocation.
CONSTANTS
  NULL = NULL
  BlockSize = 64
  Addrs <- MCAddrs
  Trees <- WellFormedTrees
  ImageMode = FALSE
  AllocFaults = TRUE
  ReadWrite = FALSE
  InodesCount = 1
  InodeNums = {1}
  Calls = {"open", "get", "info"}
  GetOps <- ForwardMoves
  GotoBlocks = {}
  NewExtents = {}
  MaxIOErrors = 1
  MaxOpens = 2
  MaxRetries = 8
  MaxMutations = 0
INIT Init
NEXT Next
INVARIANT CursorFrames
INVARIANT PathFollowsIndex
INVARIANT HeaderMatchesFrame
PROPERTY NextLeafIsSuccessor
PROPERTY PrevLeafIsPredecessor
PROPERTY ImplementsTour
