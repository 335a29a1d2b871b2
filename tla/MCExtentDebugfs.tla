-------------------------- MODULE MCExtentDebugfs --------------------------
(***************************************************************************)
(* The tst_extents console over the trees of MCExtentHandle.              *)
(***************************************************************************)
EXTENDS ExtentDebugfs, MCExtentHandle

\* Every console command of the model.
AllCommands == {"inode", "goto_node", "delete", "replace", "insert",
                "print_all", "info", "goto_block"}
\* The walks of print_all with each of its options.
AllWalks == {"NEXT", "NEXT_LEAF", "PREV", "PREV_LEAF"}
\* Moves that leave the cursor at each level and in each subtree.
CursorMoves == {"NEXT_LEAF", "DOWN", "UP", "NEXT_SIB"}
=============================================================================
