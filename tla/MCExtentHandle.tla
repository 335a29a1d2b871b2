--------------------------- MODULE MCExtentHandle ---------------------------
(***************************************************************************)
(* Small extent trees for ExtentHandle. Blocks are 64 bytes, so a block   *)
(* node holds 4 records like the 60-byte root (its eh_max may be 2..4).   *)
(* Logical blocks are small integers; the holes between extents, the      *)
(* subtree boundaries and the uninit length encoding are all present.     *)
(***************************************************************************)
EXTENDS ExtentHandle

MCAddrs == {0, 1} \X (0 .. 5)

Node(depth, max, cap, recs) ==
  [magic |-> EXT3_EXT_MAGIC, entries |-> Len(recs), max |-> max, depth |-> depth,
   slot |-> [i \in 0 .. cap - 1 |-> IF i < Len(recs) THEN recs[i + 1] ELSE ZeroRec]]
RootNode(depth, recs) == Node(depth, RootSlots, RootSlots, recs)
BlockNode(depth, recs) == Node(depth, BlockSlots, BlockSlots, recs)
Ext(b, l, p) == Rec(b, l, 0, p)          \* an extent at physical block p
Idx(b, a) == Rec(b, 0, a[1], a[2])       \* an index record pointing at a

\* The device: the given blocks, zeroes elsewhere.
Device(blocks) == [a \in MCAddrs |-> IF a \in DOMAIN blocks THEN blocks[a]
                                     ELSE ZeroNode(BlockSlots)]
FS(depth, rootRecs, blocks, endBlk) ==
  [inode |-> [extents |-> TRUE, size |-> endBlk * BlockSize,
              root |-> RootNode(depth, rootRecs), clobbered |-> FALSE],
   disk  |-> Device(blocks)]

\* Depth 0: three extents in the inode, the last one uninitialized
\* (ee_len = 32768 + 5).
Tree0 == FS(0, <<Ext(0, 4, 100), Ext(8, 4, 108), Ext(12, 32773, 112)>>,
            <<>>, 17)

\* Depth 1: two leaf blocks, holes at 12..15 and 24..27.
Tree1 == FS(1, <<Idx(0, <<0, 1>>), Idx(16, <<0, 2>>)>>,
            (<<0, 1>> :> BlockNode(0, <<Ext(0, 4, 100), Ext(4, 8, 104)>>)) @@
            (<<0, 2>> :> BlockNode(0, <<Ext(16, 8, 200), Ext(28, 2, 208)>>)),
            30)

\* Depth 2: an interior level between the root and the leaves.
Tree2 == FS(2, <<Idx(0, <<0, 3>>), Idx(28, <<0, 4>>)>>,
            (<<0, 3>> :> BlockNode(1, <<Idx(0, <<0, 1>>), Idx(16, <<0, 2>>)>>)) @@
            (<<0, 4>> :> BlockNode(1, <<Idx(28, <<0, 5>>)>>)) @@
            (<<0, 1>> :> BlockNode(0, <<Ext(0, 4, 100), Ext(4, 8, 104)>>)) @@
            (<<0, 2>> :> BlockNode(0, <<Ext(16, 8, 200)>>)) @@
            (<<0, 5>> :> BlockNode(0, <<Ext(28, 2, 300), Ext(32, 4, 302)>>)),
            36)

\* Depth 1, its one index record pointing to block <<1, 1>> (ei_leaf_hi 1);
\* block <<0, 1>> holds a leaf of some other file.
TreeHigh == FS(1, <<Idx(0, <<1, 1>>)>>,
               (<<1, 1>> :> BlockNode(0, <<Ext(0, 4, 100)>>)) @@
               (<<0, 1>> :> BlockNode(0, <<Ext(0, 4, 900)>>)),
               4)

\* Tree1 with its second leaf block lost: <<0, 2>> reads as zeroes, whose
\* header fails ext2fs_extent_header_verify.
TreeLostLeaf == FS(1, <<Idx(0, <<0, 1>>), Idx(16, <<0, 2>>)>>,
                   <<0, 1>> :> BlockNode(0, <<Ext(0, 4, 100), Ext(4, 8, 104)>>),
                   30)

\* Tree1 with i_size ending at block 8: the extents from 16 on lie past
\* EOF (preallocated), and so does the root's second index record.
TreePastEOF == FS(1, <<Idx(0, <<0, 1>>), Idx(16, <<0, 2>>)>>,
                  (<<0, 1>> :> BlockNode(0, <<Ext(0, 4, 100), Ext(4, 8, 104)>>)) @@
                  (<<0, 2>> :> BlockNode(0, <<Ext(16, 8, 200), Ext(28, 2, 208)>>)),
                  8)

WellFormedTrees == {Tree0, Tree1, Tree2}
HighTrees == {TreeHigh}
FlatTrees == {Tree0}
ShallowTrees == {Tree0, Tree1}
LostLeafTrees == {TreeLostLeaf}
PastEOFTrees == {TreePastEOF}
DeepTrees == {Tree1}
\* A new extent whose start block <<0, 5>> is a free block of Tree0 and
\* Tree1 (its content there reads as zeroes), and whose length (e_len is a
\* __u32) does not fit the 16-bit ee_len it is stored in.
NewExt(b, l, p, u) == [lblk |-> b, len |-> l, hi |-> 0, lo |-> p, uninit |-> u]
SomeExtents == {NewExt(40, 65538, 5, FALSE)}
\* An uninitialized extent of 5 blocks.
UninitExtents == {NewExt(40, 5, 5, TRUE)}
AllMoves == MoveOps
\* The moves that keep visit_num in step with the cursor: every move but
\* the explicit descents and LAST_LEAF (extent.c lines 270-272, 386-446).
ForwardMoves == MoveOps \ {"DOWN", "DOWN_AND_LAST", "LAST_LEAF"}
\* Every move but the two forward iterations.
ReverseMoves == MoveOps \ {"NEXT", "NEXT_LEAF"}
SeekBlocks == {2, 6, 13, 18, 26, 29, 33, 40}
=============================================================================
