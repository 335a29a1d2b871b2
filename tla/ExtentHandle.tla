---------------------------- MODULE ExtentHandle ----------------------------
(***************************************************************************)
(* The extent-tree engine of lib/ext2fs/extent.c: an extent handle opened *)
(* on one inode, the cursor it keeps (a stack of path frames, one per     *)
(* tree level), the cursor moves of ext2fs_extent_get, the seek of        *)
(* ext2fs_extent_goto, and the in-place mutations replace / insert /      *)
(* delete with their write-back (update_path) to the inode or to a block. *)
(*                                                                         *)
(* Every API call is one atomic action: the engine is single threaded per *)
(* handle and its loops (the retry label of ext2fs_extent_get, the while  *)
(* loop of extent_goto) are RECURSIVE operators over a call-state record  *)
(* st that threads the handle, the on-disk state and the fault plan.      *)
(***************************************************************************)
EXTENDS Integers, Sequences, FiniteSets, SequencesExt

CONSTANTS
  NULL,         \* the C null pointer: path->curr = 0, no buffer, root location
  BlockSize,    \* fs->blocksize, in bytes
  Addrs,        \* block addresses of the device, as <<hi16, lo32>> pairs
  Trees,        \* initial file systems: [inode |-> DiskInode, disk |-> block map]
  ImageMode,    \* (fs->flags & EXT2_FLAG_IMAGE_FILE) && fs->io != fs->image_io
  AllocFaults,  \* whether ext2fs_get_mem may fail (counted in MaxIOErrors)
  ReadWrite,    \* fs->flags & EXT2_FLAG_RW
  InodesCount,  \* fs->super->s_inodes_count; the modelled inode is number 1
  InodeNums,    \* inode numbers passed to ext2fs_extent_open
  Calls,        \* the API calls the client makes in this model
  GetOps,       \* the move operations passed to ext2fs_extent_get
  GotoBlocks,   \* logical blocks passed to ext2fs_extent_goto
  NewExtents,   \* extents passed to ext2fs_extent_replace / _insert
  MaxIOErrors,  \* bound on injected I/O failures over a behaviour
  MaxOpens,     \* bound on ext2fs_extent_open calls over a behaviour
  MaxRetries,   \* bound on passes of the retry / seek loops in one call
  MaxMutations  \* bound on replace / insert / delete calls over a behaviour

ASSUME BlockSize \in Nat /\ BlockSize >= 48
ASSUME MaxIOErrors \in Nat /\ MaxOpens \in Nat /\ MaxRetries \in Nat /\ MaxMutations \in Nat

(* On-disk constants of ext3_extents.h / ext2_fs.h.                       *)
EXT3_EXT_MAGIC   == 62218          \* 0xf30a
EXT_INIT_MAX_LEN == 32768          \* 1 << 15
HeaderSize       == 12             \* sizeof(struct ext3_extent_header)
RecSize          == 12             \* sizeof ext3_extent = sizeof ext3_extent_idx
IBlockSize       == 60             \* sizeof(inode->i_block)
RegionSlots(size) == (size - HeaderSize) \div RecSize
RootSlots        == RegionSlots(IBlockSize)
BlockSlots       == RegionSlots(BlockSize)

(* Move codes EXT2_EXTENT_... of ext2fs.h; error names of ext2_err.et.    *)
MoveOps == {"CURRENT", "ROOT", "LAST_LEAF", "FIRST_SIB", "LAST_SIB",
            "NEXT_SIB", "PREV_SIB", "NEXT_LEAF", "PREV_LEAF", "NEXT",
            "PREV", "UP", "DOWN", "DOWN_AND_LAST"}
OK == "OK"
\* The errors of the block I/O channel and of the allocator, passed on as
\* they come (spec section 7).
Failures == {"IO_ERROR", "NO_MEMORY"}

(***************************************************************************)
(* A 12-byte record slot. One shape serves both record kinds: for an      *)
(* extent blk = ee_block, len = ee_len, hi = ee_start_hi, lo = ee_start;  *)
(* for an index blk = ei_block, hi = ei_leaf_hi, lo = ei_leaf, and len is *)
(* ei_unused. A node is its header plus the slots of its region.          *)
(***************************************************************************)
Rec(b, l, hi, lo) == [blk |-> b, len |-> l, hi |-> hi, lo |-> lo]
ZeroRec == Rec(0, 0, 0, 0)
ZeroNode(n) == [magic |-> 0, entries |-> 0, max |-> 0, depth |-> 0,
                slot |-> [i \in 0 .. n - 1 |-> ZeroRec]]

\* The record at pointer position i of a node's buffer: position -1 is the
\* header itself (EXT_LAST_EXTENT of an empty node), positions past the
\* region are the bytes that follow it.
HeaderAsRec(n) == Rec(n.magic + 65536 * n.entries, n.max, n.depth, 0)
Slot(n, i) == IF i \in DOMAIN n.slot THEN n.slot[i]
              ELSE IF i = -1 THEN HeaderAsRec(n) ELSE ZeroRec

(* ext2fs_extent_header_verify, lines 125-148.                            *)
HeaderVerify(n, size) ==
  LET eh_max == RegionSlots(size) IN
  /\ n.magic = EXT3_EXT_MAGIC
  /\ n.entries <= n.max
  /\ n.max <= eh_max
  /\ n.max >= eh_max - 2

(* The 48-bit child address of an index record, and what a blk_t (32-bit) *)
(* holds of it (ext2fs_extent_get, lines 253 and 399-400).                *)
ChildAddr(r) == <<r.hi, r.lo>>
BlkT(r) == <<0, r.lo>>

(* A block read: a block absent from the map reads back as zeroes.        *)
ReadBlock(dsk, a) == IF a \in DOMAIN dsk THEN dsk[a] ELSE ZeroNode(BlockSlots)

(***************************************************************************)
(* struct extent_path (lines 40-49): buf is the node read at this level   *)
(* (frame 0 aliases the inode's i_block, held in the handle's root), from *)
(* the address it was read from (NULL at the root).                       *)
(***************************************************************************)
EmptyFrame == [buf |-> NULL, from |-> NULL, entries |-> 0, max_entries |-> 0,
               left |-> 0, visit_num |-> 0, end_blk |-> 0, curr |-> NULL]

(* struct ext2_extent_handle (lines 52-61), plus whether the bytes after  *)
(* i_block in the inode copy were overwritten (clobbered).                *)
ClosedHandle == [open |-> FALSE, root |-> ZeroNode(RootSlots), size |-> 0,
                 level |-> 0, max_depth |-> 0, path |-> [l \in {0} |-> EmptyFrame],
                 clobbered |-> FALSE]

Buf(h, l) == IF l = 0 THEN h.root ELSE h.path[l].buf
SetFrame(h, l, f) == [h EXCEPT !.path[l] = f]

(***************************************************************************)
(* Call state threaded through one API call: the handle, the disk and the *)
(* on-disk inode, the error, the pointer ix and extent of the last move,  *)
(* and the fault plan: the failRead-th block read and the writes numbered *)
(* in failWrites fail with an I/O error; faults counts injected failures. *)
(***************************************************************************)
NoExtent == [lblk |-> 0, len |-> 0, pblk |-> <<0, 0>>, leaf |-> FALSE,
             uninit |-> FALSE, second |-> FALSE]

\* F applied to the value of x, x being computed once (the call states
\* threaded through the loops below are used several times each).
Then(x, F(_)) == CHOOSE y \in {F(v) : v \in {x}} : TRUE

Err(st, h, e) == [st EXCEPT !.h = h, !.err = e]
Moved(st, h, ix) == [st EXCEPT !.h = h, !.err = OK, !.ix = ix]

(* Lines 338-357: ROOT resets the level and falls through FIRST_SIB, which *)
(* resets the frame and falls through NEXT_SIB.                           *)
MoveNextSib(st, op) ==
  LET h0 == IF op = "ROOT" THEN [st.h EXCEPT !.level = 0] ELSE st.h
      l  == h0.level
      p  == IF op \in {"ROOT", "FIRST_SIB"}
            THEN [h0.path[l] EXCEPT !.left = h0.path[l].entries, !.curr = NULL]
            ELSE h0.path[l]
      ix == IF p.curr # NULL THEN p.curr + 1 ELSE 0
  IN IF p.left <= 0 THEN Err(st, SetFrame(h0, l, p), "EXTENT_NO_NEXT")
     ELSE Moved(st, SetFrame(h0, l, [p EXCEPT !.left = @ - 1, !.curr = ix,
                                              !.visit_num = 0]), ix)

\* Mutant of MovePrevSib: left is not moved back with curr.
MovePrevSibNoLeft(st) ==
  LET h == st.h  l == h.level  p == h.path[l] IN
  IF p.curr = NULL \/ p.left + 1 >= p.entries
  THEN Err(st, h, "EXTENT_NO_PREV")
  ELSE Moved(st, SetFrame(h, l, [p EXCEPT !.curr = @ - 1]), p.curr - 1)

\* Mutant of MovePrevSib: an interior record stepped back onto keeps the
\* visit_num of the one left (line 367 dropped).
MovePrevSibNoVisit(st) ==
  LET h == st.h  l == h.level  p == h.path[l] IN
  IF p.curr = NULL \/ p.left + 1 >= p.entries
  THEN Err(st, h, "EXTENT_NO_PREV")
  ELSE Moved(st, SetFrame(h, l, [p EXCEPT !.curr = @ - 1, !.left = @ + 1]), p.curr - 1)

(* Lines 358-368.                                                         *)
MovePrevSib(st) ==
  LET h == st.h  l == h.level  p == h.path[l] IN
  IF p.curr = NULL \/ p.left + 1 >= p.entries
  THEN Err(st, h, "EXTENT_NO_PREV")
  ELSE Moved(st, SetFrame(h, l, [p EXCEPT !.curr = @ - 1, !.left = @ + 1,
                  !.visit_num = IF l < h.max_depth THEN 1 ELSE @]), p.curr - 1)

\* Mutant of MoveLastSib: the last record counted one short.
MoveLastSibShort(st) ==
  LET h == st.h  l == h.level
      ix == Buf(h, l).entries - 2
  IN Moved(st, SetFrame(h, l, [h.path[l] EXCEPT !.curr = ix, !.left = 0,
                                                 !.visit_num = 0]), ix)

(* Lines 369-375: EXT_LAST_EXTENT takes the count from the buffer header. *)
MoveLastSib(st) ==
  LET h == st.h  l == h.level
      ix == Buf(h, l).entries - 1
  IN Moved(st, SetFrame(h, l, [h.path[l] EXCEPT !.curr = ix, !.left = 0,
                                                 !.visit_num = 0]), ix)

\* Mutant of MoveUp: the PREV reset of the parent's visit_num (line 384)
\* dropped.
MoveUpKeepVisit(st, orig) ==
  LET h == st.h  l == h.level IN
  IF l <= 0 THEN Err(st, h, "EXTENT_NO_UP")
  ELSE Moved(st, [h EXCEPT !.level = l - 1], h.path[l - 1].curr)

(* Lines 376-385.                                                         *)
MoveUp(st, orig) ==
  LET h == st.h  l == h.level IN
  IF l <= 0 THEN Err(st, h, "EXTENT_NO_UP")
  ELSE LET p == h.path[l - 1]
           p1 == IF orig \in {"PREV", "PREV_LEAF"} THEN [p EXCEPT !.visit_num = 0]
                 ELSE p
       IN Moved(st, SetFrame([h EXCEPT !.level = l - 1], l - 1, p1), p.curr)

\* Mutant of ChildRec: the record after the cursor.
ChildRecNext(h, l) == Slot(Buf(h, l), h.path[l].curr + 1)

(* Line 396: the index record the descent follows.                        *)
ChildRec(h, l) == Slot(Buf(h, l), h.path[l].curr)

\* Mutant of ChildFrame: the child's capacity (eh_max) is not copied.
ChildFrameNoMax(q, child, endb) ==
  [q EXCEPT !.entries = child.entries, !.end_blk = endb]

(* Lines 418-426: the child frame takes the counts of the header it read *)
(* and the end block of the parent's record.                              *)
ChildFrame(q, child, endb) ==
  [q EXCEPT !.entries = child.entries, !.max_entries = child.max, !.end_blk = endb]

(* Lines 386-446: allocate the child buffer if there is none, read the   *)
(* child through a blk_t, bump the level, verify the header, then seed    *)
(* the child frame at its first or last record.                           *)
MoveDown(st, op) ==
  LET h == st.h  l == h.level  p == h.path[l] IN
  IF p.curr = NULL \/ l >= h.max_depth THEN Err(st, h, "EXTENT_NO_DOWN")
  ELSE
  LET blk   == BlkT(ChildRec(h, l))
      n     == st.reads + 1
      q     == h.path[l + 1]
      old   == IF q.buf = NULL THEN ZeroNode(BlockSlots) ELSE q.buf
      child == IF ImageMode THEN ZeroNode(BlockSlots) ELSE ReadBlock(st.disk, blk)
      h1    == [h EXCEPT !.level = l + 1,
                         !.path[l + 1] = [q EXCEPT !.buf = child, !.from = blk]]
      endb  == IF p.left > 0 THEN Slot(Buf(h, l), p.curr + 1).blk ELSE p.end_blk
      q1    == ChildFrame(h1.path[l + 1], child, endb)
      q2    == IF op = "DOWN"
               THEN [q1 EXCEPT !.curr = 0, !.left = child.entries - 1,
                               !.visit_num = 0]
               ELSE [q1 EXCEPT !.curr = child.entries - 1, !.left = 0,
                       !.visit_num = IF l + 1 < h.max_depth THEN 1 ELSE @]
  IN IF q.buf = NULL /\ st.failRead = -n
     THEN [Err(st, h, "NO_MEMORY") EXCEPT !.reads = n, !.faults = @ + 1]
     ELSE IF ~ImageMode /\ n = st.failRead
     THEN [Err(st, SetFrame(h, l + 1, [q EXCEPT !.buf = old]), "IO_ERROR")
             EXCEPT !.reads = n, !.faults = @ + 1]
     ELSE IF ~HeaderVerify(child, BlockSize)
     THEN [Err(st, h1, "EXTENT_HEADER_BAD") EXCEPT !.reads = n]
     ELSE [Moved(st, SetFrame(h1, l + 1, q2), q2.curr) EXCEPT !.reads = n]

\* Mutant of Decode: an index record's e_len always runs to the frame's
\* end_blk, as if it had no next sibling.
DecodeFrameEnd(h, ix) ==
  LET p == h.path[h.level]
      r == Slot(Buf(h, h.level), ix)
  IN IF h.level = h.max_depth
     THEN [lblk |-> r.blk, pblk |-> <<r.hi, r.lo>>, leaf |-> TRUE,
           len |-> IF r.len > EXT_INIT_MAX_LEN THEN r.len - EXT_INIT_MAX_LEN ELSE r.len,
           uninit |-> r.len > EXT_INIT_MAX_LEN, second |-> p.visit_num # 0]
     ELSE [lblk |-> r.blk, pblk |-> <<r.hi, r.lo>>, leaf |-> FALSE,
           len |-> p.end_blk - r.blk, uninit |-> FALSE, second |-> p.visit_num # 0]

(* Lines 451-482: the extent reported for the record at ix. The e_len of *)
(* an index record is end_blk - e_lblk stored in the __u32 e_len.         *)
Decode(h, ix) ==
  LET p == h.path[h.level]
      r == Slot(Buf(h, h.level), ix)
      endb == IF p.left > 0 THEN Slot(Buf(h, h.level), ix + 1).blk ELSE p.end_blk
  IN IF h.level = h.max_depth
     THEN [lblk |-> r.blk, pblk |-> <<r.hi, r.lo>>, leaf |-> TRUE,
           len |-> IF r.len > EXT_INIT_MAX_LEN THEN r.len - EXT_INIT_MAX_LEN ELSE r.len,
           uninit |-> r.len > EXT_INIT_MAX_LEN, second |-> p.visit_num # 0]
     ELSE [lblk |-> r.blk, pblk |-> <<r.hi, r.lo>>, leaf |-> FALSE,
           len |-> endb - r.blk, uninit |-> FALSE, second |-> p.visit_num # 0]

\* Mutant of NextStep: the visit_num test of an interior node dropped.
NextStepNoVisit(h) ==
  LET p == h.path[h.level] IN
  CASE h.level < h.max_depth -> "DOWN"
    [] p.left > 0            -> "NEXT_SIB"
    [] h.level > 0           -> "UP"
    [] OTHER                 -> "EXTENT_NO_NEXT"

(* Lines 266-293: the step a NEXT or NEXT_LEAF takes from here.           *)
NextStep(h) ==
  LET p == h.path[h.level] IN
  CASE h.level < h.max_depth /\ p.visit_num = 0 -> "DOWN"
    [] p.left > 0                               -> "NEXT_SIB"
    [] h.level > 0                              -> "UP"
    [] OTHER                                    -> "EXTENT_NO_NEXT"

(* Lines 295-322: the step a PREV or PREV_LEAF takes from here.           *)
PrevStep(h) ==
  LET p == h.path[h.level] IN
  CASE h.level < h.max_depth /\ p.visit_num > 0 -> "DOWN_AND_LAST"
    [] p.left < p.entries - 1                  -> "PREV_SIB"
    [] h.level > 0                             -> "UP"
    [] OTHER                                   -> "EXTENT_NO_PREV"

(* Lines 324-332.                                                         *)
LastLeafStep(h) ==
  IF h.level < h.max_depth /\ h.path[h.level].left = 0 THEN "DOWN" ELSE "LAST_SIB"

(* One pass of ext2fs_extent_get from the retry label (lines 264-482):    *)
(* choose the step of a compound move (a NEXT that descends first bumps   *)
(* visit_num, line 271), take it, and decode the record it lands on.      *)
GetPass(st, orig) ==
  LET h  == st.h
      op == CASE orig \in {"NEXT", "NEXT_LEAF"} -> NextStep(h)
              [] orig \in {"PREV", "PREV_LEAF"} -> PrevStep(h)
              [] orig = "LAST_LEAF"             -> LastLeafStep(h)
              [] OTHER                          -> orig
      s1 == IF orig \in {"NEXT", "NEXT_LEAF"} /\ op = "DOWN"
            THEN [st EXCEPT !.h.path[h.level].visit_num = @ + 1]
            ELSE st
      r  == CASE op \in {"ROOT", "FIRST_SIB", "NEXT_SIB"} -> MoveNextSib(s1, op)
              [] op = "CURRENT"  -> Moved(s1, h, h.path[h.level].curr)
              [] op = "PREV_SIB" -> MovePrevSib(s1)
              [] op = "LAST_SIB" -> MoveLastSib(s1)
              [] op = "UP"       -> MoveUp(s1, orig)
              [] op \in {"DOWN", "DOWN_AND_LAST"} -> MoveDown(s1, op)
              [] OTHER           -> Err(s1, h, op)
  IN Then(r, LAMBDA x : CASE x.err # OK  -> x
                          [] x.ix = NULL -> [x EXCEPT !.err = "NO_CURRENT_NODE"]
                          [] OTHER       -> [x EXCEPT !.ext = Decode(x.h, x.ix)])

(* Whether the move orig goes round the retry label again (lines 484-492). *)
Retries(h, orig) ==
  \/ orig \in {"NEXT_LEAF", "PREV_LEAF"} /\ h.level # h.max_depth
  \/ orig = "LAST_LEAF" /\ (h.level # h.max_depth \/ h.path[h.level].left # 0)


RECURSIVE GetLoop(_, _, _)
GetLoop(st, orig, fuel) ==
  Then(GetPass(st, orig), LAMBDA r :
    CASE r.err # OK          -> r
      [] ~Retries(r.h, orig) -> r
      [] fuel = 0            -> [r EXCEPT !.err = "LOOP"]
      [] OTHER               -> GetLoop(r, orig, fuel - 1))

(* ext2fs_extent_get(handle, op, &extent), lines 245-495.                 *)
GetCall(st, op) == GetLoop([st EXCEPT !.err = OK], op, MaxRetries)

(***************************************************************************)
(* extent_goto(handle, 0, blk), lines 562-623: from the root, walk the    *)
(* index records of each level to the last one whose ei_block <= blk and  *)
(* descend; at the leaves walk to the extent containing blk. A hole       *)
(* stops with EXTENT_NOT_FOUND after a PREV_SIB whose result is ignored.  *)
(***************************************************************************)
RECURSIVE GotoLoop(_, _, _), GoDown(_, _, _)
GotoLoop(st, blk, fuel) ==
  IF fuel = 0 THEN [st EXCEPT !.err = "LOOP"]
  ELSE IF st.h.level = st.h.max_depth
  THEN LET e == st.ext IN
       CASE blk >= e.lblk /\ blk < e.lblk + e.len -> st
         [] blk < e.lblk -> [GetCall(st, "PREV_SIB") EXCEPT !.err = "EXTENT_NOT_FOUND"]
         [] OTHER ->
            Then(GetCall(st, "NEXT_SIB"), LAMBDA n :
              CASE n.err = "EXTENT_NO_NEXT" -> [n EXCEPT !.err = "EXTENT_NOT_FOUND"]
                [] n.err # OK -> n
                [] OTHER -> GotoLoop(n, blk, fuel - 1))
  ELSE Then(GetCall(st, "NEXT_SIB"), LAMBDA n :
         CASE n.err = "EXTENT_NO_NEXT" -> GoDown(n, blk, fuel)
           [] n.err # OK -> n
           [] blk = n.ext.lblk -> GoDown(n, blk, fuel)
           [] blk > n.ext.lblk -> GotoLoop(n, blk, fuel - 1)
           [] OTHER ->
              Then(GetCall(n, "PREV_SIB"), LAMBDA b :
                IF b.err # OK THEN b ELSE GoDown(b, blk, fuel)))

GoDown(st, blk, fuel) ==
  Then(GetCall(st, "DOWN"), LAMBDA d :
    IF d.err # OK THEN d ELSE GotoLoop(d, blk, fuel - 1))

\* Mutant of GotoCall: the walk starts where the cursor is, not at ROOT.
GotoCallNoRoot(st, blk) == GotoLoop(st, blk, MaxRetries)

(* extent_goto(handle, 0, blk), lines 562-623.                           *)
GotoCall(st, blk) ==
  Then(GetCall(st, "ROOT"), LAMBDA r :
    IF r.err # OK THEN r ELSE GotoLoop(r, blk, MaxRetries))

(***************************************************************************)
(* Write-back and the mutations.                                          *)
(***************************************************************************)
SetBuf(h, l, n) == IF l = 0 THEN [h EXCEPT !.root = n] ELSE [h EXCEPT !.path[l].buf = n]

\* Whether pointer position i lies past the node's region (a write there
\* lands in the inode fields after i_block, or past the block buffer).
Outside(n, i) == i \notin DOMAIN n.slot /\ i # -1

\* Store record r at pointer position i; position -1 overwrites the header.
WriteSlot(n, i, r) ==
  CASE i \in DOMAIN n.slot -> [n EXCEPT !.slot[i] = r]
    [] i = -1 -> [n EXCEPT !.magic = r.blk % 65536, !.entries = r.blk \div 65536,
                           !.max = r.len, !.depth = r.hi]
    [] OTHER  -> n

\* memmove(ix + 1, ix, cnt records) and memmove(ix, ix + 1, cnt records).
ShiftRight(n, ix, cnt) ==
  [n EXCEPT !.slot = [i \in DOMAIN n.slot |->
                        IF ix < i /\ i <= ix + cnt THEN Slot(n, i - 1) ELSE n.slot[i]]]
ShiftLeft(n, ix, cnt) ==
  [n EXCEPT !.slot = [i \in DOMAIN n.slot |->
                        IF ix <= i /\ i < ix + cnt THEN Slot(n, i + 1) ELSE n.slot[i]]]

\* Mutant of UpdatePath: the inode write of the root level left out.
UpdatePathNoInode(st) ==
  LET h == st.h  l == h.level  n == st.writes + 1 IN
  CASE n \in st.failWrites ->
         [st EXCEPT !.writes = n, !.faults = @ + 1, !.err = "IO_ERROR"]
    [] l = 0 -> [st EXCEPT !.writes = n, !.err = OK]
    [] OTHER ->
         LET a == ChildAddr(Slot(Buf(h, l - 1), h.path[l - 1].curr)) IN
         [st EXCEPT !.writes = n, !.err = OK, !.disk = (a :> h.path[l].buf) @@ @]

(* update_path, lines 497-515: the root rewrites the whole inode, a lower *)
(* level rewrites its buffer to the block its parent's record points to.  *)
UpdatePath(st) ==
  LET h == st.h  l == h.level  n == st.writes + 1 IN
  CASE n \in st.failWrites ->
         [st EXCEPT !.writes = n, !.faults = @ + 1, !.err = "IO_ERROR"]
    [] l = 0 ->
         [st EXCEPT !.writes = n, !.err = OK,
                    !.inode = [@ EXCEPT !.root = h.root, !.clobbered = h.clobbered]]
    [] OTHER ->
         LET a == ChildAddr(Slot(Buf(h, l - 1), h.path[l - 1].curr)) IN
         [st EXCEPT !.writes = n, !.err = OK, !.disk = (a :> h.path[l].buf) @@ @]

\* Mutant of ReplaceCall: e_len and the high half of e_pblk stored
\* without truncation to their 16-bit fields.
ReplaceCallNoTrunc(st, e) ==
  LET h == st.h  l == h.level  p == h.path[l] IN
  CASE ~ReadWrite      -> Err(st, h, "RO_FILSYS")
    [] p.curr = NULL   -> Err(st, h, "NO_CURRENT_NODE")
    [] OTHER ->
       LET r  == IF l = h.max_depth THEN Rec(e.lblk, e.len, e.hi, e.lo)
                 ELSE Rec(e.lblk, 0, e.hi, e.lo)
           h1 == [SetBuf(h, l, WriteSlot(Buf(h, l), p.curr, r))
                    EXCEPT !.clobbered = @ \/ Outside(Buf(h, l), p.curr)]
       IN [UpdatePath([st EXCEPT !.h = h1]) EXCEPT !.err = OK]

(* ext2fs_extent_replace, lines 631-668: the e_flags of the new extent    *)
(* are not looked at, and update_path's result is dropped (line 666).     *)
ReplaceCall(st, e) ==
  LET h == st.h  l == h.level  p == h.path[l] IN
  CASE ~ReadWrite      -> Err(st, h, "RO_FILSYS")
    [] p.curr = NULL   -> Err(st, h, "NO_CURRENT_NODE")
    [] OTHER ->
       LET r  == IF l = h.max_depth
                 THEN Rec(e.lblk, e.len % 65536, e.hi % 65536, e.lo)
                 ELSE Rec(e.lblk, 0, e.hi % 65536, e.lo)
           h1 == [SetBuf(h, l, WriteSlot(Buf(h, l), p.curr, r))
                    EXCEPT !.clobbered = @ \/ Outside(Buf(h, l), p.curr)]
       IN [UpdatePath([st EXCEPT !.h = h1]) EXCEPT !.err = OK]

(* ext2fs_extent_delete, lines 727-768. A negative left makes the memmove *)
(* length a huge size_t: the process crashes (CRASH).                     *)
DeleteCall(st) ==
  LET h == st.h  l == h.level  p == h.path[l]  n == Buf(h, l) IN
  CASE ~ReadWrite      -> Err(st, h, "RO_FILSYS")
    [] p.curr = NULL   -> Err(st, h, "NO_CURRENT_NODE")
    [] p.left < 0      -> Err(st, h, "CRASH")
    [] OTHER ->
       LET ents == p.entries - 1
           curr == IF p.left # 0 THEN p.curr ELSE p.curr - 1
           p1   == [p EXCEPT !.curr = IF ents = 0 THEN NULL ELSE curr,
                             !.left = IF p.left # 0 THEN @ - 1 ELSE @,
                             !.entries = ents]
           n1   == IF p.left # 0 THEN ShiftLeft(n, p.curr, p.left) ELSE n
           h1   == [SetBuf(SetFrame(h, l, p1), l, [n1 EXCEPT !.entries = ents % 65536])
                      EXCEPT !.clobbered = @ \/ (p.left # 0 /\ Outside(n, p.curr + p.left - 1))]
       IN UpdatePath([st EXCEPT !.h = h1])

(* ext2fs_extent_insert, lines 670-710: open a slot before (or after)    *)
(* the cursor and count it in the frame and the node header.              *)
InsertSlot(st, after) ==
  LET h == st.h  l == h.level  p == h.path[l]  n == Buf(h, l) IN
  CASE ~ReadWrite                    -> Err(st, h, "RO_FILSYS")
    [] p.entries >= p.max_entries    -> Err(st, h, "CANT_INSERT_EXTENT")
    [] OTHER ->
       LET ix   == IF p.curr = NULL THEN 0 ELSE IF after THEN p.curr + 1 ELSE p.curr
           left == IF p.curr # NULL /\ after THEN p.left - 1 ELSE p.left
           n1   == IF left >= 0 THEN ShiftRight(n, ix, left + 1) ELSE n
           p1   == [p EXCEPT !.curr = ix, !.left = left + 1, !.entries = @ + 1]
       IN [st EXCEPT !.h = [SetBuf(SetFrame(h, l, p1), l, [n1 EXCEPT !.entries = p.entries + 1])
                             EXCEPT !.clobbered = @ \/ (left >= 0 /\ Outside(n, ix + left + 1))]]

\* Mutant of InsertCall: a failed write-back is returned without the
\* delete that takes the new record out again.
InsertCallNoRollback(st, after, e) ==
  LET s == InsertSlot(st, after) IN
  IF s.err # OK THEN s ELSE UpdatePath(ReplaceCall(s, e))

(* Lines 712-725: replace into the new slot and write back; on a failure, *)
(* delete it again and return the failure (delete's own result is         *)
(* dropped, line 723).                                                    *)
InsertCall(st, after, e) ==
  LET s == InsertSlot(st, after)
      r == ReplaceCall(s, e)
      w == UpdatePath(r)
  IN CASE s.err # OK -> s
       [] r.err # OK -> [DeleteCall(r) EXCEPT !.err = r.err]
       [] w.err # OK -> [DeleteCall(w) EXCEPT !.err = w.err]
       [] OTHER      -> w

(***************************************************************************)
(* The state machine. disk and dinode are the device's blocks and the     *)
(* on-disk inode; h is the one extent handle of the client; ret records   *)
(* the last call and its result. faults counts injected I/O failures,     *)
(* opens the ext2fs_extent_open calls, leaked the heap buffers lost by    *)
(* open or free, crashed whether a call crashed the process.              *)
(***************************************************************************)
VARIABLES disk, dinode, h, ret, faults, opens, leaked, crashed, mutations

vars == <<disk, dinode, h, ret, faults, opens, leaked, crashed, mutations>>

Start(fr, fw) ==
  [h |-> h, disk |-> disk, inode |-> dinode, err |-> OK, ix |-> NULL,
   ext |-> NoExtent, reads |-> 0, failRead |-> fr, writes |-> 0,
   failWrites |-> fw, faults |-> 0]

\* Which DOWN of a call fails (0: none): n, its block read; -n (with
\* AllocFaults), the lazy allocation of the child buffer (lines 393-398),
\* which fails only where no buffer was allocated yet. A call descends at
\* most max_depth times.
ReadPlans ==
  {0} \cup (IF faults < MaxIOErrors
           THEN (1 .. h.max_depth) \cup (IF AllocFaults THEN {-n : n \in 1 .. h.max_depth} ELSE {})
           ELSE {})
\* Which of the (at most three) inode or block writes of a call fail.
WritePlans == {w \in SUBSET (1 .. 3) : Cardinality(w) <= MaxIOErrors - faults}

(* ext2fs_extent_get_info, lines 770-800: the geometry of the current    *)
(* frame. curr_entry is the byte offset of curr from the node's start     *)
(* over 12, so record i (12 + 12 i bytes in) is entry i + 1 and the       *)
(* header position -1 reads as 0, like no current record.                 *)
GetInfoCall(hh) ==
  LET p == hh.path[hh.level] IN
  [curr_entry  |-> IF p.curr = NULL THEN 0 ELSE p.curr + 1,
   num_entries |-> p.entries, max_entries |-> p.max_entries,
   bytes_avail |-> (p.max_entries - p.entries) * RecSize,
   curr_level  |-> hh.level, max_depth |-> hh.max_depth]
NoInfo == GetInfoCall(ClosedHandle)

\* The record of a call: ext is the client's struct ext2fs_extent. Every
\* pass of a get that reaches the decoding writes it (lines 451-482), so a
\* compound get that fails on a later pass leaves there the record an
\* earlier pass landed on; no other call writes it. The argument is kept under the call's name, so
\* that the records of two calls with arguments of different kinds compare.
Result(call, arg, err, ext) ==
  [call |-> call, arg |-> (call :> arg), err |-> err, ext |-> ext, info |-> NoInfo]
Arg(r) == r.arg[r.call]

Commit(r, call, arg) ==
  /\ h'       = IF r.err = "CRASH" THEN ClosedHandle ELSE r.h
  /\ disk'    = r.disk
  /\ dinode'  = r.inode
  /\ faults'  = faults + r.faults
  /\ crashed' = (crashed \/ r.err = "CRASH")
  /\ ret'     = Result(call, arg, r.err, IF call = "get" THEN r.ext ELSE ret.ext)
  /\ mutations' = mutations + (IF call \in {"replace", "insert", "delete"} THEN 1 ELSE 0)
  /\ UNCHANGED <<opens, leaked>>

Init ==
  \E t \in Trees :
    /\ disk = t.disk
    /\ dinode = t.inode
    /\ h = ClosedHandle
    /\ ret = Result("none", "none", OK, NoExtent)
    /\ faults = 0 /\ opens = 0 /\ leaked = 0 /\ crashed = FALSE /\ mutations = 0

\* The heap buffers a live handle owns: the handle, its inode copy, the
\* path array and the node buffers of the levels it has descended to.
HandleBuffers(hh) ==
  3 + Cardinality({l \in 1 .. hh.max_depth : hh.path[l].buf # NULL})

(* ext2fs_extent_open, lines 173-239, storing into a handle pointer that  *)
(* held a handle owning lostOld buffers (lost if the open succeeds). The  *)
(* handle and inode allocations fail cleanly (lines 186-192); the path    *)
(* allocation is not checked and memset then writes through NULL (line    *)
(* 214). The error returns after the inode is read (lines 202-209) skip   *)
(* errout and lose the handle and the inode copy.                         *)
OpenCall(ino, lostOld) ==
  LET root == dinode.root
      f0   == [EmptyFrame EXCEPT !.entries = root.entries, !.left = root.entries,
                 !.max_entries = root.max, !.visit_num = 1,
                 !.end_blk = (dinode.size + BlockSize - 1) \div BlockSize]
      hd   == [open |-> TRUE, root |-> root, size |-> dinode.size, level |-> 0,
               max_depth |-> root.depth, clobbered |-> dinode.clobbered,
               path |-> [l \in 0 .. root.depth |-> IF l = 0 THEN f0 ELSE EmptyFrame]]
      Fail(e, lost) == /\ ret' = Result("open", ino, e, ret.ext)
                       /\ leaked' = leaked + lost
                       /\ UNCHANGED <<disk, dinode, h, crashed>>
      Injected(e)   == /\ AllocFaults \/ e = "IO_ERROR"
                       /\ faults < MaxIOErrors /\ faults' = faults + 1
      Valid         == dinode.extents /\ HeaderVerify(root, IBlockSize)
  IN
  /\ opens < MaxOpens
  /\ opens' = opens + 1
  /\ UNCHANGED mutations
  /\ CASE ino = 0 \/ ino > InodesCount -> Fail("BAD_INODE_NUM", 0) /\ UNCHANGED faults
       [] OTHER ->
          \/ Injected("NO_MEMORY") /\ Fail("NO_MEMORY", 0)
          \/ Injected("IO_ERROR") /\ Fail("IO_ERROR", 0)    \* ext2fs_read_inode_full
          \/ /\ Valid /\ Injected("NO_MEMORY")              \* path allocation
             /\ h' = ClosedHandle /\ crashed' = TRUE
             /\ ret' = Result("open", ino, "CRASH", ret.ext)
             /\ UNCHANGED <<disk, dinode, leaked>>
          \/ /\ UNCHANGED faults
             /\ CASE ~dinode.extents -> Fail("INODE_NOT_EXTENT", 2)
                  [] ~HeaderVerify(root, IBlockSize) -> Fail("EXTENT_HEADER_BAD", 2)
                  [] OTHER ->
                     /\ h' = hd
                     /\ ret' = Result("open", ino, OK, ret.ext)
                     /\ leaked' = leaked + lostOld
                     /\ UNCHANGED <<disk, dinode, crashed>>

\* The client frees its handle before it opens another one.
Open(ino) == "open" \in Calls /\ ~h.open /\ OpenCall(ino, 0)

(* ext2fs_extent_free, lines 154-171: the loop frees the buffers of       *)
(* levels 1 .. max_depth - 1 only.                                        *)
Free ==
  /\ "free" \in Calls /\ h.open
  /\ leaked' = leaked + Cardinality({l \in 1 .. h.max_depth : h.path[l].buf # NULL}
                                    \ (1 .. h.max_depth - 1))
  /\ h' = ClosedHandle
  /\ ret' = Result("free", "none", OK, ret.ext)
  /\ UNCHANGED <<disk, dinode, faults, opens, crashed, mutations>>

Get(op) ==
  /\ "get" \in Calls /\ h.open
  /\ \E fr \in ReadPlans :
       Commit(GetCall([Start(fr, {}) EXCEPT !.ext = ret.ext], op), "get", op)

Goto(blk) ==
  /\ "goto" \in Calls /\ h.open
  /\ \E fr \in ReadPlans : Commit(GotoCall(Start(fr, {}), blk), "goto", blk)

GetInfo ==
  /\ "info" \in Calls /\ h.open
  /\ ret' = [Result("info", "none", OK, ret.ext) EXCEPT !.info = GetInfoCall(h)]
  /\ UNCHANGED <<disk, dinode, h, faults, opens, leaked, crashed, mutations>>

Replace(e) ==
  /\ "replace" \in Calls /\ h.open /\ mutations < MaxMutations
  /\ \E fw \in WritePlans : Commit(ReplaceCall(Start(0, fw), e), "replace", e)

Insert(after, e) ==
  /\ "insert" \in Calls /\ h.open /\ mutations < MaxMutations
  /\ \E fw \in WritePlans :
       Commit(InsertCall(Start(0, fw), after, e), "insert", [after |-> after, ext |-> e])

Delete ==
  /\ "delete" \in Calls /\ h.open /\ mutations < MaxMutations
  /\ \E fw \in WritePlans : Commit(DeleteCall(Start(0, fw)), "delete", "none")

Next ==
  \/ \E ino \in InodeNums : Open(ino)
  \/ Free
  \/ \E op \in GetOps : Get(op)
  \/ \E b \in GotoBlocks : Goto(b)
  \/ GetInfo
  \/ \E e \in NewExtents : Replace(e)
  \/ \E e \in NewExtents, after \in BOOLEAN : Insert(after, e)
  \/ Delete

Spec == Init /\ [][Next]_vars

(***************************************************************************)
(* Type invariant.                                                        *)
(***************************************************************************)
RecT   == [blk : Int, len : 0 .. 65535, hi : 0 .. 65535, lo : Int]
NodeT  == [magic : Int, entries : Int, max : Int, depth : Nat,
           slot : UNION {[0 .. n - 1 -> RecT] : n \in {RootSlots, BlockSlots}}]
FrameT == [buf : NodeT \cup {NULL}, from : Addrs \cup {NULL}, entries : Int,
           max_entries : Int, left : Int, visit_num : Int, end_blk : Int,
           curr : Int \cup {NULL}]
ExtT   == [lblk : Int, len : Int, pblk : Int \X Int, leaf : BOOLEAN,
           uninit : BOOLEAN, second : BOOLEAN]

TypeOK ==
  /\ disk \in [Addrs -> NodeT]
  /\ dinode \in [extents : BOOLEAN, size : Nat, root : NodeT, clobbered : BOOLEAN]
  /\ h.open \in BOOLEAN /\ h.root \in NodeT /\ h.clobbered \in BOOLEAN
  /\ h.max_depth \in Nat /\ h.level \in 0 .. h.max_depth
  /\ h.path \in [0 .. h.max_depth -> FrameT]
  /\ ret.ext \in ExtT
  /\ faults \in 0 .. MaxIOErrors /\ opens \in 0 .. MaxOpens
  /\ mutations \in 0 .. MaxMutations
  /\ leaked \in Nat /\ crashed \in BOOLEAN

(***************************************************************************)
(* The file's leaves, as the tree on disk (under the handle's root) has   *)
(* them: positions <<where, slot>> in key order, where is the block the   *)
(* leaf node sits in (NULL for the root).                                 *)
(***************************************************************************)
RECURSIVE LeafWalk(_, _, _)
LeafWalk(n, where, k) ==
  IF k = 0 THEN [i \in 1 .. n.entries |-> <<where, i - 1>>]
  ELSE FlattenSeq([i \in 1 .. n.entries |->
                     LET a == ChildAddr(n.slot[i - 1]) IN
                     LeafWalk(ReadBlock(disk, a), a, k - 1)])

LeafOrder == LeafWalk(h.root, NULL, h.max_depth)
LeafAt(pos) == IF pos[1] = NULL THEN h.root.slot[pos[2]] ELSE disk[pos[1]].slot[pos[2]]
LeafLen(r) == IF r.len > EXT_INIT_MAX_LEN THEN r.len - EXT_INIT_MAX_LEN ELSE r.len

AtLeaf(hh) == hh.open /\ hh.level = hh.max_depth /\ hh.path[hh.level].curr # NULL
LeafPos(hh) == <<hh.path[hh.max_depth].from, hh.path[hh.max_depth].curr>>
\* Index of the cursor's leaf in LeafOrder (0 if it is on no leaf).
LeafIndex(hh) ==
  LET S == LeafOrder IN
  IF AtLeaf(hh) /\ \E k \in 1 .. Len(S) : S[k] = LeafPos(hh)
  THEN CHOOSE k \in 1 .. Len(S) : S[k] = LeafPos(hh) ELSE 0

(***************************************************************************)
(* The tour of the tree under the handle's root (spec sections 4 and 8):  *)
(* every record in key order, an index record before its subtree and      *)
(* again (second) after it. Each stop has its place, the slots from the   *)
(* root down, and the extent get must report there: an index record spans *)
(* up to its next sibling's ei_block, or to the end its node inherits     *)
(* from above; the root's end is i_size rounded up to blocks.             *)
(***************************************************************************)
RECURSIVE TourOf(_, _, _, _, _)
TourOf(dsk, n, k, at, endb) ==
  FlattenSeq([i \in 1 .. n.entries |->
    LET r   == Slot(n, i - 1)
        w   == Append(at, i - 1)
        end == IF i < n.entries THEN Slot(n, i).blk ELSE endb
        Stop(second) ==
          [at |-> w, second |-> second,
           ext |-> [lblk |-> r.blk, pblk |-> <<r.hi, r.lo>>, leaf |-> k = 0,
                    len |-> IF k = 0 THEN LeafLen(r) ELSE end - r.blk,
                    uninit |-> k = 0 /\ r.len > EXT_INIT_MAX_LEN, second |-> second]]
    IN IF k = 0 THEN <<Stop(FALSE)>>
       ELSE <<Stop(FALSE)>> \o TourOf(dsk, ReadBlock(dsk, ChildAddr(r)), k - 1, w, end)
                            \o <<Stop(TRUE)>>])

EndBlk(size) == (size + BlockSize - 1) \div BlockSize
Tour == TourOf(disk, h.root, h.max_depth, <<>>, EndBlk(h.size))

\* The tours of the trees the model starts from, computed once, keyed by
\* the disk, the root and the size they are read from.
TourKey(dsk, root, size) == [disk |-> dsk, root |-> root, size |-> size]
TreeTours ==
  [k \in {TourKey(t.disk, t.inode.root, t.inode.size) : t \in Trees} |->
     TourOf(k.disk, k.root, k.root.depth, <<>>, EndBlk(k.size))]
TreeTourExts == [k \in DOMAIN TreeTours |->
                   [i \in 1 .. Len(TreeTours[k]) |-> TreeTours[k][i].ext]]
HandleKey == TourKey(disk, h.root, h.size)

\* The stop the cursor is at: the current slot of every frame down to the
\* current level, and whether the current index record was descended.
CursorStop == [at |-> [l \in 1 .. h.level + 1 |-> h.path[l - 1].curr],
               second |-> h.level < h.max_depth /\ h.path[h.level].visit_num # 0]

\* Where each stop of a starting tree's tour is in it.
TreeTourIndex ==
  [k \in DOMAIN TreeTours |->
     LET T == TreeTours[k] IN
     [s \in {[at |-> T[i].at, second |-> T[i].second] : i \in 1 .. Len(T)} |->
        CHOOSE i \in 1 .. Len(T) : T[i].at = s.at /\ T[i].second = s.second]]

\* The cursor's index in the tour: 0 with no current record, -1 when it is
\* at no stop of the tour.
TourPos ==
  LET I == TreeTourIndex[HandleKey] IN
  CASE ~h.open \/ h.path[h.level].curr = NULL -> 0
    [] CursorStop \in DOMAIN I -> I[CursorStop]
    [] OTHER -> -1

(***************************************************************************)
(* Properties of the cursor.                                              *)
(***************************************************************************)

(* Every frame on the path agrees with the cursor in it: left counts the  *)
(* records strictly to the right of curr, curr is a live record, and a    *)
(* frame without a current record has all of its records to the right.   *)
(* Broken by any get, goto, insert or delete that moves curr without      *)
(* keeping left in step (extent.c lines 338-446, 692-706, 747-760).       *)
FrameConsistent(p) ==
  IF p.curr = NULL THEN p.left = p.entries /\ p.entries >= 0
  ELSE /\ p.curr + p.left + 1 = p.entries
       /\ 0 <= p.curr /\ p.curr < p.entries
CursorFrames == h.open => \A l \in 0 .. h.level : FrameConsistent(h.path[l])

(* Every frame below the root holds the block that the current record of *)
(* the frame above points to (ei_leaf_hi:ei_leaf), the block update_path  *)
(* writes it back to (ext2fs_extent_get lines 399-409, update_path 507).  *)
PathFollowsIndex ==
  h.open =>
    \A l \in 1 .. h.level :
      h.path[l].from = ChildAddr(Slot(Buf(h, l - 1), h.path[l - 1].curr))

(* Every frame on the path holds the entry count of the node in its      *)
(* buffer and no more than its capacity, as spec section 8 requires after *)
(* every operation. DOWN bumps the level before it verifies the header it *)
(* read (lines 410-415): on EXTENT_HEADER_BAD the new current frame keeps *)
(* the counts of whatever node it held before. Insert and delete keep the *)
(* frame and the in-buffer header in step (lines 706-708, 757-759).       *)
HeaderMatchesFrame ==
  h.open =>
    \A l \in 0 .. h.level :
      /\ h.path[l].entries = Buf(h, l).entries
      /\ h.path[l].entries <= h.path[l].max_entries

(* From a leaf, a successful get(NEXT_LEAF) lands on the next leaf of the *)
(* file in key order and reports it, however many levels it climbs and    *)
(* descends (the visit_num state machine, lines 266-293 and 484-487); at  *)
(* the last leaf it fails with EXTENT_NO_NEXT.                            *)
NextLeafIsSuccessor ==
  [][ (ret'.call = "get" /\ Arg(ret') = "NEXT_LEAF" /\ LeafIndex(h) # 0
       /\ ret'.err \notin Failures)
      => LET S == LeafOrder  k == LeafIndex(h) IN
         IF k < Len(S)
         THEN /\ ret'.err = OK /\ LeafIndex(h') = k + 1
              /\ ret'.ext.lblk = LeafAt(S[k + 1]).blk
         ELSE ret'.err = "EXTENT_NO_NEXT" ]_vars

(* From a leaf, a successful get(PREV_LEAF) lands on the previous leaf of *)
(* the file; at the first leaf it fails with EXTENT_NO_PREV. Exercises    *)
(* the UP that clears the parent's visit_num on PREV (line 384) and the   *)
(* DOWN_AND_LAST that follows.                                            *)
PrevLeafIsPredecessor ==
  [][ (ret'.call = "get" /\ Arg(ret') = "PREV_LEAF" /\ LeafIndex(h) # 0
       /\ ret'.err \notin Failures)
      => LET S == LeafOrder  k == LeafIndex(h) IN
         IF k > 1
         THEN /\ ret'.err = OK /\ LeafIndex(h') = k - 1
              /\ ret'.ext.lblk = LeafAt(S[k - 1]).blk
         ELSE ret'.err = "EXTENT_NO_PREV" ]_vars

(* A NEXT_LEAF retried after one that failed with an I/O error resumes   *)
(* the walk: from the handle it leaves, a NEXT_LEAF that does not fail    *)
(* lands on the leaf after the one the cursor was on, or fails with       *)
(* EXTENT_NO_NEXT after the last leaf (spec section 7: errors are not     *)
(* fatal and callers may retry; section 5: an I/O failure leaves the      *)
(* cursor where it was). NEXT marks the interior frame visited (line 271) *)
(* before the DOWN whose allocation or read fails (lines 394, 405).       *)
NextLeafResumes ==
  [][ (/\ ret'.call = "get" /\ Arg(ret') = "NEXT_LEAF" /\ ret'.err \in Failures
       /\ LeafIndex(h) # 0)
      => LET S     == LeafOrder  k == LeafIndex(h)
             again == GetCall([Start(0, {}) EXCEPT !.h = h'], "NEXT_LEAF")
         IN IF k < Len(S) THEN again.err = OK /\ LeafIndex(again.h) = k + 1
            ELSE again.err = "EXTENT_NO_NEXT" ]_vars

(* Every extent a get reports lies in the 32-bit logical block space     *)
(* (max_lblk = 2^32 - 1, spec section 3 and get_info line 795):           *)
(* e_lblk + e_len <= 2^32. The e_len of an index record is end_blk -      *)
(* ei_block in a __u32 (line 479), and end_blk comes from i_size (lines   *)
(* 225-228): an index record at or past the end of the file (blocks       *)
(* preallocated past EOF) wraps. With e_len held as its int32 bits, a     *)
(* negative e_len is e_len + 2^32, so the bound reads e_lblk + e_len <= 0.*)
ExtentWithinLblkSpace ==
  [][ (ret'.call = "get" /\ ret'.err = OK /\ ret'.ext.len < 0)
      => ret'.ext.lblk + ret'.ext.len <= 0 ]_vars

(* ext2fs_extent_goto(blk) on a block some extent maps leaves the cursor  *)
(* on that extent; on a block in a hole it fails with EXTENT_NOT_FOUND    *)
(* and leaves the cursor on the last extent that starts before blk (the   *)
(* first extent if there is none), as the comment at line 559 promises.   *)
GotoLocates ==
  [][ (ret'.call = "goto" /\ ret'.err \notin Failures /\ Len(LeafOrder) > 0)
      => LET S == LeafOrder  b == Arg(ret')
             Covers(k) == LeafAt(S[k]).blk <= b /\ b < LeafAt(S[k]).blk + LeafLen(LeafAt(S[k]))
             Before == {k \in 1 .. Len(S) : LeafAt(S[k]).blk <= b}
         IN IF \E k \in 1 .. Len(S) : Covers(k)
            THEN ret'.err = OK /\ Covers(LeafIndex(h'))
            ELSE /\ ret'.err = "EXTENT_NOT_FOUND"
                 /\ LeafIndex(h') = IF Before = {} THEN 1
                                    ELSE CHOOSE k \in Before : \A j \in Before : j <= k ]_vars

(***************************************************************************)
(* Properties of the mutations and their write-back.                      *)
(***************************************************************************)
LiveRecs(n) == [i \in 1 .. n.entries |-> Slot(n, i - 1)]

\* Where update_path stores the node of the cursor's level of handle hh.
Stored(hh, dsk, ino) ==
  IF hh.level = 0 THEN ino.root
  ELSE ReadBlock(dsk, ChildAddr(Slot(Buf(hh, hh.level - 1), hh.path[hh.level - 1].curr)))

(* An insert that fails on a write-back has put back, by calling delete,  *)
(* the records and the count of the frame it inserted into; its first     *)
(* write may already have reached the disk (lines 712-724).  Stated for  *)
(* a cursor whose frame agrees with itself and with its node (not one    *)
(* left behind by a failed descent or a descent into an empty node).     *)
FrameInSync(hh) == /\ FrameConsistent(hh.path[hh.level])
                   /\ hh.path[hh.level].entries = Buf(hh, hh.level).entries
InsertRollbackRestores ==
  [][ (ret'.call = "insert" /\ ret'.err = "IO_ERROR" /\ FrameInSync(h))
      => /\ LiveRecs(Buf(h', h.level)) = LiveRecs(Buf(h, h.level))
         /\ h'.path[h.level].entries = h.path[h.level].entries ]_vars

(* When insert or delete reports success, the node it changed is on disk *)
(* as it is in the handle, whichever of its earlier writes failed.        *)
InsertDeleteDurable ==
  [][ (ret'.call \in {"insert", "delete"} /\ ret'.err = OK)
      => Stored(h', disk', dinode') = Buf(h', h'.level) ]_vars

(* When replace reports success, the record it wrote is on disk.          *)
ReplaceDurable ==
  [][ (ret'.call = "replace" /\ ret'.err = OK)
      => Stored(h', disk', dinode') = Buf(h', h'.level) ]_vars

(* A leaf extent written by a successful replace reads back through      *)
(* get(CURRENT) with the same e_lblk, e_pblk, e_len and UNINIT flag       *)
(* (spec section 8); replace stores e_len into the 16-bit ee_len and     *)
(* never looks at e_flags (lines 651-657).                                *)
ReplaceRoundTrip ==
  [][ (ret'.call = "replace" /\ ret'.err = OK /\ h'.level = h'.max_depth)
      => LET e == Arg(ret')
             d == Decode(h', h'.path[h'.level].curr)
         IN /\ d.lblk = e.lblk /\ d.len = e.len /\ d.pblk = <<e.hi, e.lo>>
            /\ d.uninit = e.uninit ]_vars

(* Every node of the tree on disk passes ext2fs_extent_header_verify, so  *)
(* the tree the engine leaves behind can be opened and walked again.      *)
OnDiskTreeVerifies ==
  LET Kids(n) == {ReadBlock(disk, ChildAddr(Slot(n, i))) : i \in 0 .. n.entries - 1}
      Level[k \in 0 .. dinode.root.depth] ==
        IF k = 0 THEN {dinode.root} ELSE UNION {Kids(n) : n \in Level[k - 1]}
  IN \A k \in 0 .. dinode.root.depth :
       \A n \in Level[k] : HeaderVerify(n, IF k = 0 THEN IBlockSize ELSE BlockSize)

(* No call runs into undefined behaviour (delete's memmove with a         *)
(* negative count, line 750).                                             *)
NoCrash == ~crashed

(* No write lands outside the record area of its node (the memmove of     *)
(* insert, line 704, and the record stores of replace).                   *)
NoOverflow == ~h.clobbered /\ ~dinode.clobbered

(* Open and free return every buffer they allocate (lines 164-170,        *)
(* 202-209).                                                              *)
NoLeak == leaked = 0

(***************************************************************************)
(* Refinement: the handle implements the tour cursor of ExtentTour. The   *)
(* tour is the open handle's (looked up among the starting trees, so the  *)
(* mapping holds for runs that do not change the tree); the client holds  *)
(* the extent of ret.                                                     *)
(***************************************************************************)
TourCursor == INSTANCE ExtentTour
  WITH tour <- IF h.open THEN TreeTourExts[HandleKey] ELSE <<>>,
       pos  <- TourPos,
       last <- [op |-> IF ret.call = "get" THEN Arg(ret) ELSE ret.call,
                err |-> ret.err, said |-> ret.ext,
                blk |-> IF ret.call = "goto" THEN Arg(ret) ELSE 0]

(* Every get moves the cursor along the tour as ExtentTour says: NEXT and *)
(* PREV by one stop, NEXT_LEAF and PREV_LEAF to the next or previous leaf *)
(* (to the end of the tour when there is none), ROOT to its start, and a  *)
(* successful move reports the extent of the stop, its e_len and          *)
(* SECOND_VISIT flag included. It rests on the visit_num machine (lines   *)
(* 266-322), the sibling and UP moves (338-385), DOWN's end_blk (421-425) *)
(* and the decoding of lines 451-482. goto lands on the leaf that maps   *)
(* its block, or on the leaf before the hole (lines 562-623).             *)
ImplementsTour == TourCursor!Spec
=============================================================================
