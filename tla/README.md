# TLA+ models of the ext2fs extent-tree engine

This directory holds TLC-checked TLA+ models of `src/lib/ext2fs/extent.c`, the
extent-tree engine of libext2fs. The other source file,
`src/unnamed/part_000`, is an Android build file and has no behaviour.

## The system

An ext4 inode maps its logical blocks through an **extent tree**. The root
node lives in the inode's 60-byte `i_block` field (a 12-byte header and 4
records). Lower nodes each fill one file-system block. Leaves hold extents
`(ee_block, ee_len, ee_start_hi:ee_start)`. An `ee_len` above 32768 marks an
uninitialized extent. Interior nodes hold index records
`(ei_block, ei_leaf_hi:ei_leaf)`.

The engine exposes a **handle** with a cursor over that tree. The parts and
how they interact:

| Part | Code | State it touches |
|---|---|---|
| Header verifier | `ext2fs_extent_header_verify` 125-148 | none (pure) |
| Open / free | `ext2fs_extent_open` 173-239, `ext2fs_extent_free` 154-171 | handle, inode copy, path frames, heap buffers |
| Traversal | `ext2fs_extent_get` 245-495 | `level`; per frame `curr`, `left`, `visit_num`, `entries`, `max_entries`, `end_blk`, `buf`; block reads |
| Seek | `extent_goto` 562-623, `ext2fs_extent_goto` 625-629 | the same, through calls to `get` |
| Mutation | `ext2fs_extent_replace` 631-668, `_insert` 670-725, `_delete` 727-768 | the current frame and its buffer |
| Write-back | `update_path` 497-515 | the on-disk inode (level 0) or tree block |
| Geometry report | `ext2fs_extent_get_info` 770-800 | none (read only) |
| Test driver | `tst_extents` commands 802-1168, `#ifdef DEBUG` | `current_handle`, `current_ino` |

The test driver is a debugfs console. Its commands call the API on one shared
handle, `current_handle`, which is NULL until an `inode` command succeeds and
is never freed. `print_all` loops over `get` until the end error.

The cursor is a stack of **frames**, one per level. Frame 0's buffer is the
inode's `i_block`. `curr` points at a record of the frame's buffer, or is
NULL. `left` counts the records to the right of `curr`. `visit_num` tells the
compound moves whether the subtree under an interior record has been entered
yet.

- The compound moves are NEXT, NEXT_LEAF, PREV, PREV_LEAF and LAST_LEAF. Each
  one chooses a primitive move from `level`, `left` and `visit_num`, and then
  loops through the `retry` label.
- Seek is a loop of `get` calls.
- Mutations change the current frame and then call `update_path`, which
  writes the node back through the parent's current index record.
- Insert undoes a failed write-back by calling `delete`.

The handle is used by a single thread (spec section 5). What makes the code
hard is therefore not concurrency. It is:

- long sequences of legal calls that bring the frames into states the code
  does not expect;
- I/O failures in the middle of a call;
- pointer arithmetic at the edges of a node.

## Modules

**`ExtentHandle.tla`** is the engine.

- **Data.** A node is a record with the header fields `magic`, `entries`,
  `max` and `depth`, plus a function from slot index to record. A record
  `Rec(blk, len, hi, lo)` serves for both extents and index records, as the C
  structs share one 12-byte layout.
- **Pointer positions outside the region.** `Slot(n, -1)` is the header read
  as a record: that is where `EXT_LAST_EXTENT` points in an empty node. Slots
  past the region read as zeroes. A write to a slot past the region sets the
  handle's `clobbered` flag, so an overflow is recorded rather than dropped.
- **Block numbers.** A block address is a pair `<<hi, lo>>`. The 32-bit
  `blk_t` of `ext2fs_extent_get` (line 253) is `BlkT(r) = <<0, r.lo>>`.
- **Variables.**
  - `h` is the handle (`open`, the inode's `root` node, `level`,
    `max_depth`, `path` frames).
  - `disk` is the device's tree blocks, and `dinode` the on-disk inode.
  - `ret` is the last call and its result.
  - `faults` counts injected I/O failures.
  - `opens` and `mutations` are the call bounds.
  - `leaked` counts heap buffers lost by open or free.
  - `crashed` records undefined behaviour: a memmove with a negative count,
    or a write through a NULL pointer.
- **Actions.** Each API call is one action: `Open`, `Free`, `Get(op)`,
  `Goto(blk)`, `GetInfo`, `Replace(e)`, `Insert(after, e)` and `Delete`.
  `OpenCall` and `GetInfoCall` hold the bodies of open and get_info, so that
  the driver can use them too. The handle is
  single-threaded, so a call is atomic with respect to the client. Inside a
  call, every step the C code takes is kept: the retry loop (`GetLoop`), the
  primitive moves (`MoveNextSib`, `MovePrevSib`, `MoveLastSib`, `MoveUp`,
  `MoveDown`), the choice of step (`NextStep`, `PrevStep`, `LastLeafStep`),
  record decoding (`Decode`), seek (`GotoLoop`/`GoDown`, mutually recursive
  as the `goto go_down` loop), and the mutations with `UpdatePath`. These are
  operators over a call-state record that threads the handle, the disk, the
  error and the fault plan.
- **`Then(x, F)`.** This helper applies `F` to the value of `x`, so that a
  call state threaded through a loop is computed once and not once per use.
- **Faults.** A fault plan picks which block read of a call fails (`ReadPlans`)
  and which of its at most three writes fail (`WritePlans`), within
  `MaxIOErrors`. Open may also fail to read the inode. With `AllocFaults`,
  open's allocations may fail as well, within the same bound. So may the
  lazy allocation of a child buffer in DOWN (lines 393-398). Like a failed
  read, it comes after a NEXT has already bumped `visit_num`. The handle and
  inode allocations fail cleanly; the path allocation is not checked, and the
  memset that follows it is recorded as a crash.
- **The client's extent.** `ret.ext` is the caller's `struct ext2fs_extent`.
  A get starts from the caller's value (`Get` seeds the call state with
  it). Every pass that reaches the decoding overwrites it (lines 451-482),
  before the retry test (484-492). So a compound get that fails on a later
  pass leaves in it the record an earlier pass landed on. For example, on
  Tree1, PREV_LEAF from the first leaf goes UP, writes the root's first
  index record, and then fails with `EXTENT_NO_PREV`. A get that fails on
  its first pass, and every other call, leaves the extent as it was.
- **`ret.arg`.** The argument of a call is stored under the call's name
  (`Arg(ret)` reads it). This keeps the records of calls with different kinds
  of argument comparable.
- **32-bit values.** TLC integers are 32-bit. A `__u32` such as `e_len` is
  kept as the int32 with the same bits, so a value that wrapped past 2^31
  shows as negative.
- **Image mode.** The `ImageMode` constant makes DOWN see a zero-filled block
  (lines 401-404).
- **Mutants.** Operators named `...NoLeft`, `...Next`, `...NoVisit`,
  `...KeepVisit`, `...NoRoot`, `...NoTrunc`, `...NoRollback`, `...NoInode`,
  `...NoMax`, `...Short` and `...FrameEnd`
  are mutants of the definitions that follow them. They are used only to
  show that each checked property can detect a plausible bug in that code.

**`MCExtentHandle.tla`** builds small file systems for TLC.

- Block addresses are `{0,1} \X 0..5`.
- `Tree0` has depth 0: three extents, the last of them uninitialized.
- `Tree1` has depth 1: two leaf blocks.
- `Tree2` has depth 2: three leaves under two interior blocks, one of them with
  a single child.
- `TreeHigh` has an index record with `ei_leaf_hi = 1`, and another file's
  leaf sits at the truncated address.
- `TreeLostLeaf` is `Tree1` with its second leaf block missing (zeroes on
  disk).
- `TreePastEOF` is `Tree1` with `i_size` ending at block 8, before the second
  index record.
- The move sets, seek blocks and new extents are defined here as well.

**`ExtentDebugfs.tla`** is the `tst_extents` console. It EXTENDS
`ExtentHandle` and adds `current_ino` and `print`, the state of the running
or last `print_all`: its walk, whether it started at the root, its status
and what it printed.

- `h.open` stands for `current_handle != NULL`, because the console never
  frees the handle.
- Each command is one action, including the trailing `get(CURRENT)` that
  several commands end with:
  - `DoInode` opens a new handle over the old one. The old handle's buffers
    go to `leaked`.
  - `GotoNode` is `generic_goto_node` behind the thirteen move commands.
  - `DoDeleteNode`, `DoReplaceNode` and `DoInsertNode` share `Mutate`. With
    no handle, the API call reads through NULL, which is recorded as a crash.
  - `DoInfo` and `DoGotoBlock`.
  - `DoPrintAll` makes the first move. `PrintAllStep` is one pass of the
    `while (1)` loop.
- No other command runs while `print.status = "running"`, as the console is
  single-threaded.
- Argument parsing and usage errors change no state and are left out.
  Printing is kept only as the sequence `print.out` of the extents that
  `dbg_print_extent` prints.

`Expected(mode)` derives the four walks of `print_all` from `Tour`, the
reference walk of `ExtentHandle` (see the next section).

**`ExtentTour.tla`** is the abstract specification of the traversal
engine, as a client sees it. Spec sections 4 and 8 describe the moves over
the tree's *tour*. The tour lists the records in key order. Each index
record appears twice: once before its subtree, and once after it with
`SECOND_VISIT`.

- **Variables.** `tour` is the sequence of extents that get reports at each
  stop. `pos` is the cursor's index in it, 0 when there is no current
  record. `last` is the last call: its op, its error, the extent the
  client holds, and the block a goto looked for.
- **Compound moves.** NEXT and PREV move one stop. NEXT_LEAF and PREV_LEAF
  move to the next or previous leaf. When there is none, they move to the
  end or the start of the tour and fail with `EXTENT_NO_NEXT` or
  `EXTENT_NO_PREV`. ROOT moves to the first stop.
- **Other moves.** The plain moves (siblings, UP, DOWN, CURRENT, LAST_LEAF)
  may land on any stop, or are refused in place.
- **Success.** Every successful move reports the extent at its new stop.
- **Failure.** A failed move leaves the client either its old extent or
  the extent of a stop that the move passed on the way (`Passed`). An
  earlier pass of the same get wrote it there.
- **goto (`Seek`).** goto(b) lands on the leaf that maps `b`. When `b` is
  in a hole, it fails with `EXTENT_NOT_FOUND` and lands on the last leaf
  that starts before `b`, or on the first leaf if there is none. goto hands
  the client no extent.
- **Collaborator errors (`Fault`).** A move or goto that fails with an I/O
  error or an allocation error (`Failures`) may leave the cursor anywhere.
  Spec section 7 says these errors are passed on and are not fatal to the
  handle. Spec section 5 says the cursor stays where it was, but the code
  does not keep that promise (hazard at line 271, `MCNextLeafRetry.cfg`).
- **open and free.** They drop the cursor.

**The refinement**, at the end of `ExtentHandle.tla`:

- **The reference tour.** `TourOf` computes the tour from the tree on disk,
  independently of the cursor code. An index record's `e_len` runs to its
  next sibling's `ei_block`, or else to the end that its node inherits from
  above. At the root, that end is `i_size` rounded up to blocks.
- **The mapping.** `CursorStop` names the cursor's stop: the current slot
  of every frame from the root down, and whether the current index record
  was already descended (`visit_num`). `TourPos` is its index in the tour,
  and -1 if the cursor is at no stop.
- **The check.** `TourCursor == INSTANCE ExtentTour WITH tour <- ...,
  pos <- TourPos, last <- ...` instantiates the abstract module over this
  mapping. `ImplementsTour == TourCursor!Spec` is checked as a PROPERTY.
- **Precomputed tours.** The tours of the starting trees are computed once
  (`TreeTours`, `TreeTourIndex`), so the mapping is a table lookup. For the
  same reason, the refinement is checked only in runs that do not change
  the tree.
- **Where it is checked.** iterate checks it for the forward and backward
  moves, and seek for goto and the reverse moves, DOWN, DOWN_AND_LAST and
  LAST_LEAF included. Both runs include one failed read or allocation.
  So the check also covers a goto cut short mid-walk (line 619): the
  cursor it leaves is still a stop of the tour.
- **What it excludes.** No run mixes NEXT or NEXT_LEAF with DOWN,
  DOWN_AND_LAST, LAST_LEAF or goto. With them together, TLC reports
  `ImplementsTour` violated: after an explicit descent the parents'
  `visit_num` is still 0, and NEXT re-enters the subtree. This is the
  next_after_seek finding.

**`MCExtentDebugfs.tla`** combines the console with the trees of
`MCExtentHandle`.

## Properties

| Property | Kind | Statement |
|---|---|---|
| `TypeOK` | invariant | The state has its type. Node record fields that are 16-bit on disk stay in `0..65535`. |
| `CursorFrames` | invariant | In every frame up to `level`, `curr` and `left` agree: `curr + left + 1 = entries` and `curr` is a live record, or `curr` is NULL and `left = entries`. |
| `PathFollowsIndex` | invariant | Every frame below the root holds the block that its parent's current index record points to. |
| `NextLeafIsSuccessor` | action | From a leaf, a NEXT_LEAF that does not hit an I/O or allocation error lands on the next leaf in key order and reports it, or fails with NO_NEXT at the last leaf. |
| `PrevLeafIsPredecessor` | action | The mirror property for PREV_LEAF. |
| `GotoLocates` | action | A `goto(b)` that does not hit an I/O or allocation error succeeds on the extent covering `b`. Otherwise it fails with NOT_FOUND on the last extent before `b`, or on the first extent when `b` is before all of them. |
| `InsertRollbackRestores` | action | An insert that fails on write-back restores the records and the count of its frame. |
| `InsertDeleteDurable` | action | A successful insert or delete leaves the changed node on disk as it is in the handle. |
| `ReplaceDurable` | action | The same property for replace. |
| `ReplaceRoundTrip` | action | A replaced leaf extent reads back with the same `e_lblk`, `e_pblk`, `e_len` and UNINIT flag (spec section 8). |
| `OnDiskTreeVerifies` | invariant | Every node on disk passes the header verifier. |
| `HeaderMatchesFrame` | invariant | Every frame up to `level` has the entry count of the header of its buffer, and no more entries than `max_entries` (spec section 8). |
| `NextLeafResumes` | action | A NEXT_LEAF from a leaf that fails with an I/O or allocation error leaves a handle from which a NEXT_LEAF without faults lands on the next leaf, or fails with NO_NEXT at the last one (spec sections 5 and 7). |
| `ExtentWithinLblkSpace` | action | No extent that get reports runs past logical block 2^32 - 1 (spec section 3, `get_info`'s `max_lblk`). |
| `NoCrash`, `NoOverflow`, `NoLeak` | invariants | No undefined behaviour happens, no write lands past a node's region, and no buffer is leaked. |
| `ImplementsTour` | refinement | The handle implements `ExtentTour`. Every get moves the cursor along the tree's tour as the abstract specification says, and every goto lands where `Seek` says. A successful move reports the extent of its stop, including an index record's `e_len` and the `SECOND_VISIT` flag. |
| `PrintAllOrder` | action | A `print_all` that reaches its end error has printed its whole walk, when it was started at the root or is a forward walk. For NEXT this is every record, with `SECOND_VISIT` on the return to an index record. For NEXT_LEAF it is every leaf. The reverse walks are the same in reverse order. |
| `PrintAllComplete` | action | The same without the condition on where the walk started. |
| `PrintAllTerminates` | liveness | Every `print_all` ends. |

`NextLeafIsSuccessor`, `PrevLeafIsPredecessor` and `GotoLocates` compare the
handle with `LeafOrder`, the leaves of the tree in key order. `LeafOrder` is
computed by a recursive walk of the tree that is independent of the cursor
code.

## Runs

| Run | cfg | Expect | What it shows |
|---|---|---|---|
| iterate | `MCIterate.cfg` | pass | Leaf iteration works in both directions: all moves except DOWN, DOWN_AND_LAST and LAST_LEAF, trees of depth 0-2, and one failed inode or block read or allocation. The engine refines `ExtentTour`. |
| seek | `MCSeek.cfg` | pass | goto on 8 blocks (covered blocks, holes, and blocks past the end) is correct, and so is backward iteration after seeks and explicit descents. With one failed read or allocation, a goto cut short mid-walk leaves consistent frames. The engine, goto included, refines `ExtentTour`. |
| mutate | `MCMutate.cfg` | pass | Insert and delete at both levels, with one failed write, are durable or rolled back. `AllocFaults` is on, so open's failed allocations happen too. |
| next_after_seek | `MCNextAfterSeek.cfg` | violation | NEXT_LEAF after goto goes backwards. |
| replace_write_error | `MCReplaceWrite.cfg` | violation | replace hides a failed write. |
| replace_uninit | `MCReplaceUninit.cfg` | violation | replace drops the UNINIT flag. |
| free_leak | `MCFreeLeak.cfg` | violation | free leaks the leaf buffer. |
| delete_empty_child | `MCDeleteEmpty.cfg` | violation | delete after DOWN into an emptied leaf calls memmove with a negative count. |
| root_overflow | `MCRootOverflow.cfg` | violation | insert right after open writes past `i_block`. |
| down_high_block | `MCDownHighBlock.cfg` | violation | DOWN follows a truncated block number. |
| header_overwrite | `MCHeaderOverwrite.cfg` | violation | LAST_SIB on an emptied node lets replace overwrite the header. |
| print_all | `MCPrintAll.cfg` | pass | All four walks of `print_all` end. One started at the root prints the whole tree in order. The cursor may have been placed by any command, and one read may fail. |

The findings in `PROJECT.json` explain each violation with the lines involved.

Three of them are reached only through several calls, so no single-call test
would show them:

- **next_after_seek**: NEXT_LEAF after goto, DOWN, DOWN_AND_LAST or
  LAST_LEAF returns an earlier leaf. The parent's `visit_num` is still 0, so
  the compound move descends into the same child again. The iterate run
  leaves those four moves out for this reason; with them in, the pass
  property fails.
- **delete_empty_child**: it takes three calls: empty a leaf, climb up, then
  descend into it again.
- **header_overwrite**: it takes three deletes and then a LAST_SIB.
## Further reproductions

The configurations below reproduce further disagreements between the code and
spec.md. They are not in the run list of `PROJECT.json`; each one ends with
TLC reporting a violation of the one property it names. Run them with
`tlc -workers 2 -config <cfg> <module>`.

| cfg | Module | Property | What TLC shows |
|---|---|---|---|
| `MCDownBadHeader.cfg` | MCExtentHandle | `HeaderMatchesFrame` | DOWN increments `level` (line 410) before it verifies the header. A block that fails verification is left under the cursor, with the counts of the node read at that level earlier. |
| `MCNextLeafRetry.cfg` | MCExtentHandle | `NextLeafResumes` | NEXT sets `visit_num` (line 271) before a DOWN whose read fails. A NEXT_LEAF retried from the handle that failure leaves skips the subtree and reports NO_NEXT on Tree1. The failed call also leaves the root's index record for block 16 in the caller's extent. |
| `MCPastEOF.cfg` | MCExtentHandle | `ExtentWithinLblkSpace` | The last index record's `e_len` is `end_blk - e_lblk` in unsigned arithmetic (line 479). It wraps when `i_size` ends before the record's first block. |
| `MCOpenNoMem.cfg` | MCExtentHandle | `NoCrash` | open does not check the path allocation and then calls memset through NULL (line 214). |
| `MCPrintPartial.cfg` | MCExtentDebugfs | `PrintAllComplete` | The reverse walks start with LAST_LEAF from the current level. After `next_leaf`, `print_all --reverse-leaf` prints one leaf block only. A move must first place the cursor below the root. |
| `MCDeleteNoHandle.cfg` | MCExtentDebugfs | `NoCrash` | `delete_node` before any `inode` command passes a NULL `current_handle` to the API (line 947). |
| `MCInodeReopen.cfg` | MCExtentDebugfs | `NoLeak` | `do_inode` overwrites `current_handle` without freeing the handle it held (line 840). |

## Bounds, and why they are enough

- **Trees.**
  - Depth 0 to 2 covers every kind of frame: the root as a leaf, the root as
    an interior node, and an interior node that is not the root.
  - The leaf blocks hold 1 or 2 records and the root holds 2 or 3 of 4.
    Together they reach every branch of the step choice: a sibling remains or
    not, `visit_num` is 0 or not, the level is the root or not.
  - `BlockSize = 64` gives 4-record blocks, which the verifier accepts with
    its 2-record slack. This keeps the state space small and exercises the
    same arithmetic as a real block.
- **`MaxRetries = 8`.** This is more than the number of passes any move on
  these trees needs. A run that ran out would report `LOOP` as the error,
  and no property allows `LOOP`.
- **`MaxIOErrors = 1`.** One failure can hit any read or write of any call.
  It makes insert's rollback, replace's dropped result and a failed DOWN
  reachable, and in seek a goto that fails mid-walk. iterate, seek and
  mutate also set `AllocFaults`, so the one failure may be an allocation
  instead.
- **`MaxMutations = 2`** (mutate) and **`MaxOpens`**. These cap behaviours
  that could otherwise go on forever. iterate and seek allow two opens, so
  that a failed open is followed by a working one. Two mutations are enough to empty a
  two-record leaf, or to insert and then delete. The violation runs use the
  smallest bound that reaches their trace.
- **Mutate on the shallow trees.** `mutate` edits only `ShallowTrees`
  (depth 0 and 1). We also ran it on `WellFormedTrees`, with the new extent
  placed at a block that is free in `Tree2`. It passed, with 5.8 million
  distinct states, but took 23 minutes, so it is not one of the kept runs.
  The depth-2 tree is walked by `iterate` and `seek`.
- **`CHECK_DEADLOCK FALSE`.** It is set only in the mutation and violation
  cfgs. There, the last state of a behaviour is either a closed handle with
  no opens left, or a handle whose calls are all at their bound. The client
  has stopped calling; the system itself has not deadlocked.

- **`MaxPrint = 16`** (print_all). This is above the longest walk, which is
  15 records on `Tree2`. A walk that loops fills the record and then goes on
  without growing it, so a looping walk shows up as a cycle.
- **print_all cfg.** The file system is read-only, so the mutating commands
  stop at `check_fs_read_write`. `MaxOpens = 1`. The moves NEXT_LEAF, DOWN,
  UP and NEXT_SIB, and `goto_block 18`, leave the cursor at every level, in
  both subtrees of the root and on both sides of a hole.

## Fairness and liveness

The API calls themselves are atomic actions, and every call either returns or
runs out of the retry bound, which is a safety matter. The one loop across
steps is `print_all`'s. Its specification, `DebugfsSpec`, has weak fairness
on `PrintAllStep` and on nothing else:

- While `print_all` runs, the single-threaded console does nothing else, and
  each `get` call only waits on synchronous I/O. So once the step is enabled,
  it is taken.
- The user's commands are not fair: the user may stop typing at any time.

The fairness subscript is `<<h, print>>`. A step always changes one of the
two until the walk ends or its record fills up. `PrintAllTerminates` is
checked under this fairness.

## Not modelled

- **`get_info`'s constant limits** (`max_lblk`, `max_pblk`, `max_len`). They
  are constants.
- **`save_path` and `free_path`** (lines 517-556). They are inside `#if 0`.
- **The byte encoding.** Byte order, `eh_generation` and `ei_unused` are not
  modelled.
- **Magic-number checks on the handle.**
- **Large values.** TLC integers are 32-bit. Logical block numbers stay small,
  and `HeaderAsRec` is exact only while a node's entry count is below 32768.
  This holds in every run.
- **The console's own checks.** These are `check_fs_open`, argument parsing
  and usage messages. They change no state; `check_fs_read_write` is kept.
- **The Android build file** (`src/unnamed/part_000`).

## Plan for later revisions

- Check the refinement in runs that mutate the tree, with a mapping that
  computes the tour of the current tree (this is slower).
- Check `print_all` after mutations. A delete can empty a leaf block, and
  DOWN into an empty node reports a record that is not there.
