--------------------------- MODULE ExtentDebugfs ---------------------------
(***************************************************************************)
(* tst_extents, the debugfs build of extent.c (#ifdef DEBUG, lines        *)
(* 802-1168): a console whose commands drive one extent handle,           *)
(* current_handle, over the engine of ExtentHandle. Every command is one  *)
(* action, the API calls it makes included, except print_all, whose loop  *)
(* of ext2fs_extent_get calls (lines 1086-1096) is a step per call: the   *)
(* state between two calls is what its termination and output are about. *)
(*                                                                         *)
(* current_handle is never freed (the console has no command for it), so  *)
(* it is non-NULL exactly when some open succeeded: h.open.               *)
(***************************************************************************)
EXTENDS ExtentHandle

CONSTANTS
  Commands,     \* the console commands typed in this model
  PrintModes,   \* print_all's walks: "NEXT" (no option), "NEXT_LEAF"
                \* (--leaf-only), "PREV" (--reverse), "PREV_LEAF" (--reverse-leaf)
  MaxPrint      \* bound on the extents one print_all records

ASSUME PrintModes \subseteq {"NEXT", "NEXT_LEAF", "PREV", "PREV_LEAF"}
ASSUME MaxPrint \in Nat

(***************************************************************************)
(* current_ino is the console's inode number (0: none). print is the      *)
(* running or last print_all: its walk, whether the cursor was at the     *)
(* root when it started, its status and the extents it printed.           *)
(***************************************************************************)
VARIABLES current_ino, print

dvars == <<vars, current_ino, print>>

\* The first move and the error that ends the walk (lines 1044-1076).
FirstOp(mode) == IF mode \in {"NEXT", "NEXT_LEAF"} THEN "ROOT" ELSE "LAST_LEAF"
EndErr(mode)  == IF mode \in {"NEXT", "NEXT_LEAF"} THEN "EXTENT_NO_NEXT" ELSE "EXTENT_NO_PREV"

\* A command the console takes: none runs while print_all loops, and none
\* after the process died.
Cmd(c) == c \in Commands /\ print.status # "running" /\ ~crashed

\* A command that stops at a check before any API call (no open handle,
\* or a read-only file system), reporting why.
Refused(c, arg, why) ==
  /\ ret' = Result(c, arg, why, ret.ext)
  /\ UNCHANGED <<disk, dinode, h, faults, opens, leaked, crashed, mutations,
                 current_ino, print>>

\* The generic_goto_node(CURRENT) a command ends with when its call
\* succeeded (lines 952, 989, 1036, 1167): a read that changes nothing.
ShowCurrent(r) == IF r.err # OK THEN r ELSE [GetCall(r, "CURRENT") EXCEPT !.err = OK]

DebugfsInit ==
  /\ Init
  /\ current_ino = 0
  /\ print = [mode |-> "NEXT", fromRoot |-> FALSE, status |-> "idle", out |-> <<>>]

(* do_inode, lines 816-851: the new handle is stored over current_handle *)
(* without freeing the one it held; a failed open leaves that one in      *)
(* place but clears current_ino.                                          *)
DoInode(ino) ==
  /\ Cmd("inode")
  /\ OpenCall(ino, IF h.open THEN HandleBuffers(h) ELSE 0)
  /\ current_ino' = IF ret'.err = OK THEN ino ELSE 0
  /\ UNCHANGED print

(* generic_goto_node, lines 853-872, behind do_current_node .. do_down.   *)
GotoNode(op) ==
  /\ Cmd("goto_node")
  /\ IF ~h.open THEN Refused("goto_node", op, "NO_HANDLE")
     ELSE /\ \E fr \in ReadPlans : Commit(GetCall(Start(fr, {}), op), "get", op)
          /\ UNCHANGED <<opens, leaked, current_ino, print>>

(* do_delete_node, do_replace_node, do_insert_node (lines 939-1037): only *)
(* check_fs_read_write guards them, so with no handle open the call's     *)
(* EXT2_CHECK_MAGIC reads through the NULL current_handle. outcomes are  *)
(* the call's results over the write plans, each with the CURRENT after.  *)
Mutate(c, arg, outcomes) ==
  /\ Cmd(c)
  /\ CASE ~ReadWrite -> Refused(c, arg, "RO_FILSYS")
       [] ~h.open ->
          /\ crashed' = TRUE
          /\ ret' = Result(c, arg, "CRASH", ret.ext)
          /\ UNCHANGED <<disk, dinode, h, faults, opens, leaked, mutations,
                         current_ino, print>>
       [] OTHER ->
          /\ mutations < MaxMutations
          /\ \E r \in outcomes : Commit(r, c, arg)
          /\ UNCHANGED <<current_ino, print>>

DoDeleteNode ==
  Mutate("delete", "none", {ShowCurrent(DeleteCall(Start(0, fw))) : fw \in WritePlans})
DoReplaceNode(e) ==
  Mutate("replace", e, {ShowCurrent(ReplaceCall(Start(0, fw), e)) : fw \in WritePlans})
DoInsertNode(after, e) ==
  Mutate("insert", [after |-> after, ext |-> e],
         {ShowCurrent(InsertCall(Start(0, fw), after, e)) : fw \in WritePlans})

(* do_print_all, lines 1039-1084: the first move, printed, starts the    *)
(* walk; its failure ends the command.                                    *)
DoPrintAll(mode) ==
  /\ Cmd("print_all")
  /\ IF ~h.open THEN Refused("print_all", mode, "NO_HANDLE")
     ELSE /\ \E fr \in ReadPlans :
               LET r == GetCall(Start(fr, {}), FirstOp(mode)) IN
               /\ Commit(r, "get", FirstOp(mode))
               /\ print' = [mode |-> mode, fromRoot |-> h.level = 0,
                            status |-> IF r.err = OK THEN "running" ELSE "error",
                            out |-> IF r.err = OK THEN <<r.ext>> ELSE <<>>]
          /\ UNCHANGED <<opens, leaked, current_ino>>

(* One pass of the while (1) loop, lines 1086-1096: the end error stops   *)
(* the walk, any other error aborts it, a success is printed.             *)
PrintAllStep ==
  /\ print.status = "running"
  /\ \E r \in {GetCall(Start(fr, {}), print.mode) : fr \in ReadPlans} :
       /\ Commit(r, "get", print.mode)
       /\ print' = CASE r.err = EndErr(print.mode) -> [print EXCEPT !.status = "done"]
                     [] r.err # OK -> [print EXCEPT !.status = "error"]
                     [] OTHER -> [print EXCEPT !.out = IF Len(@) < MaxPrint
                                                       THEN Append(@, r.ext) ELSE @]
  /\ UNCHANGED <<opens, leaked, current_ino>>

(* do_info, lines 1099-1135: get_info, then get(CURRENT).                 *)
DoInfo ==
  /\ Cmd("info")
  /\ IF ~h.open THEN Refused("info", "none", "NO_HANDLE")
     ELSE /\ ret' = [Result("info", "none", GetCall(Start(0, {}), "CURRENT").err, ret.ext)
                       EXCEPT !.info = GetInfoCall(h)]
          /\ UNCHANGED <<disk, dinode, h, faults, opens, leaked, crashed, mutations,
                         current_ino, print>>

(* do_goto_block, lines 1137-1168: ext2fs_extent_goto, then CURRENT.      *)
DoGotoBlock(b) ==
  /\ Cmd("goto_block")
  /\ IF ~h.open THEN Refused("goto_block", b, "NO_HANDLE")
     ELSE /\ \E fr \in ReadPlans : Commit(ShowCurrent(GotoCall(Start(fr, {}), b)), "goto", b)
          /\ UNCHANGED <<opens, leaked, current_ino, print>>

DebugfsNext ==
  \/ \E ino \in InodeNums : DoInode(ino)
  \/ \E op \in GetOps : GotoNode(op)
  \/ DoDeleteNode
  \/ \E e \in NewExtents : DoReplaceNode(e)
  \/ \E e \in NewExtents, after \in BOOLEAN : DoInsertNode(after, e)
  \/ \E m \in PrintModes : DoPrintAll(m)
  \/ PrintAllStep
  \/ DoInfo
  \/ \E b \in GotoBlocks : DoGotoBlock(b)

(* The console runs print_all's loop to its end without waiting on        *)
(* anything but the synchronous I/O of each call: its step cannot stay    *)
(* enabled and never be taken. The user's commands are not fair. The      *)
(* subscript is the handle and the walk: the step always changes one of   *)
(* them until the walk is over or its record of the output is full.      *)
DebugfsSpec == DebugfsInit /\ [][DebugfsNext]_dvars /\ WF_<<h, print>>(PrintAllStep)

(***************************************************************************)
(* The walks print_all should make (spec section 8, ordering laws), read  *)
(* off the tour of the tree (Tour, in ExtentHandle).                      *)
(***************************************************************************)
IsLeafExt(e) == e.leaf

\* NEXT walks the tour from ROOT's record; NEXT_LEAF prints ROOT's record
\* and then every leaf; LAST_LEAF starts the reverse walks at the last leaf.
Expected(mode) ==
  LET T == [i \in 1 .. Len(Tour) |-> Tour[i].ext]
      L == SelectSeq(T, IsLeafExt)
      R == Reverse(T)
  IN CASE mode = "NEXT"      -> T
       [] mode = "NEXT_LEAF" -> IF IsLeafExt(T[1]) THEN L ELSE <<T[1]>> \o L
       [] mode = "PREV"      -> SubSeq(R, SelectInSeq(R, IsLeafExt), Len(R))
       [] mode = "PREV_LEAF" -> Reverse(L)

(***************************************************************************)
(* Properties.                                                            *)
(***************************************************************************)

(* A print_all that runs to its end error has printed the whole walk:     *)
(* every record of the tree in order (NEXT) with the SECOND_VISIT flag on *)
(* the return to an index record, every leaf (NEXT_LEAF), or the same in  *)
(* reverse from the last leaf (PREV, PREV_LEAF) when started at the root. *)
(* It rests on the visit_num machine of ext2fs_extent_get (lines 266-322),*)
(* the PREV reset of UP (line 384) and the retry loop (lines 484-492).    *)
PrintAllOrder ==
  [][ (/\ print.status = "running" /\ print'.status = "done"
       /\ (print.mode \in {"NEXT", "NEXT_LEAF"} \/ print.fromRoot))
      => print'.out = Expected(print.mode) ]_dvars

(* The same without the condition on where the reverse walks start:       *)
(* print_all prints the whole file whatever the cursor's position.        *)
PrintAllComplete ==
  [][ (print.status = "running" /\ print'.status = "done")
      => print'.out = Expected(print.mode) ]_dvars

(* Every print_all ends: its loop reaches the end error or another error  *)
(* (lines 1086-1096), which takes the compound moves of                   *)
(* ext2fs_extent_get never to cycle over the tree.                        *)
PrintAllTerminates == print.status = "running" ~> print.status # "running"
=============================================================================
