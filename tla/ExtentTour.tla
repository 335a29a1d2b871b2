----------------------------- MODULE ExtentTour -----------------------------
(***************************************************************************)
(* What the moves of ext2fs_extent_get promise a client, stated over the  *)
(* tour of the tree instead of its frames (spec sections 4 and 8): the    *)
(* records in key order, an index record once before its subtree and once *)
(* (SECOND_VISIT) after it. The cursor is a position in the tour, 0 when  *)
(* there is no current record. NEXT and PREV step along the tour,         *)
(* NEXT_LEAF and PREV_LEAF to the next or previous leaf, ROOT to its      *)
(* start; every successful move reports the extent at the new position.   *)
(* goto lands on the leaf that maps its block or, in a hole, on the last  *)
(* leaf that starts before it (the first leaf if none does). The plain    *)
(* moves (siblings, UP, DOWN, CURRENT, LAST_LEAF) may land on any         *)
(* position and leave it on a refusal; an I/O or allocation error may    *)
(* leave the cursor anywhere; open and free drop it.                      *)
(***************************************************************************)
EXTENDS Naturals, Sequences, FiniteSets
LOCAL INSTANCE FiniteSetsExt

VARIABLES
  tour,   \* the extents get reports, in tour order
  pos,    \* the cursor: an index of tour, 0 for no current record
  last    \* the last call: its op, its error, the extent the client holds
          \* and the block a goto looked for

tvars == <<tour, pos, last>>

Moves     == {"CURRENT", "ROOT", "LAST_LEAF", "FIRST_SIB", "LAST_SIB",
              "NEXT_SIB", "PREV_SIB", "NEXT_LEAF", "PREV_LEAF", "NEXT",
              "PREV", "UP", "DOWN", "DOWN_AND_LAST"}
TourMoves == {"ROOT", "NEXT", "PREV", "NEXT_LEAF", "PREV_LEAF"}

\* The errors of the collaborators (block I/O and the allocator), which the
\* engine passes on verbatim (spec section 7).
Failures == {"IO_ERROR", "NO_MEMORY"}

Leaves(lo, hi) == {i \in lo .. hi : tour[i].leaf}
Maps(i, b) == tour[i].lblk <= b /\ b < tour[i].lblk + tour[i].len

Init == pos = 0

\* The stops a move from position a to position b passes on the way to b.
Passed(a, b) == {tour[i] : i \in {j \in 1 .. Len(tour) : (a < j /\ j <= b) \/ (b <= j /\ j < a)}}

(* A call that ends at position p with error e. A success hands the       *)
(* client the extent of p; a failure leaves it its old extent or that of  *)
(* a stop the move passed, written there by an earlier step of the call.  *)
Ends(op, p, e) ==
  /\ last'.op = op /\ last'.err = e
  /\ pos' = p
  /\ IF e = "OK" THEN last'.said = tour[p]
     ELSE last'.said \in {last.said} \cup Passed(pos, p)
  /\ UNCHANGED tour

\* Where each compound move ends, and with which error.
Move(op) ==
  LET n == Len(tour) IN
  CASE op = "ROOT" -> Ends(op, 1, "OK")
    [] op = "NEXT" ->
         IF pos < n THEN Ends(op, pos + 1, "OK") ELSE Ends(op, pos, "EXTENT_NO_NEXT")
    [] op = "NEXT_LEAF" ->
         IF Leaves(pos + 1, n) # {}
         THEN Ends(op, Min(Leaves(pos + 1, n)), "OK")
         ELSE Ends(op, n, "EXTENT_NO_NEXT")
    [] op = "PREV" ->
         IF pos > 1 THEN Ends(op, pos - 1, "OK") ELSE Ends(op, pos, "EXTENT_NO_PREV")
    [] op = "PREV_LEAF" ->
         IF Leaves(1, pos - 1) # {}
         THEN Ends(op, Max(Leaves(1, pos - 1)), "OK")
         ELSE Ends(op, 1, "EXTENT_NO_PREV")

\* A call refused with an error of its own: nothing moves.
Refuse(op) ==
  /\ last'.op = op /\ last'.err \notin Failures \cup {"OK"} /\ last'.said = last.said
  /\ UNCHANGED <<tour, pos>>

\* A compound move with no current record: forward it starts the tour,
\* backward it is refused.
MoveFromNone(op) ==
  IF op \in {"NEXT", "NEXT_LEAF", "ROOT"} THEN Move(op) ELSE Refuse(op)

\* Any other move: a success on some position, or a refusal in place.
Reposition(op) ==
  \/ last'.op = op /\ last'.err = "OK" /\ pos' \in 1 .. Len(tour) /\ Ends(op, pos', "OK")
  \/ Refuse(op)

\* goto(b): onto the leaf that maps b, or, with EXTENT_NOT_FOUND, onto the
\* last leaf that starts at or before b (the first leaf when none does).
\* goto hands the client no extent.
Seek ==
  LET b       == last'.blk
      Hit     == {i \in Leaves(1, Len(tour)) : Maps(i, b)}
      Before  == {i \in Leaves(1, Len(tour)) : tour[i].lblk <= b}
      Landing == IF Before = {} THEN Min(Leaves(1, Len(tour))) ELSE Max(Before)
  IN /\ last'.op = "goto" /\ last'.said = last.said
     /\ IF Hit # {} THEN last'.err = "OK" /\ pos' = Min(Hit)
        ELSE last'.err = "EXTENT_NOT_FOUND" /\ pos' = Landing
     /\ UNCHANGED tour

\* A move or seek whose block read or buffer allocation failed.
Fault(op) ==
  /\ last'.op = op /\ last'.err \in Failures
  /\ pos' \in 0 .. Len(tour) /\ Ends(op, pos', last'.err)

\* open and free: the cursor is gone; a successful open brings a new tour.
OpenClose(c) == pos' = 0 /\ last'.op = c /\ last'.said = last.said

\* get_info: a call that reads without moving.
Query == UNCHANGED <<tour, pos>> /\ last'.op = "info" /\ last'.said = last.said

Next ==
  \/ \E op \in TourMoves : IF pos = 0 THEN MoveFromNone(op) ELSE Move(op)
  \/ \E op \in Moves \ TourMoves : Reposition(op)
  \/ Seek
  \/ \E op \in Moves \cup {"goto"} : Fault(op)
  \/ \E c \in {"open", "free"} : OpenClose(c)
  \/ Query

Spec == Init /\ [][Next]_tvars
=============================================================================
