-------------------------------- MODULE Grid --------------------------------
(***************************************************************************)
(* The geometry of okvm-switch (lib.rs): rectangles, the grid of peers,    *)
(* the neighbour behind an edge, the point a cursor enters by, and the     *)
(* place register_session (state.rs) gives a new peer.                     *)
(*                                                                         *)
(* A grid is a function from the peers placed to their entries.  A screen  *)
(* is a rectangle in the virtual desktop of its own machine, whose primary *)
(* screen has its corner at <<0, 0>>.                                      *)
(***************************************************************************)
EXTENDS Integers, FiniteSets, FiniteSetsExt

Edge == {"left", "right", "top", "bottom"}

Opposite == [left |-> "right", right |-> "left", top |-> "bottom", bottom |-> "top"]

OutsideEdge(r, p, e) ==
  CASE e = "left"   -> p[1] < r.x
    [] e = "right"  -> p[1] >= r.x + r.w
    [] e = "top"    -> p[2] < r.y
    [] e = "bottom" -> p[2] >= r.y + r.h

\* The edges are tried in this order: a corner counts as left or right.
ExitEdge(r, p) ==
  CASE OutsideEdge(r, p, "left")   -> "left"
    [] OutsideEdge(r, p, "right")  -> "right"
    [] OutsideEdge(r, p, "top")    -> "top"
    [] OutsideEdge(r, p, "bottom") -> "bottom"
    [] OTHER                       -> "none"

Inside(r, p) == ExitEdge(r, p) = "none"

Center(r) == <<r.x + r.w \div 2, r.y + r.h \div 2>>

Clamp(v, low, high) == IF v < low THEN low ELSE IF v > high THEN high ELSE v

\* The smallest rectangle around some screens.
Around(screens) ==
  LET left == Min({s.x : s \in screens})
      top  == Min({s.y : s \in screens})
  IN  [x |-> left, y |-> top,
       w |-> Max({s.x + s.w : s \in screens}) - left,
       h |-> Max({s.y + s.h : s \in screens}) - top]

Moved(r, by) == [r EXCEPT !.x = @ + by[1], !.y = @ + by[2]]

Bbox(entry) == Moved(Around(entry.screens), entry.origin)

OverlapsX(r, x) == r.x <= x /\ x < r.x + r.w

OverlapsY(r, y) == r.y <= y /\ y < r.y + r.h

\* The rectangle lies behind that edge of the point.
Behind(r, e, p) ==
  CASE e = "left"   -> r.x + r.w <= p[1] /\ OverlapsY(r, p[2])
    [] e = "right"  -> r.x >= p[1] /\ OverlapsY(r, p[2])
    [] e = "top"    -> r.y + r.h <= p[2] /\ OverlapsX(r, p[1])
    [] e = "bottom" -> r.y >= p[2] /\ OverlapsX(r, p[1])

SquareDistance(p, q) == (p[1] - q[1]) * (p[1] - q[1]) + (p[2] - q[2]) * (p[2] - q[2])

\* The candidates whose centre is nearest: a tie is settled by the order of a
\* HashMap.
Neighbors(grid, from, e, p) ==
  LET candidates == {q \in DOMAIN grid \ {from} : Behind(Bbox(grid[q]), e, p)}
      Distance(q) == SquareDistance(Center(Bbox(grid[q])), p)
  IN  {q \in candidates : \A r \in candidates : Distance(q) <= Distance(r)}

ByHotkey(grid, digit) == {q \in DOMAIN grid : grid[q].hotkey = digit}

\* The point of the rectangle, in the plane of the grid, that on_mouse_move names for a
\* cursor that left by an edge in front of it.
EnterPoint(r, e, p) ==
  CASE e = "left"   -> <<r.x + r.w - 1, Clamp(p[2], r.y, r.y + r.h - 1)>>
    [] e = "right"  -> <<r.x, Clamp(p[2], r.y, r.y + r.h - 1)>>
    [] e = "top"    -> <<Clamp(p[1], r.x, r.x + r.w - 1), r.y + r.h - 1>>
    [] e = "bottom" -> <<Clamp(p[1], r.x, r.x + r.w - 1), r.y>>

\* The point next to one, against an edge.
Before(p, e) ==
  CASE e = "left"   -> <<p[1] + 1, p[2]>>
    [] e = "right"  -> <<p[1] - 1, p[2]>>
    [] e = "top"    -> <<p[1], p[2] + 1>>
    [] e = "bottom" -> <<p[1], p[2] - 1>>

\* The point is in the rectangle, at the side that a cursor which left by the
\* edge comes in by, the one the code names edge.opposite().
EntersAt(r, e, p) == Inside(r, p) /\ ExitEdge(r, Before(p, e)) = Opposite[e]

-----------------------------------------------------------------------------
(* register_session: a peer goes to the right of all that is placed.  The    *)
(* local machine is there from the start, and never leaves.                 *)

\* AppState::initialize counts the corner of the local screens twice: they are
\* relative to the primary one, and so is the origin they are given.
LocalEntry(screens) ==
  [screens |-> screens, origin |-> <<Around(screens).x, Around(screens).y>>, hotkey |-> 0]

RightOf(r) == r.x + r.w

\* Mutant: the width of what is placed is forgotten.
MaxRightOfOrigins(grid) == Max({Bbox(grid[q]).x : q \in DOMAIN grid})

MaxRight(grid) == Max({RightOf(Bbox(grid[q])) : q \in DOMAIN grid})

\* The count of entries, the local one included, if it has a digit.
HotkeyIndex(grid) == IF Cardinality(DOMAIN grid) \in 1 .. 9
                     THEN Cardinality(DOMAIN grid) ELSE 0

Placed(grid, local, screens) == [screens |-> screens,
                                 origin  |-> <<MaxRight(grid), local.y>>,
                                 hotkey  |-> HotkeyIndex(grid)]
=============================================================================
