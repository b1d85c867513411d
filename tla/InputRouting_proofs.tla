------------------------- MODULE InputRouting_proofs -------------------------
(***************************************************************************)
(* Facts about the geometry of Grid, for all rectangles and points, and    *)
(* proofs about InputRouting, for any peers, screens, keys and digits, any *)
(* displacements of the mouse and any bounds.                              *)
(***************************************************************************)
EXTENDS InputRouting, FiniteSetTheorems, SequenceTheorems, TLAPS

-----------------------------------------------------------------------------
(* Finite sets of integers.                                                *)

\* A finite set of integers has a least and a greatest element.  (In a set without a
\* least element, counting what is below an element would map the set, one to one,
\* into the numbers from 1 to one less than its size.)
LEMMA LeastExists ==
  ASSUME NEW S \in SUBSET Int, IsFiniteSet(S), S # {}
  PROVE  \E x \in S : \A y \in S : x <= y
<1> DEFINE below(x) == {y \in S : y < x}
           count == [x \in S |-> Cardinality(below(x))]
<1>1. Cardinality(S) \in Nat /\ Cardinality(S) # 0
  BY FS_CardinalityType, FS_EmptySet
<1>2. \A x \in S : /\ below(x) \in SUBSET S /\ IsFiniteSet(below(x))
                   /\ Cardinality(below(x)) \in Nat
                   /\ Cardinality(below(x)) < Cardinality(S)
  <2> TAKE x \in S
  <2>1. below(x) \in SUBSET S /\ below(x) # S
    OBVIOUS
  <2>2. /\ IsFiniteSet(below(x)) /\ Cardinality(below(x)) <= Cardinality(S)
        /\ Cardinality(below(x)) # Cardinality(S)
    BY <2>1, FS_Subset
  <2>3. Cardinality(below(x)) \in Nat
    BY <2>2, FS_CardinalityType
  <2> QED BY <1>1, <2>1, <2>2, <2>3
<1>3. ASSUME NEW x \in S, NEW y \in S, x < y
      PROVE  Cardinality(below(x)) < Cardinality(below(y))
  <2>1. ~(x < x) /\ \A z \in S : z < x => z < y
    BY <1>3
  <2>2. below(x) \in SUBSET below(y) /\ x \in below(y) /\ x \notin below(x)
    BY <1>3, <2>1
  <2> HIDE DEF below
  <2>3. /\ Cardinality(below(x)) <= Cardinality(below(y))
        /\ Cardinality(below(x)) # Cardinality(below(y))
    BY <1>2, <2>2, FS_Subset
  <2> QED BY <1>2, <2>3
<1> SUFFICES ASSUME \A x \in S : \E y \in S : y < x
             PROVE  FALSE
  OBVIOUS
<1> DEFINE N == Cardinality(S)
<1>4. count \in [S -> 1 .. N - 1]
  <2>1. ASSUME NEW x \in S PROVE Cardinality(below(x)) # 0
    <3>1. below(x) # {}
      OBVIOUS
    <3> QED BY <1>2, <3>1, FS_EmptySet
  <2>2. \A x \in S : Cardinality(below(x)) \in 1 .. N - 1
    BY SMTT(30), <1>1, <1>2, <2>1
  <2> QED BY <2>2
<1>5. IsFiniteSet(1 .. N - 1) /\ Cardinality(1 .. N - 1) < N
  <2>1. IsFiniteSet(1 .. N - 1) /\ Cardinality(1 .. N - 1) = IF 1 > N - 1 THEN 0 ELSE N - 1 - 1 + 1
    BY <1>1, FS_Interval
  <2> QED BY <1>1, <2>1
<1>6. PICK x \in S, y \in S : x # y /\ count[x] = count[y]
  <2> HIDE DEF count, N
  <2>1. Cardinality(1 .. N - 1) < Cardinality(S)
    BY <1>5 DEF N
  <2> QED BY <1>4, <1>5, <2>1, FS_PigeonHole
<1>7. Cardinality(below(x)) = Cardinality(below(y))
  BY <1>6
<1>8. x < y \/ y < x
  BY <1>6
<1> HIDE DEF below
<1> QED BY <1>2, <1>3, <1>7, <1>8

\* A finite set of integers that is not empty has a greatest element.
LEMMA GreatestExists ==
  ASSUME NEW S \in SUBSET Int, IsFiniteSet(S), S # {}
  PROVE  \E x \in S : \A y \in S : x >= y
<1> DEFINE T == {-x : x \in S}
           f == [x \in S |-> -x]
<1>1. f \in Surjection(S, T)
  BY DEF Surjection
<1>2. IsFiniteSet(T) /\ T \in SUBSET Int /\ T # {}
  <2>1. T \in SUBSET Int /\ T # {}
    <3>1. \A x \in S : -x \in Int
      OBVIOUS
    <3> QED BY <3>1, Zenon
  <2> HIDE DEF T, f
  <2>2. IsFiniteSet(T)
    BY <1>1, FS_Surjection
  <2> QED BY <2>1, <2>2
<1>3. PICK z \in T : \A y \in T : z <= y
  BY <1>2, LeastExists
<1>4. PICK x \in S : z = -x
  OBVIOUS
<1>5. \A y \in S : -x <= -y
  BY <1>3, <1>4
<1> QED BY <1>5

\* Min and Max are the least and the greatest of the set.
LEMMA MinMaxFacts ==
  ASSUME NEW S \in SUBSET Int, IsFiniteSet(S), S # {}
  PROVE  /\ Min(S) \in S /\ \A x \in S : Min(S) <= x
         /\ Max(S) \in S /\ \A x \in S : x <= Max(S)
<1>1. PICK x \in S : \A y \in S : x <= y
  BY LeastExists
<1>2. PICK z \in S : \A y \in S : z >= y
  BY GreatestExists
<1>3. Min(S) \in S /\ \A x_1 \in S : Min(S) <= x_1
  BY <1>1 DEF Min
<1>4. Max(S) \in S /\ \A x_1 \in S : Max(S) >= x_1
  BY <1>2 DEF Max
<1>5. \A y \in S : y \in Int
  OBVIOUS
<1> QED BY <1>3, <1>4, <1>5

-----------------------------------------------------------------------------
(* Rectangles.                                                             *)

Rect == [x : Int, y : Int, w : Nat \ {0}, h : Nat \ {0}]

Point == Int \X Int

\* A point inside a rectangle (exit_edge returns None) is one within its bounds.
LEMMA InsideBounds ==
  ASSUME NEW r \in Rect, NEW p \in Point,
         r.x <= p[1], p[1] < r.x + r.w, r.y <= p[2], p[2] < r.y + r.h
  PROVE  Inside(r, p)
BY DEF Inside, ExitEdge, OutsideEdge, Rect, Point

\* Whatever the screens, the point of the grid that on_mouse_move names in a SwitchEnter
\* lies in the box of the peer, at the side that faces the edge the cursor left by: no
\* clamp of the code has its bounds in the wrong order, no point is a pixel off.  (It is
\* a point of the grid, not of the peer's desktop as the doc has it: EnterIsLocal.)
THEOREM EntersNearSide ==
  ASSUME NEW r \in Rect, NEW p \in Point, NEW e \in Edge, Behind(r, e, p)
  PROVE  EntersAt(r, e, EnterPoint(r, e, p))
<1> USE DEF Rect, Point
<1>0. /\ r.x \in Int /\ r.y \in Int /\ p[1] \in Int /\ p[2] \in Int
      /\ r.x + r.w - 1 \in Int /\ r.x <= r.x + r.w - 1
      /\ r.y + r.h - 1 \in Int /\ r.y <= r.y + r.h - 1
  OBVIOUS
<1>1. CASE e = "left"
  <2>1. EnterPoint(r, e, p) = <<r.x + r.w - 1, Clamp(p[2], r.y, r.y + r.h - 1)>>
    BY <1>1 DEF EnterPoint
  <2>2. Clamp(p[2], r.y, r.y + r.h - 1) \in r.y .. r.y + r.h - 1
    BY <1>0 DEF Clamp
  <2>3. Inside(r, EnterPoint(r, e, p))
    BY <2>1, <2>2, InsideBounds
  <2>4. ExitEdge(r, Before(EnterPoint(r, e, p), e)) = "right"
    BY <1>1, <2>1, <2>2 DEF Before, ExitEdge, OutsideEdge
  <2> QED BY <1>1, <2>3, <2>4 DEF EntersAt, Opposite
<1>2. CASE e = "right"
  <2>1. EnterPoint(r, e, p) = <<r.x, Clamp(p[2], r.y, r.y + r.h - 1)>>
    BY <1>2 DEF EnterPoint
  <2>2. Clamp(p[2], r.y, r.y + r.h - 1) \in r.y .. r.y + r.h - 1
    BY <1>0 DEF Clamp
  <2>3. Inside(r, EnterPoint(r, e, p))
    BY <2>1, <2>2, InsideBounds
  <2>4. ExitEdge(r, Before(EnterPoint(r, e, p), e)) = "left"
    BY <1>2, <2>1, <2>2 DEF Before, ExitEdge, OutsideEdge
  <2> QED BY <1>2, <2>3, <2>4 DEF EntersAt, Opposite
<1>3. CASE e = "top"
  <2>1. EnterPoint(r, e, p) = <<Clamp(p[1], r.x, r.x + r.w - 1), r.y + r.h - 1>>
    BY <1>3 DEF EnterPoint
  <2>2. Clamp(p[1], r.x, r.x + r.w - 1) \in r.x .. r.x + r.w - 1
    BY <1>0 DEF Clamp
  <2>3. Inside(r, EnterPoint(r, e, p))
    BY <2>1, <2>2, InsideBounds
  <2>4. ExitEdge(r, Before(EnterPoint(r, e, p), e)) = "bottom"
    BY <1>3, <2>1, <2>2 DEF Before, ExitEdge, OutsideEdge
  <2> QED BY <1>3, <2>3, <2>4 DEF EntersAt, Opposite
<1>4. CASE e = "bottom"
  <2>1. EnterPoint(r, e, p) = <<Clamp(p[1], r.x, r.x + r.w - 1), r.y>>
    BY <1>4 DEF EnterPoint
  <2>2. Clamp(p[1], r.x, r.x + r.w - 1) \in r.x .. r.x + r.w - 1
    BY <1>0 DEF Clamp
  <2>3. Inside(r, EnterPoint(r, e, p))
    BY <2>1, <2>2, InsideBounds
  <2>4. ExitEdge(r, Before(EnterPoint(r, e, p), e)) = "top"
    BY <1>4, <2>1, <2>2 DEF Before, ExitEdge, OutsideEdge
  <2> QED BY <1>4, <2>3, <2>4 DEF EntersAt, Opposite
<1> QED BY <1>1, <1>2, <1>3, <1>4 DEF Edge

-----------------------------------------------------------------------------
(* Screens, and the places of the machines in the grid.                    *)

Screens == Layout \cup {Desktop}

\* The box around the screens of a machine is a rectangle that has the corner of the
\* primary screen in it.
LEMMA AroundFacts ==
  ASSUME NEW screens \in Screens
  PROVE  LET r == Around(screens) IN
         /\ r \in Rect
         /\ r.x <= 0 /\ 0 < r.x + r.w /\ r.y <= 0 /\ 0 < r.y + r.h
<1>1. /\ IsFiniteSet(screens)
      /\ \A s \in screens : s.x \in Int /\ s.y \in Int /\ s.w \in Nat \ {0} /\ s.h \in Nat \ {0}
  BY ScreenAssumption DEF Screens
<1>2. PICK o \in screens : o.x = 0 /\ o.y = 0
  BY ScreenAssumption DEF Screens
<1> DEFINE X == {s.x : s \in screens}
           Y == {s.y : s \in screens}
           R == {s.x + s.w : s \in screens}
           B == {s.y + s.h : s \in screens}
<1>3. IsFiniteSet(X) /\ IsFiniteSet(Y) /\ IsFiniteSet(R) /\ IsFiniteSet(B)
  <2>1. [s \in screens |-> s.x] \in Surjection(screens, X)
    BY DEF Surjection
  <2>2. [s \in screens |-> s.y] \in Surjection(screens, Y)
    BY DEF Surjection
  <2>3. [s \in screens |-> s.x + s.w] \in Surjection(screens, R)
    BY DEF Surjection
  <2>4. [s \in screens |-> s.y + s.h] \in Surjection(screens, B)
    BY DEF Surjection
  <2> HIDE DEF X, Y, R, B
  <2> QED BY <1>1, <2>1, <2>2, <2>3, <2>4, FS_Surjection
<1>4. /\ X \in SUBSET Int /\ 0 \in X
      /\ Y \in SUBSET Int /\ 0 \in Y
  BY <1>1, <1>2
<1>5. /\ R \in SUBSET Int /\ o.w \in R /\ o.w >= 1
      /\ B \in SUBSET Int /\ o.h \in B /\ o.h >= 1
  BY <1>1, <1>2
<1>6. Around(screens) = [x |-> Min(X), y |-> Min(Y), w |-> Max(R) - Min(X), h |-> Max(B) - Min(Y)]
  BY DEF Around
<1> HIDE DEF X, Y, R, B
<1>7. /\ Min(X) \in Int /\ Min(X) <= 0
      /\ Min(Y) \in Int /\ Min(Y) <= 0
  BY <1>3, <1>4, MinMaxFacts
<1>8. /\ Max(R) \in Int /\ o.w <= Max(R)
      /\ Max(B) \in Int /\ o.h <= Max(B)
  BY <1>3, <1>5, MinMaxFacts
<1>9. o.w \in Int /\ o.h \in Int
  BY <1>5
<1>10. \A left, top, right, bottom \in Int :
         left <= 0 /\ top <= 0 /\ right >= 1 /\ bottom >= 1
           => /\ right - left \in Nat \ {0} /\ bottom - top \in Nat \ {0}
              /\ 0 < left + (right - left) /\ 0 < top + (bottom - top)
  OBVIOUS
<1>11. Max(R) >= 1 /\ Max(B) >= 1
  BY <1>5, <1>8, <1>9
<1>12. PICK left \in Int, top \in Int, right \in Int, bottom \in Int :
          /\ left = Min(X) /\ top = Min(Y) /\ right = Max(R) /\ bottom = Max(B)
          /\ left <= 0 /\ top <= 0 /\ right >= 1 /\ bottom >= 1
  BY <1>7, <1>8, <1>11, Zenon
<1>13. Around(screens) = [x |-> left, y |-> top, w |-> right - left, h |-> bottom - top]
  BY <1>6, <1>12
<1>14. Around(screens) \in Rect
  BY <1>10, <1>12, <1>13 DEF Rect
<1>15. LET r == Around(screens) IN
       r.x = left /\ r.y = top /\ r.w = right - left /\ r.h = bottom - top
  BY <1>13
<1> QED BY <1>10, <1>12, <1>14, <1>15

Entry == [screens : Screens, origin : Int \X Int, hotkey : 0 .. 9]

\* The box of an entry is that of its screens, moved by the origin of the entry.
LEMMA BboxFacts ==
  ASSUME NEW e \in Entry
  PROVE  LET r == Around(e.screens) IN
         /\ Bbox(e) \in Rect
         /\ Bbox(e).x = r.x + e.origin[1] /\ RightOf(Bbox(e)) = r.x + e.origin[1] + r.w
<1>1. e.screens \in Screens /\ e.origin[1] \in Int /\ e.origin[2] \in Int
  BY DEF Entry
<1>2. Around(e.screens) \in Rect
  BY <1>1, AroundFacts
<1>3. PICK r \in Rect : r = Around(e.screens)
  BY <1>2
<1>4. Bbox(e) = [r EXCEPT !.x = @ + e.origin[1], !.y = @ + e.origin[2]]
  BY <1>3 DEF Bbox, Moved
<1>5. /\ Bbox(e) = [x |-> r.x + e.origin[1], y |-> r.y + e.origin[2], w |-> r.w, h |-> r.h]
      /\ r.x \in Int /\ r.w \in Nat \ {0} /\ r.y \in Int /\ r.h \in Nat \ {0}
  BY <1>4 DEF Rect
<1>6. Bbox(e) \in Rect
  BY <1>1, <1>5 DEF Rect
<1>7. Bbox(e).x = r.x + e.origin[1] /\ RightOf(Bbox(e)) = r.x + e.origin[1] + r.w
  BY <1>5 DEF RightOf
<1> QED BY <1>3, <1>6, <1>7

\* A position kept on the screens is on them.
LEMMA KeptFacts ==
  ASSUME NEW screens \in Screens, NEW at \in Point
  PROVE  Kept(screens, at) \in Point /\ Inside(Around(screens), Kept(screens, at))
<1> DEFINE r == Around(screens)
           q == Kept(screens, at)
<1>1. r \in Rect
  BY AroundFacts
<1>2. q = <<Clamp(at[1], r.x, r.x + r.w - 1), Clamp(at[2], r.y, r.y + r.h - 1)>>
  BY DEF Kept
<1> HIDE DEF r, q
<1>3. /\ Clamp(at[1], r.x, r.x + r.w - 1) \in r.x .. r.x + r.w - 1
      /\ Clamp(at[2], r.y, r.y + r.h - 1) \in r.y .. r.y + r.h - 1
  BY <1>1 DEF Clamp, Rect, Point
<1>4. q \in Point /\ r.x <= q[1] /\ q[1] < r.x + r.w /\ r.y <= q[2] /\ q[2] < r.y + r.h
  BY <1>1, <1>2, <1>3 DEF Rect, Point
<1>5. Inside(r, q)
  BY <1>1, <1>4, InsideBounds
<1> QED BY <1>4, <1>5 DEF r, q

\* A position normalised to 65535ths and back stays within the desktop: a share of all
\* of it is still short of the next pixel.
LEMMA AlongFacts ==
  ASSUME NEW v \in Int, NEW low \in Int, NEW size \in Nat \ {0}
  PROVE  Along(v, low, size) \in low .. low + size - 1
<1> DEFINE ratio == (2 * (v - low) * 65535 + size) \div (2 * size)
           share == Normalised(v, low, size)
<1>1. ratio \in Int
  <2>1. \A a \in Int, b \in Nat \ {0} : a \div b \in Int
    OBVIOUS
  <2>2. 2 * (v - low) * 65535 + size \in Int /\ 2 * size \in Nat \ {0}
    OBVIOUS
  <2> QED BY <2>1, <2>2
<1>2. share \in Nat /\ share <= 65535
  <2>1. \A a \in Int : Clamp(a, 0, 65535) \in Nat /\ Clamp(a, 0, 65535) <= 65535
    BY DEF Clamp
  <2>2. share = Clamp(ratio, 0, 65535)
    BY DEF Normalised
  <2> HIDE DEF ratio, share
  <2> QED BY <1>1, <2>1, <2>2
<1> HIDE DEF ratio, share
<1>3. share * size \in Nat /\ share * size < 65536 * size
  <2> DEFINE rest == 65536 - share
  <2>1. rest \in Nat /\ rest > 0 /\ share \in Nat
    BY <1>2
  <2>2. rest * size > 0 /\ share * size \in Nat
    <3>1. \A a \in Nat, b \in Nat : a * b \in Nat /\ (a > 0 /\ b > 0 => a * b > 0)
      OBVIOUS
    <3> HIDE DEF rest
    <3> QED BY <2>1, <3>1
  <2>3. 65536 * size = rest * size + share * size
    BY <2>1
  <2> HIDE DEF rest
  <2> QED BY <2>1, <2>2, <2>3
<1>4. (share * size) \div 65536 \in 0 .. size - 1
  <2> DEFINE a == share * size
  <2>1. a \in Nat /\ a < 65536 * size
    BY <1>3
  <2> HIDE DEF a
  <2>2. a \div 65536 \in 0 .. size - 1
    BY <2>1
  <2> QED BY <2>2 DEF a
<1> QED BY <1>4 DEF Along, Pixel, share

\* A position that SendInput was given ends on the screens.
LEMMA OntoFacts ==
  ASSUME NEW screens \in Screens, NEW at \in Point
  PROVE  Onto(screens, at) \in Point /\ Inside(Around(screens), Onto(screens, at))
<1> DEFINE r == Around(screens)
           q == Onto(screens, at)
<1>1. r \in Rect
  BY AroundFacts
<1>2. q = <<Along(at[1], r.x, r.w), Along(at[2], r.y, r.h)>>
  BY DEF Onto
<1> HIDE DEF r, q
<1>3. r.x \in Int /\ r.y \in Int /\ r.w \in Nat \ {0} /\ r.h \in Nat \ {0}
  BY <1>1 DEF Rect
<1>4. Along(at[1], r.x, r.w) \in r.x .. r.x + r.w - 1 /\ Along(at[2], r.y, r.h) \in r.y .. r.y + r.h - 1
  BY <1>3, AlongFacts DEF Point
<1>5. q \in Point /\ r.x <= q[1] /\ q[1] < r.x + r.w /\ r.y <= q[2] /\ q[2] < r.y + r.h
  BY <1>2, <1>3, <1>4 DEF Point
<1>6. Inside(r, q)
  BY <1>1, <1>5, InsideBounds
<1> QED BY <1>5, <1>6 DEF r, q

\* A cursor stays on the screens of its machine, its own system or SendInput moving it.
LEMMA ReachedFacts ==
  ASSUME NEW m, ScreensOf(m) \in Screens, NEW at \in Point
  PROVE  Reached(m, at) \in Point /\ Inside(Around(ScreensOf(m)), Reached(m, at))
BY KeptFacts, OntoFacts DEF Reached

-----------------------------------------------------------------------------
(* The inductive invariant.                                                *)

Event == [kind : {"move"}, at : Point, by : Point]
           \cup [kind : {"key"}, key : Key, down : BOOLEAN, chord : BOOLEAN]

\* The local machine never leaves the grid, and its entry never changes.
GridInv ==
  /\ IsFiniteSet(DOMAIN grid) /\ Me \in DOMAIN grid /\ DOMAIN grid \subseteq Machine
  /\ grid \in [DOMAIN grid -> Entry] /\ grid[Me] = LocalEntry(Desktop)
  /\ \A m \in DOMAIN grid : grid[m].origin[1] < GridBound

CursorInv ==
  /\ cursor \in [Machine -> Point]
  /\ \A m \in DOMAIN grid : Inside(Around(ScreensOf(m)), cursor[m])

Hits == [edge : Edge \cup {"none"}, age : 0 .. Dwell]

\* The loop asks for suppression exactly while it has a target.
EngineInv ==
  /\ current \in Peer \cup {None} /\ current_target \in Peer \cup {None}
  /\ last_edge_hit \in Hits /\ last_switch \in 0 .. Cooldown
  /\ requested \in BOOLEAN /\ SUPPRESS \in BOOLEAN
  /\ requested <=> current_target # None

QueueInv == queue \in Seq(Event) /\ Len(queue) <= QueueBound

KeysInv == held \subseteq Key /\ crossed \subseteq Key /\ pressed \in [Machine -> SUBSET Key]

About(e, k) == e.kind # "move" /\ e.key = k

\* The last event of the queue about k is that the user holds it, or does not.
LastIsHeld(k) ==
  \A i \in DOMAIN queue :
     About(queue[i], k) /\ (\A j \in DOMAIN queue : About(queue[j], k) => j <= i)
       => (queue[i].down <=> k \in held)

\* A key that was not held while the input changed machine: the local system has seen
\* all of it or, suppressed, nothing; the target will have, once the queue is empty;
\* no other machine has it down.
Followed(k) ==
  /\ k \in pressed[Me] <=> k \in held /\ ~SUPPRESS
  /\ \A m \in Peer \ {current_target} : k \notin pressed[m]
  /\ current_target # None =>
       /\ LastIsHeld(k)
       /\ ~Queued(k) => (k \in pressed[current_target] <=> k \in held)

KeysFollowed == \A k \in Key \ crossed : Followed(k)

IInv == GridInv /\ PrimariesInOrder /\ CursorInv /\ EngineInv /\ QueueInv /\ KeysInv /\ KeysFollowed

\* The bounds are positive, the desktops lists of rectangles.
LEMMA BoundFacts ==
  /\ QueueBound \in Nat \ {0} /\ GridBound \in Nat \ {0}
  /\ Desktop \in Screens /\ \A screens \in Layout : screens \in Screens
BY BoundAssumption DEF Screens

-----------------------------------------------------------------------------
(* Peers come and go.                                                      *)

\* This PC has an entry, and its left side is at 0 or left of it.
LEMMA LocalEntryFacts == LocalEntry(Desktop) \in Entry /\ LocalEntry(Desktop).origin[1] <= 0
<1>1. Around(Desktop) \in Rect /\ Around(Desktop).x <= 0
  BY BoundFacts, AroundFacts
<1>2. /\ LocalEntry(Desktop).screens = Desktop /\ LocalEntry(Desktop).hotkey = 0
      /\ LocalEntry(Desktop).origin[1] = Around(Desktop).x
  BY DEF LocalEntry
<1>3. LocalEntry(Desktop) \in Entry
  BY <1>1, BoundFacts DEF LocalEntry, Entry, Rect
<1> QED BY <1>1, <1>2, <1>3

\* MaxRight is an abscissa that no entry passes.
LEMMA MaxRightFacts ==
  ASSUME GridInv
  PROVE  MaxRight(grid) \in Int /\ \A q \in DOMAIN grid : RightOf(Bbox(grid[q])) <= MaxRight(grid)
<1> DEFINE R == {RightOf(Bbox(grid[q])) : q \in DOMAIN grid}
<1>1. \A q \in DOMAIN grid : RightOf(Bbox(grid[q])) \in Int
  <2> TAKE q \in DOMAIN grid
  <2>1. grid[q] \in Entry
    BY DEF GridInv
  <2>2. Bbox(grid[q]) \in Rect
    BY <2>1, BboxFacts
  <2> QED BY <2>2 DEF Rect, RightOf
<1>2. R \in SUBSET Int /\ R # {}
  BY <1>1 DEF GridInv
<1>3. [q \in DOMAIN grid |-> RightOf(Bbox(grid[q]))] \in Surjection(DOMAIN grid, R)
  BY DEF Surjection
<1>4. IsFiniteSet(R)
  <2> HIDE DEF R
  <2> QED BY <1>3, FS_Surjection DEF GridInv
<1>5. \A q \in DOMAIN grid : RightOf(Bbox(grid[q])) \in R
  OBVIOUS
<1>6. MaxRight(grid) = Max(R)
  BY DEF MaxRight
<1> HIDE DEF R
<1>7. Max(R) \in R /\ \A x \in R : x <= Max(R)
  BY <1>2, <1>4, MinMaxFacts
<1> QED BY <1>2, <1>5, <1>6, <1>7

\* A peer that registers is placed beyond every entry.
LEMMA PlacedFacts ==
  ASSUME GridInv, NEW screens \in Layout
  PROVE  LET e == Placed(grid, LocalBbox, screens)
         IN  /\ e \in Entry /\ e.screens = screens /\ e.origin[1] = MaxRight(grid)
             /\ RightOf(Bbox(e)) \in Int /\ RightOf(Bbox(e)) > MaxRight(grid)
<1> DEFINE e == Placed(grid, LocalBbox, screens)
<1>1. MaxRight(grid) \in Int
  BY MaxRightFacts
<1>2. LocalBbox \in Rect /\ screens \in Screens
  BY BoundFacts, AroundFacts DEF LocalBbox
<1>3. e.screens = screens /\ e.origin[1] = MaxRight(grid)
  BY DEF Placed
<1>4. e \in Entry
  <2>1. HotkeyIndex(grid) \in 0 .. 9
    BY DEF HotkeyIndex
  <2>2. LocalBbox.y \in Int
    BY <1>2 DEF Rect
  <2> QED BY <1>1, <1>2, <2>1, <2>2 DEF Placed, Entry
<1> HIDE DEF e
<1>5. /\ Around(screens) \in Rect /\ 0 < Around(screens).x + Around(screens).w
      /\ RightOf(Bbox(e)) = Around(screens).x + e.origin[1] + Around(screens).w
  BY <1>2, <1>3, <1>4, AroundFacts, BboxFacts
<1>6. RightOf(Bbox(e)) \in Int /\ RightOf(Bbox(e)) > MaxRight(grid)
  BY <1>1, <1>3, <1>5 DEF Rect
<1> QED BY <1>3, <1>4, <1>6 DEF e

\* A peer that registers is placed right of all others.
LEMMA JoinKeepsGrid ==
  ASSUME GridInv, PrimariesInOrder, NEW p \in Peer, NEW screens \in Layout, Join(p, screens)
  PROVE  GridInv' /\ PrimariesInOrder'
<1> DEFINE e == Placed(grid, LocalBbox, screens)
<1>1. /\ e \in Entry /\ e.origin[1] = MaxRight(grid)
      /\ RightOf(Bbox(e)) \in Int /\ RightOf(Bbox(e)) > MaxRight(grid)
  BY PlacedFacts
<1>2. /\ DOMAIN grid' = DOMAIN grid \cup {p} /\ p \notin DOMAIN grid
      /\ grid'[p] = e /\ \A q \in DOMAIN grid : grid'[q] = grid[q]
      /\ grid' = [q \in DOMAIN grid \cup {p} |-> IF q = p THEN e ELSE grid[q]]
      /\ MaxRight(grid) < GridBound
  BY DEF Join
<1> HIDE DEF e
<1>3. GridInv'
  <2>1. IsFiniteSet(DOMAIN grid')
    BY <1>2, FS_AddElement DEF GridInv
  <2>2. grid' \in [DOMAIN grid' -> Entry]
    BY <1>1, <1>2 DEF GridInv
  <2>3. DOMAIN grid' \subseteq Machine /\ Me \in DOMAIN grid' /\ grid'[Me] = LocalEntry(Desktop)
    BY <1>2 DEF GridInv, Machine
  <2>4. \A m \in DOMAIN grid' : grid'[m].origin[1] < GridBound
    BY <1>1, <1>2 DEF GridInv
  <2> QED BY <2>1, <2>2, <2>3, <2>4 DEF GridInv
<1>4. PrimariesInOrder'
  <2>1. SUFFICES ASSUME NEW r \in DOMAIN grid' \ {Me}, NEW q \in DOMAIN grid' \ {r}
                 PROVE  LET mine == RightOf(Bbox(grid'[r]))
                            other == RightOf(Bbox(grid'[q]))
                        IN  other # mine /\ (other < mine => other <= grid'[r].origin[1])
    BY DEF PrimariesInOrder
  <2>2. \A m \in DOMAIN grid : /\ RightOf(Bbox(grid[m])) <= MaxRight(grid)
                               /\ RightOf(Bbox(grid[m])) \in Int
    <3>1. \A m \in DOMAIN grid : grid[m] \in Entry
      BY DEF GridInv
    <3>2. \A m \in DOMAIN grid : Bbox(grid[m]) \in Rect
      BY <3>1, BboxFacts
    <3> QED BY <3>2, MaxRightFacts DEF Rect, RightOf
  <2>3. MaxRight(grid) \in Int
    BY MaxRightFacts
  <2>4. CASE r = p
    <3>1. q \in DOMAIN grid /\ grid'[r] = e /\ grid'[q] = grid[q]
      BY <1>2, <2>4
    <3> QED BY <1>1, <2>2, <2>3, <3>1
  <2>5. CASE r # p /\ q = p
    <3>1. r \in DOMAIN grid /\ grid'[r] = grid[r] /\ grid'[q] = e
      BY <1>2, <2>5
    <3> QED BY <1>1, <2>2, <2>3, <3>1
  <2>6. CASE r # p /\ q # p
    <3>1. /\ r \in DOMAIN grid \ {Me} /\ q \in DOMAIN grid \ {r}
          /\ grid'[r] = grid[r] /\ grid'[q] = grid[q]
      BY <1>2, <2>6
    <3> QED BY <3>1 DEF PrimariesInOrder
  <2> QED BY <2>4, <2>5, <2>6
<1> QED BY <1>3, <1>4

\* A peer that leaves takes its place with it.
LEMMA LeaveKeepsGrid ==
  ASSUME GridInv, PrimariesInOrder, NEW p \in Peer, Leave(p)
  PROVE  GridInv' /\ PrimariesInOrder'
<1>1. /\ DOMAIN grid' = DOMAIN grid \ {p} /\ Me # p
      /\ grid' = [q \in DOMAIN grid \ {p} |-> grid[q]]
      /\ \A q \in DOMAIN grid' : grid'[q] = grid[q]
  BY MachineAssumption DEF Leave
<1>2. IsFiniteSet(DOMAIN grid')
  BY <1>1, FS_RemoveElement DEF GridInv
<1>3. GridInv'
  BY <1>1, <1>2 DEF GridInv
<1>4. PrimariesInOrder'
  BY <1>1 DEF PrimariesInOrder
<1> QED BY <1>3, <1>4

\* The other actions leave the grid alone.
LEMMA GridStep == GridInv /\ PrimariesInOrder /\ [Next]_vars => GridInv' /\ PrimariesInOrder'
<1> SUFFICES ASSUME GridInv, PrimariesInOrder, [Next]_vars PROVE GridInv' /\ PrimariesInOrder'
  OBVIOUS
<1>1. CASE grid' = grid
  BY <1>1 DEF GridInv, PrimariesInOrder
<1>2. ASSUME NEW p \in Peer, NEW screens \in Layout, Join(p, screens)
      PROVE  GridInv' /\ PrimariesInOrder'
  BY <1>2, JoinKeepsGrid
<1>3. ASSUME NEW p \in Peer, Leave(p) PROVE GridInv' /\ PrimariesInOrder'
  BY <1>3, LeaveKeepsGrid
<1> QED
  BY <1>1, <1>2, <1>3
  DEF Next, vars, MoveMouse, PressOrRelease, Hook, StoreSuppress, Loop, Tick

-----------------------------------------------------------------------------
(* The engine, the loop and the cursors.                                   *)

\* A master that has just started satisfies the invariant.
LEMMA InitHolds == Init => IInv
<1> SUFFICES ASSUME Init PROVE IInv
  OBVIOUS
<1>1. /\ DOMAIN grid = {Me} /\ grid[Me] = LocalEntry(Desktop)
      /\ grid = [m \in {Me} |-> LocalEntry(Desktop)]
  BY DEF Init
<1>2. /\ LocalEntry(Desktop) \in Entry /\ LocalEntry(Desktop).screens = Desktop
      /\ LocalEntry(Desktop).origin[1] < GridBound
  <2>1. LocalEntry(Desktop).origin[1] \in Int
    BY LocalEntryFacts DEF Entry
  <2> QED BY <2>1, LocalEntryFacts, BoundFacts DEF LocalEntry
<1>3. GridInv
  <2>1. IsFiniteSet(DOMAIN grid)
    BY <1>1, FS_Singleton
  <2> QED BY <1>1, <1>2, <2>1 DEF GridInv, Machine
<1>4. PrimariesInOrder
  BY <1>1 DEF PrimariesInOrder
<1>5. CursorInv
  <2>1. /\ Around(Desktop) \in Rect
        /\ LET r == Around(Desktop) IN
           r.x <= 0 /\ 0 < r.x + r.w /\ r.y <= 0 /\ 0 < r.y + r.h
    BY BoundFacts, AroundFacts
  <2>2. Inside(Around(Desktop), <<0, 0>>)
    BY <2>1, InsideBounds DEF Point
  <2>3. cursor \in [Machine -> Point] /\ cursor[Me] = <<0, 0>>
    BY DEF Init, Point, Machine
  <2> QED BY <1>1, <1>2, <2>2, <2>3 DEF CursorInv, ScreensOf
<1>6. EngineInv
  <2>1. last_edge_hit \in Hits /\ last_switch \in 0 .. Cooldown
    BY DEF Init, Hits, NoHit, Cooldown, Dwell
  <2>2. /\ current = None /\ current_target = None
        /\ requested = FALSE /\ SUPPRESS = FALSE
    BY DEF Init
  <2> QED BY <2>1, <2>2 DEF EngineInv
<1>7. QueueInv /\ KeysInv
  BY BoundFacts DEF Init, QueueInv, KeysInv
<1>8. KeysFollowed
  <2>1. current_target = None /\ held = {} /\ \A m \in Machine : pressed[m] = {}
    BY DEF Init
  <2> QED BY <2>1 DEF KeysFollowed, Followed, Machine
<1> QED BY <1>3, <1>4, <1>5, <1>6, <1>7, <1>8 DEF IInv

\* What on_input decides: a peer of the grid, or none, and a state of the engine.  The
\* local machine, which has no digit, is never the target.
LEMMA OutcomeFacts ==
  ASSUME GridInv, EngineInv, NEW e \in Event, NEW o \in OnInput(e)
  PROVE  /\ o.target \in Peer \cup {None} /\ o.current \in Peer \cup {None}
         /\ o.hit \in Hits /\ o.since \in 0 .. Cooldown
<1> DEFINE Good(x) == /\ x.target \in Peer \cup {None} /\ x.current \in Peer \cup {None}
                      /\ x.hit \in Hits /\ x.since \in 0 .. Cooldown
<1>0. /\ DOMAIN grid \ {Me} \subseteq Peer /\ 0 \in 0 .. Cooldown /\ NoHit \in Hits
      /\ current \in Peer \cup {None} /\ last_switch \in 0 .. Cooldown
      /\ last_edge_hit \in Hits
  BY DEF GridInv, Machine, NoHit, Hits, Cooldown, Dwell, EngineInv
<1>1. ASSUME NEW t \in Peer \cup {None}, NEW c \in Peer \cup {None},
             NEW h \in Hits, NEW s \in 0 .. Cooldown
      PROVE  Good(Outcome(t, c, h, s))
  BY DEF Outcome
<1>2. ASSUME NEW h \in Hits PROVE Good(Stay(h))
  BY <1>0, <1>1 DEF Stay
<1> SUFFICES Good(o)
  OBVIOUS
<1> HIDE DEF Good
<1>3. CASE e.kind = "move"
  <2> DEFINE edge == ExitEdge(LocalBbox, e.at)
             next == Neighbors(grid, Me, edge, e.at)
  <2>1. edge \in Edge \cup {"none"}
    BY DEF ExitEdge, Edge
  <2>2. Hit(edge) \in Hits
    BY <1>0, <2>1 DEF Hit, Hits, Dwell
  <2>3. \A q \in next : q \in Peer
    BY <1>0 DEF Neighbors
  <2>4. o \in OnMouseMove(e.at)
    BY <1>3 DEF OnInput
  <2> HIDE DEF edge, next
  <2>5. \/ o = Stay(last_edge_hit)
        \/ o = Stay(NoHit)
        \/ o = Stay(Hit(edge))
        \/ \E q \in next : o = Outcome(q, q, NoHit, 0)
    <3>1. last_switch < Cooldown \/ last_switch = Cooldown
      BY <1>0 DEF Cooldown
    <3> QED BY <2>4, <3>1 DEF OnMouseMove, edge, next
  <2> QED BY <1>0, <1>1, <1>2, <2>2, <2>3, <2>5
<1>4. CASE e.kind # "move"
  <2>1. \/ o = Stay(last_edge_hit)
        \/ e.key \in DOMAIN DigitOf /\ o \in OnHotkey(DigitOf[e.key])
    BY <1>4 DEF OnInput
  <2>2. ASSUME NEW digit \in 0 .. 9, o \in OnHotkey(digit)
        PROVE  \/ o = Stay(last_edge_hit)
               \/ o = Outcome(None, None, last_edge_hit, last_switch)
               \/ \E q \in Peer : o = Outcome(q, q, last_edge_hit, 0)
    <3>1. digit # 0 => ByHotkey(grid, digit) \subseteq Peer
      <4>1. grid[Me].hotkey = 0
        BY DEF GridInv, LocalEntry
      <4> QED BY <1>0, <4>1 DEF ByHotkey
    <3> QED BY <2>2, <3>1 DEF OnHotkey
  <2>3. /\ Good(Stay(last_edge_hit)) /\ Good(Outcome(None, None, last_edge_hit, last_switch))
        /\ \A q \in Peer : Good(Outcome(q, q, last_edge_hit, 0))
    BY <1>0, <1>1, <1>2
  <2>4. \A k \in DOMAIN DigitOf : DigitOf[k] \in 0 .. 9
    BY KeyAssumption
  <2> QED BY <2>1, <2>2, <2>3, <2>4
<1> QED BY <1>3, <1>4

\* What an event does to the machine it reaches: its cursor stays on its screens, and
\* one key of one machine changes.
LEMMA InjectFacts ==
  ASSUME GridInv, CursorInv, KeysInv, NEW m \in DOMAIN grid, NEW e \in Event,
         Inject(m, e), grid' = grid
  PROVE  /\ CursorInv'
         /\ e.kind = "move" => pressed' = pressed
         /\ e.kind # "move" =>
              pressed' = [pressed EXCEPT ![m] = IF e.down THEN @ \cup {e.key} ELSE @ \ {e.key}]
         /\ pressed' \in [Machine -> SUBSET Key]
<1>1. m \in Machine /\ ScreensOf(m) \in Screens
  BY DEF GridInv, ScreensOf, Entry
<1>2. CASE e.kind = "move"
  <2>1. e.at \in Point
    BY <1>2 DEF Event
  <2>2. cursor' = [cursor EXCEPT ![m] = Reached(m, e.at)] /\ pressed' = pressed
    BY <1>2 DEF Inject
  <2>3. /\ Reached(m, e.at) \in Point
        /\ Inside(Around(ScreensOf(m)), Reached(m, e.at))
    BY <1>1, <2>1, ReachedFacts
  <2>4. CursorInv'
    BY <1>1, <2>2, <2>3 DEF CursorInv, ScreensOf, GridInv
  <2> QED BY <1>2, <2>2, <2>4 DEF KeysInv
<1>3. CASE e.kind # "move"
  <2>1. e.kind = "key" /\ e.key \in Key /\ e.down \in BOOLEAN
    BY <1>3 DEF Event
  <2>2. /\ cursor' = cursor
        /\ pressed' = [pressed EXCEPT ![m] = IF e.down THEN @ \cup {e.key} ELSE @ \ {e.key}]
    BY <1>3, <2>1 DEF Inject
  <2>3. CursorInv'
    BY <2>2 DEF CursorInv, ScreensOf
  <2>4. pressed' \in [Machine -> SUBSET Key]
    BY <1>1, <2>1, <2>2 DEF KeysInv
  <2> QED BY <1>3, <2>2, <2>3, <2>4
<1> QED BY <1>2, <1>3

\* One iteration of the loop: the target it leaves, and whom the event reaches.
LEMMA LoopFacts ==
  ASSUME GridInv, EngineInv, QueueInv, Loop
  PROVE  /\ Head(queue) \in Event
         /\ current' \in Peer \cup {None} /\ last_edge_hit' \in Hits /\ last_switch' \in 0 .. Cooldown
         /\ requested' \in BOOLEAN /\ (requested' <=> current_target' # None)
         /\ \/ /\ current_target' \in Peer \cap DOMAIN grid
               /\ Inject(current_target', Head(queue))
            \/ current_target' = None /\ cursor' = cursor /\ pressed' = pressed
<1>1. queue # <<>> /\ Head(queue) \in Event
  BY HeadTailProperties DEF Loop, QueueInv
<1>2. PICK o \in OnInput(Head(queue)) :
        /\ current' = o.current /\ last_edge_hit' = o.hit /\ last_switch' = o.since
        /\ LET target == TargetAfter(o) IN
           IF target # None /\ target \in DOMAIN grid
           THEN /\ current_target' = target
                /\ requested' = IF o.target # None THEN TRUE ELSE requested
                /\ Inject(target, Head(queue))
           ELSE /\ current_target' = None
                /\ requested' = IF current_target # None THEN FALSE ELSE requested
                /\ UNCHANGED machineVars
  BY DEF Loop
<1>3. /\ o.target \in Peer \cup {None} /\ o.current \in Peer \cup {None}
      /\ o.hit \in Hits /\ o.since \in 0 .. Cooldown
  BY <1>1, OutcomeFacts
<1>4. TargetAfter(o) \in Peer \cup {None} /\ (o.target = None => TargetAfter(o) \in {None, current_target})
  BY <1>3 DEF TargetAfter, EngineInv
<1>5. CASE TargetAfter(o) # None /\ TargetAfter(o) \in DOMAIN grid
  <2>1. /\ current_target' = TargetAfter(o) /\ Inject(current_target', Head(queue))
        /\ requested' = IF o.target # None THEN TRUE ELSE requested
    BY <1>2, <1>5
  <2> QED BY <1>1, <1>2, <1>3, <1>4, <1>5, <2>1 DEF EngineInv
<1>6. CASE ~(TargetAfter(o) # None /\ TargetAfter(o) \in DOMAIN grid)
  <2>1. /\ current_target' = None /\ cursor' = cursor /\ pressed' = pressed
        /\ requested' = IF current_target # None THEN FALSE ELSE requested
    BY <1>2, <1>6 DEF machineVars
  <2> QED BY <1>1, <1>2, <1>3, <2>1 DEF EngineInv
<1> QED BY <1>5, <1>6

\* What the hooks do: the event is queued, and the local machine has it or not.
LEMMA HookFacts ==
  ASSUME GridInv, CursorInv, QueueInv, KeysInv, NEW e \in Event, Hook(e)
  PROVE  /\ QueueInv' /\ CursorInv' /\ pressed' \in [Machine -> SUBSET Key]
         /\ DOMAIN queue' = 1 .. Len(queue) + 1 /\ DOMAIN queue = 1 .. Len(queue)
         /\ queue'[Len(queue) + 1] = e /\ \A i \in 1 .. Len(queue) : queue'[i] = queue[i]
         /\ SUPPRESS \/ e.kind = "move" => pressed' = pressed
         /\ ~SUPPRESS /\ e.kind # "move" =>
              pressed' = [pressed EXCEPT ![Me] = IF e.down THEN @ \cup {e.key} ELSE @ \ {e.key}]
<1>1. queue' = Append(queue, e) /\ Len(queue) < QueueBound /\ grid' = grid
  BY DEF Hook
<1>2. queue \in Seq(Event) /\ Len(queue) \in Nat
  BY DEF QueueInv
<1>3. queue' \in Seq(Event) /\ Len(queue') = Len(queue) + 1
  BY <1>1, <1>2
<1>4. QueueInv'
  BY <1>1, <1>2, <1>3, BoundFacts DEF QueueInv
<1>5. /\ DOMAIN queue' = 1 .. Len(queue) + 1 /\ DOMAIN queue = 1 .. Len(queue)
      /\ queue'[Len(queue) + 1] = e /\ \A i \in 1 .. Len(queue) : queue'[i] = queue[i]
  BY <1>1, <1>2
<1>6. CASE SUPPRESS
  <2>1. cursor' = cursor /\ pressed' = pressed
    BY <1>6 DEF Hook, machineVars
  <2> QED BY <1>1, <1>4, <1>5, <1>6, <2>1 DEF CursorInv, ScreensOf, KeysInv
<1>7. CASE ~SUPPRESS
  <2>1. Inject(Me, e) /\ Me \in DOMAIN grid
    BY <1>7 DEF Hook, GridInv
  <2> QED BY <1>1, <1>4, <1>5, <1>7, <2>1, InjectFacts
<1> QED BY <1>6, <1>7

\* The events that the two actions of the user hand to the hooks.
LEMMA UserEvents ==
  ASSUME CursorInv
  PROVE  /\ \A d \in Shift : [kind |-> "move", by |-> d,
                              at |-> <<cursor[Me][1] + d[1], cursor[Me][2] + d[2]>>] \in Event
         /\ \A k \in Key, down \in BOOLEAN, chord \in BOOLEAN :
              [kind |-> "key", key |-> k, down |-> IsDown(down, chord), chord |-> chord] \in Event
<1>1. ASSUME NEW d \in Shift
      PROVE  [kind |-> "move", by |-> d,
              at |-> <<cursor[Me][1] + d[1], cursor[Me][2] + d[2]>>] \in Event
  <2>1. d[1] \in Int /\ d[2] \in Int /\ d \in Point
    BY ShiftAssumption DEF Point
  <2>2. cursor[Me][1] \in Int /\ cursor[Me][2] \in Int
    BY DEF CursorInv, Machine, Point
  <2>3. <<cursor[Me][1] + d[1], cursor[Me][2] + d[2]>> \in Point
    BY <2>1, <2>2 DEF Point
  <2> QED BY <2>1, <2>3 DEF Event
<1>2. \A k \in Key, down \in BOOLEAN, chord \in BOOLEAN :
        [kind |-> "key", key |-> k, down |-> IsDown(down, chord), chord |-> chord] \in Event
  BY DEF Event, IsDown
<1> QED BY <1>1, <1>2

\* What a step of the user is: an event of his goes through the hooks.
LEMMA UserSteps ==
  ASSUME CursorInv
  PROVE  /\ \A d \in Shift : MoveMouse(d) =>
              \E e \in Event : e.kind = "move" /\ Hook(e) /\ UNCHANGED <<held, crossed>>
         /\ \A k \in Key, down \in BOOLEAN : PressOrRelease(k, down) =>
              \E e \in Event :
                 /\ e.kind = "key" /\ e.key = k /\ e.down = down /\ Hook(e)
                 /\ held' = IF down THEN held \cup {k} ELSE held \ {k}
                 /\ crossed' = IF k \notin held /\ Fresh(k) THEN crossed \ {k} ELSE crossed
<1>1. ASSUME NEW d \in Shift, MoveMouse(d)
      PROVE  \E e \in Event : e.kind = "move" /\ Hook(e) /\ UNCHANGED <<held, crossed>>
  <2> DEFINE e == [kind |-> "move", at |-> <<cursor[Me][1] + d[1], cursor[Me][2] + d[2]>>, by |-> d]
  <2>1. e \in Event /\ e.kind = "move"
    BY UserEvents
  <2>2. Hook(e) /\ UNCHANGED <<held, crossed>>
    BY <1>1 DEF MoveMouse
  <2> QED BY <2>1, <2>2
<1>2. ASSUME NEW k \in Key, NEW down \in BOOLEAN, PressOrRelease(k, down)
      PROVE  \E e \in Event :
                 /\ e.kind = "key" /\ e.key = k /\ e.down = down /\ Hook(e)
                 /\ held' = IF down THEN held \cup {k} ELSE held \ {k}
                 /\ crossed' = IF k \notin held /\ Fresh(k) THEN crossed \ {k} ELSE crossed
  <2>1. PICK chord \in BOOLEAN :
          Hook([kind |-> "key", key |-> k, down |-> IsDown(down, chord), chord |-> chord])
    BY <1>2 DEF PressOrRelease
  <2> DEFINE e == [kind |-> "key", key |-> k, down |-> IsDown(down, chord), chord |-> chord]
  <2>2. e \in Event /\ e.kind = "key" /\ e.key = k /\ e.down = down
    BY UserEvents DEF IsDown
  <2> QED BY <1>2, <2>1, <2>2 DEF PressOrRelease
<1> QED BY <1>1, <1>2

\* The types, the bounds and the cursors: one step per action.
LEMMA StateStep ==
  GridInv /\ CursorInv /\ EngineInv /\ QueueInv /\ KeysInv /\ [Next]_vars
    => CursorInv' /\ EngineInv' /\ QueueInv' /\ KeysInv'
<1> SUFFICES ASSUME GridInv, CursorInv, EngineInv, QueueInv, KeysInv, [Next]_vars
             PROVE  CursorInv' /\ EngineInv' /\ QueueInv' /\ KeysInv'
  OBVIOUS
<1>0. /\ cursor' = cursor /\ grid' = grid => CursorInv'
      /\ UNCHANGED <<engineVars, loopVars, SUPPRESS>> => EngineInv'
      /\ queue' = queue => QueueInv'
      /\ pressed' = pressed /\ held' \subseteq Key /\ crossed' \subseteq Key => KeysInv'
  BY DEF CursorInv, ScreensOf, EngineInv, engineVars, loopVars, QueueInv, KeysInv
<1>1. ASSUME NEW d \in Shift, MoveMouse(d)
      PROVE  CursorInv' /\ EngineInv' /\ QueueInv' /\ KeysInv'
  <2>1. PICK e \in Event : Hook(e) /\ UNCHANGED <<held, crossed>>
    BY <1>1, UserSteps
  <2>2. QueueInv' /\ CursorInv' /\ pressed' \in [Machine -> SUBSET Key]
    BY <2>1, HookFacts
  <2>3. UNCHANGED <<engineVars, loopVars, SUPPRESS>>
    BY <2>1 DEF Hook
  <2> QED BY <1>0, <2>1, <2>2, <2>3 DEF KeysInv
<1>2. ASSUME NEW k \in Key, NEW down \in BOOLEAN, PressOrRelease(k, down)
      PROVE  CursorInv' /\ EngineInv' /\ QueueInv' /\ KeysInv'
  <2>1. PICK e \in Event :
          /\ Hook(e) /\ held' = IF down THEN held \cup {k} ELSE held \ {k}
          /\ crossed' = IF k \notin held /\ Fresh(k) THEN crossed \ {k} ELSE crossed
    BY <1>2, UserSteps
  <2>2. QueueInv' /\ CursorInv' /\ pressed' \in [Machine -> SUBSET Key]
    BY <2>1, HookFacts
  <2>3. UNCHANGED <<engineVars, loopVars, SUPPRESS>>
    BY <2>1 DEF Hook
  <2> QED BY <1>0, <2>1, <2>2, <2>3 DEF KeysInv
<1>3. ASSUME StoreSuppress PROVE CursorInv' /\ EngineInv' /\ QueueInv' /\ KeysInv'
  <2>1. EngineInv'
    BY <1>3 DEF StoreSuppress, EngineInv, engineVars, loopVars
  <2> QED BY <1>0, <1>3, <2>1 DEF StoreSuppress, machineVars, KeysInv, Crossing
<1>4. ASSUME Loop PROVE CursorInv' /\ EngineInv' /\ QueueInv' /\ KeysInv'
  <2>1. EngineInv'
    BY <1>4, LoopFacts DEF EngineInv, Loop
  <2>2. QueueInv'
    <3>1. queue # <<>> /\ queue' = Tail(queue) /\ queue \in Seq(Event)
      BY <1>4 DEF Loop, QueueInv
    <3>2. queue' \in Seq(Event) /\ Len(queue') = Len(queue) - 1 /\ Len(queue) \in Nat
      BY <3>1, HeadTailProperties
    <3> QED BY <3>2, BoundFacts DEF QueueInv
  <2>3. CursorInv' /\ pressed' \in [Machine -> SUBSET Key]
    <3>1. CASE cursor' = cursor /\ pressed' = pressed
      BY <1>0, <1>4, <3>1 DEF Loop, KeysInv
    <3>2. CASE current_target' \in DOMAIN grid /\ Inject(current_target', Head(queue))
      BY <1>4, <3>2, LoopFacts, InjectFacts DEF Loop
    <3> QED BY <1>4, <3>1, <3>2, LoopFacts
  <2> QED BY <1>4, <2>1, <2>2, <2>3 DEF Loop, KeysInv, Crossing
<1>5. ASSUME NEW p \in Peer, NEW screens \in Layout, Join(p, screens)
      PROVE  CursorInv' /\ EngineInv' /\ QueueInv' /\ KeysInv'
  <2>1. /\ p \notin DOMAIN grid /\ cursor' = [cursor EXCEPT ![p] = <<0, 0>>]
        /\ DOMAIN grid' = DOMAIN grid \cup {p} /\ grid'[p] = Placed(grid, LocalBbox, screens)
        /\ \A q \in DOMAIN grid : grid'[q] = grid[q]
    BY <1>5 DEF Join
  <2>2. grid'[p].screens = screens
    BY <2>1, PlacedFacts
  <2>3. Inside(Around(screens), <<0, 0>>)
    <3>1. Around(screens) \in Rect /\ LET r == Around(screens) IN
                                      r.x <= 0 /\ 0 < r.x + r.w /\ r.y <= 0 /\ 0 < r.y + r.h
      BY BoundFacts, AroundFacts
    <3> QED BY <3>1, InsideBounds DEF Point
  <2>4. /\ cursor' \in [Machine -> Point] /\ cursor'[p] = <<0, 0>>
        /\ \A q \in DOMAIN grid : cursor'[q] = cursor[q]
    BY <2>1 DEF CursorInv, Machine, Point
  <2>5. \A m \in DOMAIN grid' : Inside(Around(grid'[m].screens), cursor'[m])
    BY <2>1, <2>2, <2>3, <2>4 DEF CursorInv, ScreensOf
  <2>6. CursorInv'
    BY <2>4, <2>5 DEF CursorInv, ScreensOf
  <2> QED BY <1>0, <1>5, <2>6 DEF Join, KeysInv
<1>6. ASSUME NEW p \in Peer, Leave(p) PROVE CursorInv' /\ EngineInv' /\ QueueInv' /\ KeysInv'
  <2>1. CursorInv'
    BY <1>6 DEF Leave, CursorInv, ScreensOf, machineVars
  <2> QED BY <1>0, <1>6, <2>1 DEF Leave, machineVars, KeysInv, Crossing
<1>7. ASSUME Tick PROVE CursorInv' /\ EngineInv' /\ QueueInv' /\ KeysInv'
  <2>1. last_switch' \in 0 .. Cooldown
    BY <1>7 DEF Tick, Older, EngineInv, Cooldown
  <2>2. last_edge_hit' \in Hits
    BY <1>7 DEF Tick, Older, EngineInv, Hits, Dwell, NoHit
  <2>3. EngineInv'
    BY <1>7, <2>1, <2>2 DEF Tick, EngineInv, loopVars
  <2> QED BY <1>0, <1>7, <2>3 DEF Tick, machineVars, KeysInv
<1>8. ASSUME UNCHANGED vars PROVE CursorInv' /\ EngineInv' /\ QueueInv' /\ KeysInv'
  BY <1>0, <1>8 DEF vars, machineVars, KeysInv
<1> QED BY <1>1, <1>2, <1>3, <1>4, <1>5, <1>6, <1>7, <1>8 DEF Next

-----------------------------------------------------------------------------
(* Each key is where the input is.                                         *)

\* A step that leaves the hooks, the loop and the keys as they are keeps each key
\* where it was.
LEMMA FollowedKept ==
  ASSUME NEW k \in Key, Followed(k),
         UNCHANGED <<loopVars, SUPPRESS, queue, held, pressed>>
  PROVE  Followed(k)'
BY DEF Followed, LastIsHeld, Queued, About, loopVars

\* A key that is neither held nor queued, and has not crossed, is up everywhere.
LEMMA UpEverywhere ==
  ASSUME NEW k \in Key, Followed(k), k \notin Crossing
  PROVE  ~Queued(k) /\ k \notin held /\ \A m \in Machine : k \notin pressed[m]
<1>1. ~Queued(k) /\ k \notin held
  BY DEF Crossing
<1>2. /\ k \notin pressed[Me] /\ \A m \in Peer \ {current_target} : k \notin pressed[m]
      /\ current_target # None => k \notin pressed[current_target]
  BY <1>1 DEF Followed
<1> QED BY <1>1, <1>2, MachineAssumption DEF Machine

\* The same, once the input has gone to another machine.
LEMMA FollowedAnew ==
  ASSUME NEW k \in Key, ~Queued(k)', k \notin held', \A m \in Machine : k \notin pressed'[m],
         current_target' \in Peer \cup {None}
  PROVE  Followed(k)'
BY DEF Followed, LastIsHeld, Queued, About, Machine

\* The user presses or releases another key, or moves the mouse.
LEMMA OtherKeyFollowed ==
  ASSUME IInv, NEW k \in Key, Followed(k), NEW e \in Event, ~About(e, k), Hook(e),
         k \in held' <=> k \in held
  PROVE  Followed(k)'
<1>1. /\ DOMAIN queue' = 1 .. Len(queue) + 1 /\ DOMAIN queue = 1 .. Len(queue)
      /\ queue'[Len(queue) + 1] = e /\ \A i \in 1 .. Len(queue) : queue'[i] = queue[i]
      /\ Len(queue) \in Nat
  BY HookFacts DEF IInv, QueueInv
<1>2. /\ \A i \in DOMAIN queue' : About(queue'[i], k) => i \in DOMAIN queue
      /\ \A i \in DOMAIN queue : i \in DOMAIN queue' /\ queue'[i] = queue[i]
  BY <1>1
<1>3. \A m \in Machine : k \in pressed'[m] <=> k \in pressed[m]
  <2>1. e.kind # "move" => e.key # k /\ e.key \in Key /\ e.down \in BOOLEAN
    BY DEF About, Event
  <2>2. \/ pressed' = pressed
        \/ /\ e.key # k
           /\ pressed' = [pressed EXCEPT ![Me] = IF e.down THEN @ \cup {e.key} ELSE @ \ {e.key}]
    BY <2>1, HookFacts DEF IInv
  <2> QED BY <2>2 DEF IInv, KeysInv
<1>4. SUPPRESS' = SUPPRESS /\ current_target' = current_target
  BY DEF Hook, loopVars
<1>5. Queued(k)' <=> Queued(k)
  BY <1>2 DEF Queued, About
<1>6. LastIsHeld(k) => LastIsHeld(k)'
  BY <1>2 DEF LastIsHeld
<1>7. current_target \in Peer \cup {None}
  BY DEF IInv, EngineInv
<1> QED BY <1>3, <1>4, <1>5, <1>6, <1>7 DEF Followed, Machine

\* The user presses or releases the key itself: the hooks queue it, and the local
\* machine sees it unless they swallow it.
LEMMA KeyFollowed ==
  ASSUME IInv, NEW k \in Key, NEW down \in BOOLEAN, NEW e \in Event,
         e.kind = "key", e.key = k, e.down = down, Hook(e),
         held' = (IF down THEN held \cup {k} ELSE held \ {k}),
         (k \notin held /\ Fresh(k)) \/ Followed(k)
  PROVE  Followed(k)'
<1>1. /\ DOMAIN queue' = 1 .. Len(queue) + 1 /\ queue'[Len(queue) + 1] = e
      /\ Len(queue) \in Nat /\ About(e, k)
  BY HookFacts DEF IInv, QueueInv, About
<1>2. SUPPRESS' = SUPPRESS /\ current_target' = current_target /\ SUPPRESS \in BOOLEAN
  BY DEF Hook, loopVars, IInv, EngineInv
<1>3. k \in held' <=> down
  OBVIOUS
<1>4. LastIsHeld(k)'
  <2>1. Len(queue) + 1 \in DOMAIN queue'
    BY <1>1
  <2>2. \A i \in DOMAIN queue' :
          (\A j \in DOMAIN queue' : About(queue'[j], k) => j <= i) => i = Len(queue) + 1
    BY <1>1, <2>1
  <2> QED BY <1>1, <1>3, <2>2 DEF LastIsHeld
<1>5. Queued(k)'
  BY <1>1 DEF Queued, About
<1>6. /\ SUPPRESS => k \notin pressed[Me]
      /\ \A m \in Peer \ {current_target} : k \notin pressed[m]
  BY DEF Fresh, Followed, Machine
<1>7. /\ SUPPRESS => pressed' = pressed
      /\ ~SUPPRESS => pressed' = [pressed EXCEPT ![Me] = IF down THEN @ \cup {k} ELSE @ \ {k}]
      /\ Me \notin Peer /\ pressed \in [Machine -> SUBSET Key]
  BY HookFacts, MachineAssumption DEF IInv, KeysInv
<1>8. k \in pressed'[Me] <=> down /\ ~SUPPRESS
  BY <1>6, <1>7 DEF Machine
<1>9. \A m \in Peer \ {current_target} : k \notin pressed'[m]
  BY <1>6, <1>7 DEF Machine
<1> QED BY <1>2, <1>3, <1>4, <1>5, <1>8, <1>9 DEF Followed

\* One iteration of the loop.
LEMMA LoopFollows ==
  ASSUME IInv, Loop, NEW k \in Key \ crossed'
  PROVE  Followed(k)'
<1>1. /\ queue \in Seq(Event) /\ queue # <<>> /\ queue' = Tail(queue)
      /\ SUPPRESS' = SUPPRESS /\ held' = held /\ grid' = grid
      /\ crossed' = IF current_target' # current_target THEN crossed \cup Crossing ELSE crossed
  BY DEF Loop, IInv, QueueInv
<1>2. /\ Head(queue) = queue[1] /\ Head(queue) \in Event /\ Len(queue) \in Nat \ {0}
      /\ DOMAIN queue = 1 .. Len(queue) /\ DOMAIN queue' = 1 .. Len(queue) - 1
      /\ \A i \in DOMAIN queue' : queue'[i] = queue[i + 1]
  BY <1>1
<1>3. k \in Key \ crossed /\ Followed(k) /\ (current_target' # current_target => k \notin Crossing)
  BY <1>1 DEF IInv, KeysFollowed
<1> DEFINE e == Head(queue)
<1>4. /\ current_target' = None => pressed' = pressed
      /\ current_target' # None =>
           /\ current_target' \in Peer
           /\ e.kind = "move" => pressed' = pressed
           /\ e.kind # "move" =>
                pressed' = [pressed EXCEPT ![current_target'] = IF e.down THEN @ \cup {e.key}
                                                               ELSE @ \ {e.key}]
  <2>1. CASE current_target' = None /\ cursor' = cursor /\ pressed' = pressed
    BY <2>1
  <2>2. CASE current_target' \in Peer \cap DOMAIN grid /\ Inject(current_target', Head(queue))
    BY <1>1, <1>2, <2>2, InjectFacts, MachineAssumption DEF IInv
  <2> QED BY <2>1, <2>2, LoopFacts DEF IInv
<1>5. pressed \in [Machine -> SUBSET Key] /\ Me \notin Peer /\ None \notin Peer
  BY MachineAssumption DEF IInv, KeysInv
<1>6. e.kind # "move" => e.key \in Key /\ e.down \in BOOLEAN
  BY <1>2 DEF Event
<1>7. ~About(e, k) => \A m \in Machine : k \in pressed'[m] <=> k \in pressed[m]
  BY <1>4, <1>5, <1>6 DEF About, Machine
<1>8. \A m \in Machine \ {current_target'} : k \in pressed'[m] <=> k \in pressed[m]
  BY <1>4, <1>5, <1>6 DEF Machine
<1> HIDE DEF e
<1>9. CASE current_target' # current_target
  <2>1. ~Queued(k) /\ k \notin held /\ \A m \in Machine : k \notin pressed[m]
    BY <1>3, <1>9, UpEverywhere
  <2>2. ~About(e, k)
    BY <1>2, <2>1 DEF Queued, About, e
  <2>3. ~Queued(k)'
    <3>1. \A i \in DOMAIN queue' : i + 1 \in DOMAIN queue
      BY <1>2
    <3> QED BY <1>2, <2>1, <3>1 DEF Queued
  <2>4. current_target' \in Peer \cup {None}
    BY <1>4
  <2> QED BY <1>1, <1>7, <2>1, <2>2, <2>3, <2>4, FollowedAnew
<1>10. CASE current_target' = current_target
  <2>1. /\ k \in pressed'[Me] <=> k \in held /\ ~SUPPRESS
        /\ \A m \in Peer \ {current_target} : k \notin pressed'[m]
    BY <1>3, <1>4, <1>5, <1>8, <1>10 DEF Followed, Machine
  <2>2. CASE current_target = None
    BY <1>1, <1>10, <2>1, <2>2 DEF Followed
  <2>3. CASE current_target # None
    <3>1. LastIsHeld(k)'
      <4>1. \A i \in DOMAIN queue' : i + 1 \in DOMAIN queue /\ queue'[i] = queue[i + 1]
        BY <1>2
      <4>2. SUFFICES ASSUME NEW i \in DOMAIN queue', About(queue'[i], k),
                            \A j \in DOMAIN queue' : About(queue'[j], k) => j <= i
                     PROVE  queue'[i].down <=> k \in held
        BY <1>1 DEF LastIsHeld
      <4>3. \A j \in DOMAIN queue : About(queue[j], k) => j <= i + 1
        <5> TAKE j \in DOMAIN queue
        <5> HAVE About(queue[j], k)
        <5>1. CASE j = 1
          BY <1>2, <5>1
        <5>2. CASE j # 1
          <6>1. j - 1 \in DOMAIN queue' /\ queue'[j - 1] = queue[j] /\ j \in Int /\ i \in Int
            BY <1>2, <5>2
          <6>2. j - 1 <= i
            BY <4>2, <6>1
          <6> QED BY <6>1, <6>2
        <5> QED BY <5>1, <5>2
      <4> QED BY <1>3, <2>3, <4>1, <4>2, <4>3 DEF Followed, LastIsHeld
    <3>2. ASSUME ~Queued(k)'
          PROVE  k \in pressed'[current_target] <=> k \in held
      <4>1. \A i \in DOMAIN queue : About(queue[i], k) => i = 1
        <5> TAKE i \in DOMAIN queue
        <5>1. i # 1 => i - 1 \in DOMAIN queue' /\ queue'[i - 1] = queue[i]
          BY <1>2
        <5> QED BY <3>2, <5>1 DEF Queued, About
      <4>2. CASE About(e, k)
        <5>1. e = queue[1] /\ 1 \in DOMAIN queue
          BY <1>2 DEF e
        <5>2. \A j \in DOMAIN queue : About(queue[j], k) => j <= 1
          BY <4>1
        <5>3. e.down <=> k \in held
          BY <1>3, <2>3, <4>2, <5>1, <5>2 DEF Followed, LastIsHeld
        <5>4. k \in pressed'[current_target] <=> e.down
          BY <1>4, <1>5, <1>6, <1>10, <2>3, <4>2 DEF About, Machine
        <5> QED BY <5>3, <5>4
      <4>3. CASE ~About(e, k)
        <5>1. ~Queued(k)
          BY <1>2, <4>1, <4>3 DEF Queued, About, e
        <5> QED BY <1>3, <1>4, <1>7, <1>10, <2>3, <4>3, <5>1 DEF Followed, Machine
      <4> QED BY <4>2, <4>3
    <3> QED BY <1>1, <1>10, <2>1, <3>1, <3>2 DEF Followed
  <2> QED BY <2>2, <2>3
<1> QED BY <1>9, <1>10

\* A key held goes down where the input is, or has crossed a switch.
LEMMA FollowedStep == IInv /\ [Next]_vars => KeysFollowed'
<1> SUFFICES ASSUME IInv, [Next]_vars, NEW k \in Key \ crossed'
             PROVE  Followed(k)'
  BY DEF KeysFollowed
<1>0. \A j \in Key \ crossed : Followed(j)
  BY DEF IInv, KeysFollowed
<1>1. ASSUME NEW d \in Shift, MoveMouse(d) PROVE Followed(k)'
  <2>1. PICK e \in Event : e.kind = "move" /\ Hook(e) /\ UNCHANGED <<held, crossed>>
    BY <1>1, UserSteps DEF IInv
  <2>2. ~About(e, k)
    BY <2>1 DEF About
  <2> QED BY <1>0, <2>1, <2>2, OtherKeyFollowed
<1>2. ASSUME NEW j \in Key, NEW down \in BOOLEAN, PressOrRelease(j, down) PROVE Followed(k)'
  <2>1. PICK e \in Event :
          /\ e.kind = "key" /\ e.key = j /\ e.down = down /\ Hook(e)
          /\ held' = IF down THEN held \cup {j} ELSE held \ {j}
          /\ crossed' = IF j \notin held /\ Fresh(j) THEN crossed \ {j} ELSE crossed
    BY <1>2, UserSteps DEF IInv
  <2>2. CASE j = k
    <3>1. (k \notin held /\ Fresh(k)) \/ Followed(k)
      BY <1>0, <2>1, <2>2
    <3> QED BY <2>1, <2>2, <3>1, KeyFollowed
  <2>3. CASE j # k
    <3>1. Followed(k) /\ ~About(e, k) /\ (k \in held' <=> k \in held)
      BY <1>0, <2>1, <2>3 DEF About
    <3> QED BY <2>1, <3>1, OtherKeyFollowed
  <2> QED BY <2>2, <2>3
<1>3. ASSUME StoreSuppress PROVE Followed(k)'
  <2>1. /\ ~Queued(k) /\ k \notin held /\ \A m \in Machine : k \notin pressed[m]
    BY <1>0, <1>3, UpEverywhere DEF StoreSuppress
  <2>2. queue' = queue /\ held' = held /\ pressed' = pressed /\ current_target' = current_target
    BY <1>3 DEF StoreSuppress, loopVars, machineVars
  <2>3. ~Queued(k)' /\ current_target' \in Peer \cup {None}
    BY <2>1, <2>2 DEF Queued, IInv, EngineInv
  <2> QED BY <2>1, <2>2, <2>3, FollowedAnew
<1>4. CASE Loop
  BY <1>4, LoopFollows
<1>5. ASSUME NEW p \in Peer, NEW screens \in Layout, Join(p, screens) PROVE Followed(k)'
  BY <1>0, <1>5, FollowedKept DEF Join
<1>6. ASSUME NEW p \in Peer, Leave(p) PROVE Followed(k)'
  BY <1>0, <1>6, FollowedKept DEF Leave, machineVars
<1>7. CASE Tick
  BY <1>0, <1>7, FollowedKept DEF Tick, machineVars
<1>8. CASE UNCHANGED vars
  BY <1>0, <1>8, FollowedKept DEF vars, machineVars
<1> QED BY <1>1, <1>2, <1>3, <1>4, <1>5, <1>6, <1>7, <1>8 DEF Next

\* Grid, engine, loop, queue, cursors and keys of a master, together.
THEOREM IInvHolds == Spec => []IInv
<1>1. Init => IInv
  BY InitHolds
<1>2. IInv /\ [Next]_vars => IInv'
  BY GridStep, StateStep, FollowedStep DEF IInv
<1> QED BY <1>1, <1>2, PTL DEF Spec

-----------------------------------------------------------------------------
(* What the runs check.                                                    *)

\* The inductive invariant has the type invariant in it.
LEMMA IInvTypeOK == IInv => TypeOK
<1> SUFFICES ASSUME IInv PROVE TypeOK
  OBVIOUS
<1>1. \A m \in DOMAIN grid : /\ grid[m].screens \in Layout \cup {Desktop}
                             /\ grid[m].hotkey \in 0 .. 9
  BY DEF IInv, GridInv, Entry, Screens
<1>2. \A i \in DOMAIN queue : queue[i].kind \in {"move", "key"}
  <2>1. \A e \in Event : e.kind \in {"move", "key"}
    BY DEF Event
  <2> QED BY <2>1 DEF IInv, QueueInv
<1> QED BY <1>1, <1>2 DEF IInv, GridInv, CursorInv, EngineInv, QueueInv, KeysInv, TypeOK, Hits, Point

\* On every grid that joins and departures can make, with any screens, cursors stay on
\* the screens of their machines (SendInput), and every peer keeps its primary screen
\* past what ends before its own screens do (register_session).
THEOREM InvHolds == Spec => []Inv
<1>1. IInv => Inv
  BY IInvTypeOK DEF IInv, Inv
<1> QED BY <1>1, IInvHolds, PTL

\* Whatever the user holds, presses and repeats while the input goes from machine to
\* machine, a key he did not hold across a switch is down, when all is quiet, where the
\* input is and nowhere else (the hooks, the master loop, SendInput).
THEOREM KeyInOnePlaceHolds == Spec => []KeyInOnePlace
<1>1. IInv => KeyInOnePlace
  <2> SUFFICES ASSUME IInv, queue = <<>>, SUPPRESS = requested,
                      NEW k \in Key \ crossed, NEW m \in Machine
               PROVE  k \in pressed[m] <=> k \in held /\ m = Where
    BY DEF KeyInOnePlace
  <2>1. ~Queued(k) /\ Followed(k)
    BY DEF Queued, IInv, KeysFollowed
  <2>2. (SUPPRESS <=> current_target # None) /\ current_target \in Peer \cup {None}
    BY DEF IInv, EngineInv
  <2> QED BY <2>1, <2>2, MachineAssumption DEF Followed, Where, Machine
<1> QED BY <1>1, IInvHolds, PTL
=============================================================================
