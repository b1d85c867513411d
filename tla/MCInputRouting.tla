--------------------------- MODULE MCInputRouting ---------------------------
(***************************************************************************)
(* The screens, keys and displacements with which TLC checks InputRouting. *)
(***************************************************************************)
EXTENDS InputRouting, TLC

Screen(x, y, w, h) == [x |-> x, y |-> y, w |-> w, h |-> h]

\* A screen, and one with a second screen left of it, as Windows allows.
Layouts == {{Screen(0, 0, 1, 2)}, {Screen(0, 0, 1, 1), Screen(-1, 0, 1, 1)}}

\* Room for a cursor to move in.
WideLayouts == {{Screen(0, 0, 2, 1)}, {Screen(0, 0, 1, 1), Screen(-1, 0, 1, 1)}}

LocalScreens == {Screen(0, 0, 1, 1)}

\* A local desktop of two screens, one left of the primary one.
WideScreens == {Screen(0, 0, 1, 1), Screen(-1, 0, 1, 1)}

OneDigit == "one" :> 1

\* Within, past the right edge, and past it below the local screens.
Shifts == {<<0, 0>>, <<1, 0>>, <<1, 1>>}

\* With a move that overshoots the edge.
FastShifts == {<<1, 0>>, <<-1, 0>>, <<2, 0>>}
=============================================================================
