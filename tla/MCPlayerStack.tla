---------------------------- MODULE MCPlayerStack ----------------------------
(***************************************************************************)
(* Model values and symmetry for checking PlayerStack.                     *)
(***************************************************************************)
EXTENDS PlayerStack, TLC

CONSTANTS p1, p2, p3, s1, s2

TwoPlayers   == {p1, p2}
ThreePlayers == {p1, p2, p3}
TwoSlots     == {s1, s2}

\* Players are told apart only by their place on the stack.
Symmetric == Permutations(ThreePlayers) \cup Permutations(TwoSlots)
=============================================================================
