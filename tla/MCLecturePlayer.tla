--------------------------- MODULE MCLecturePlayer ---------------------------
(***************************************************************************)
(* Model values and symmetry for checking LecturePlayer.                   *)
(***************************************************************************)
EXTENDS LecturePlayer, TLC

CONSTANTS c1, c2, s1

MCCalls == {c1, c2}
MCSends == {s1}

\* Tasks are interchangeable, and no liveness is checked under this symmetry.
TaskSymmetry == Permutations(MCCalls)
=============================================================================
