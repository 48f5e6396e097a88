------------------------- MODULE MCOtpVerification -------------------------
(***************************************************************************)
(* Model values and symmetry for checking OtpVerification.                 *)
(***************************************************************************)
EXTENDS OtpVerification, TLC

CONSTANTS p1, p2

TwoPresses == {p1, p2}

\* Presses are interchangeable, and no liveness is checked.
PressSymmetry == Permutations(TwoPresses)
=============================================================================
