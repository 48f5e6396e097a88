--------------------------- MODULE MCLoginStorage ---------------------------
(***************************************************************************)
(* Model values and symmetry for checking LoginStorage.                    *)
(***************************************************************************)
EXTENDS LoginStorage, TLC

CONSTANTS l1, l2, blank, p1, p2

MCLogins     == {l1, l2, blank}
MCWellFormed == {l1, l2}
TwoPresses   == {p1, p2}

\* The two accounts are interchangeable, and so are the presses.
Symmetric == Permutations(MCWellFormed) \cup Permutations(TwoPresses)
=============================================================================
