--------------------------- MODULE MCViewerSession ---------------------------
(***************************************************************************)
(* Model values and symmetry for checking ViewerSession.                   *)
(***************************************************************************)
EXTENDS ViewerSession, TLC

CONSTANTS d1, d2, s1, s2

MCDevices == {d1, d2}
OneSlot   == {s1}
TwoSlots  == {s1, s2}

\* Devices are interchangeable, and so are the slots of a device; no liveness
\* is checked under this symmetry.
Symmetric == Permutations(MCDevices) \cup Permutations(TwoSlots)
=============================================================================
