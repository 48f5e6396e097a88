------------------------- MODULE MCDeviceRegistration -------------------------
(***************************************************************************)
(* Model values and symmetry for checking DeviceRegistration: four devices *)
(* of which two sign in and two at most hold places in the registry, so    *)
(* that a new device can meet a registry above its limit.                  *)
(***************************************************************************)
EXTENDS DeviceRegistration, TLC

CONSTANTS d1, d2, d3, d4

MCDevices == {d1, d2, d3, d4}
Signing   == {d1, d2}

TwoSignIn == Init /\ [][\E d \in Signing : Step(d)]_vars

\* Those that sign in are interchangeable, and those that do not; no liveness
\* is checked.
DeviceSymmetry == Permutations(Signing) \cup Permutations(MCDevices \ Signing)
=============================================================================
