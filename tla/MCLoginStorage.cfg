\* Two accounts and an empty form, two presses of LOGIN in flight.
CONSTANTS
  l1 = l1
  l2 = l2
  blank = blank
  p1 = p1
  p2 = p2
  None = None
  Logins <- MCLogins
  WellFormed <- MCWellFormed
  Blank = blank
  Presses <- TwoPresses
SPECIFICATION Spec
INVARIANTS
  TypeOK
  DeniedNeverEnters
  RememberedUnlessErased
  AutoHomeIsStored
SYMMETRY Symmetric
