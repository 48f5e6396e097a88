\* Three players at a time, two checks each, two starts in flight.
CONSTANTS
  p1 = p1
  p2 = p2
  p3 = p3
  s1 = s1
  s2 = s2
  Players <- ThreePlayers
  Slots <- TwoSlots
  MaxStarts = 2
SPECIFICATION Spec
INVARIANTS
  TypeOK
  RefusedPlayerLeaves
PROPERTY
  HomeLostOnlyWhileExiting
SYMMETRY Symmetric
