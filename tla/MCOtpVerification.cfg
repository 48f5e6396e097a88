\* Three code forms, so that one message can overtake another, and two presses.
CONSTANTS
  p1 = p1
  p2 = p2
  MaxForms = 3
  Presses <- TwoPresses
SPECIFICATION Spec
INVARIANTS
  TypeOK
  LastMessageCounts
  HomeStaysOnTop
  HomeNeedsCode
PROPERTY
  EndIsShown
SYMMETRY PressSymmetry
