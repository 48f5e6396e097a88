\* Safety of the player: two lectures, two tasks and one report in flight.
CONSTANTS
  NumLectures = 2
  MaxMinute = 1
  MaxDrift = 1
  c1 = c1
  c2 = c2
  s1 = s1
  Calls <- MCCalls
  Sends <- MCSends
  MinSpeed = 4
  NormalSpeed = 4
  MaxSpeed = 4
SPECIFICATION Spec
INVARIANTS
  TypeOK
  DriftAccounted
  OpenPlayerOnTop
  VideoIsCurrent
  ToldPlayerIsClosed
PROPERTY
  HomeLostOnlyWhileExiting
  ReportNamesUnlessDrifted
SYMMETRY TaskSymmetry
\* A closed player is done: nothing has to happen any more.
CHECK_DEADLOCK FALSE
