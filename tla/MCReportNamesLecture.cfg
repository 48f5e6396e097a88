\* The report of a viewing point names the lecture it was read from.
CONSTANTS
  NumLectures = 2
  MaxMinute = 1
  MaxDrift = 1
  c1 = c1
  c2 = c2
  s1 = s1
  Calls <- MCCalls
  Sends <- MCSends
  MinSpeed = 4
  NormalSpeed = 4
  MaxSpeed = 4
SPECIFICATION Spec
PROPERTY
  ReportNamesLecture
\* A closed player is done: nothing has to happen any more.
CHECK_DEADLOCK FALSE
