\* A refused player stops, under the fairness of the event loop.
CONSTANTS
  NumLectures = 2
  MaxMinute = 0
  MaxDrift = 1
  c1 = c1
  c2 = c2
  s1 = s1
  Calls <- MCCalls
  Sends <- MCSends
  MinSpeed = 4
  NormalSpeed = 4
  MaxSpeed = 5
SPECIFICATION FairSpec
PROPERTY
  RefusalClosesPlayer
  StepsOfStack
\* A closed player is done: nothing has to happen any more.
CHECK_DEADLOCK FALSE
