\* A resume uses the viewing point of the loaded lecture.
CONSTANTS
  NumLectures = 2
  MaxMinute = 1
  MaxDrift = 1
  c1 = c1
  c2 = c2
  s1 = s1
  Calls <- MCCalls
  Sends <- MCSends
  MinSpeed = 4
  NormalSpeed = 4
  MaxSpeed = 4
SPECIFICATION Spec
PROPERTY
  ResumeIsForLecture
\* A closed player is done: nothing has to happen any more.
CHECK_DEADLOCK FALSE
