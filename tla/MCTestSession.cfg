SPECIFICATION MCSpec
CONSTANTS
  pa = pa
  pb = pb
  s1 = s1
  s2 = s2
  Project = {pa, pb}
  Session = {s1, s2}
  Time = {1, 2}
  MaxFaults = 1
INVARIANTS
  OneRunning
  OwnedIsRecorded
PROPERTIES
  StrangersKept
  StopEndsRunning
  CommandEnds
CHECK_DEADLOCK FALSE
