CHECK_DEADLOCK FALSE
SPECIFICATION OrderedFairSpec
CONSTANTS
  Enrolment = {e1}
  Absent = absent
  Session = {s1, s2}
  MaxLost = 1
PROPERTIES
  SessionsAndRemovalsEnd
