\* Two servers that start at about the same time.
SPECIFICATION Spec
CONSTANTS
  Server = {s1, s2}
  MaxCrashes = 0
INVARIANTS
  OneSurvives
CHECK_DEADLOCK FALSE
