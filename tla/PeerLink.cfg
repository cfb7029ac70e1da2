\* Two servers whose processes may die twice, and are restarted.
SPECIFICATION LiveSpec
CONSTANTS
  Server = {s1, s2}
  MaxCrashes = 2
INVARIANTS
  DanglingOnlyAfterCrash
  AdoptedIsOffered
PROPERTIES
  StrandedForEver
  LinkedUnlessCrossed
CHECK_DEADLOCK FALSE
