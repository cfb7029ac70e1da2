\* Two clients over datagrams; one is lost and one is duplicated.
SPECIFICATION LiveSpec
CONSTANTS
  KeySpace = 256
  ClusterSize = 3
  CommandLines <- MCCommandLines
  MaxLost = 1
  MaxDuplicated = 1
INVARIANTS
  SurplusIsDuplicates
PROPERTIES
  FinishUnlessLost
CHECK_DEADLOCK FALSE
