\* Three operations, two lost messages, any order.
SPECIFICATION FairSpecL
CONSTANTS
  Replica = {r0, r1, r2}
  Owner = r0
  Data = {a}
  Epoch = 1
  MaxOps = 3
  MaxLost = 2
INVARIANTS
  CutOffHasCause
PROPERTIES
  CutOffForEver
  SparedMajorityCommits
CHECK_DEADLOCK FALSE
