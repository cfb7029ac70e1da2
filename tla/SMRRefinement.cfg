\* Three replicas, as HARD_CODE_REPLICAS fixes.
SPECIFICATION Spec
CONSTANTS
  Replica = {r0, r1, r2}
  Owner = r0
  Data = {a, b}
  Epoch = 1
  MaxOps = 3
INVARIANTS
  FollowerLogIsPrefix
  CommittedOnMajority
  AppliedIsCommittedPrefix
  FollowerCommitLags
  NoAbort
PROPERTIES
  LogsOnlyGrow
  ImplementsPrimaryBackup
