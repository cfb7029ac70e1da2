SPECIFICATION SpecR
CONSTANTS
  Replica = {r0, r1, r2}
  Owner = r0
  Data = {a, b}
  Epoch = 1
  MaxOps = 2
  Restartable = {r0}
  MaxRestarts = 1
INVARIANTS
  NoAbort
