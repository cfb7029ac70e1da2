\* Four replicas: of three, the owner's own copy and one restart make a
\* majority whatever the votes were.
SPECIFICATION SpecR
SYMMETRY Symmetry
CONSTANTS
  Replica = {r0, r1, r2, r3}
  Owner = r0
  Data = {a, b}
  Epoch = 1
  MaxOps = 2
  Restartable = {r1, r2, r3}
  MaxRestarts = 2
INVARIANTS
  RestartsCostCopies
