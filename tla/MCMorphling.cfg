SPECIFICATION Spec
SYMMETRY Symmetry
CONSTANTS
  KeySpace = 256
  ClusterSize = 3
  Replica = {0, 1, 2}
  Key = {21657, 32921, 16793}
  Writer = {w1, w2}
  Reader = {q}
  NoClient = NoClient
  MaxWrites = 3
  Uses <- MCUses
INVARIANTS
  AckedIsDurable
  ReadsSeeAckedWrites
  StorageIsCommittedPrefix
  MisdirectNeedsCollision
  DivergenceNeedsTwoTakers
  ServersEndOnlyByClients
CHECK_DEADLOCK FALSE
