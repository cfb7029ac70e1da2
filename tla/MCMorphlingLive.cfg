SPECIFICATION FairSpec
CONSTANTS
  KeySpace = 256
  ClusterSize = 3
  Replica = {0, 1, 2}
  Key = {21657, 32921}
  Writer = {w1, w2}
  Reader = {q}
  NoClient = NoClient
  MaxWrites = 2
  Uses <- LiveUses
PROPERTIES
  ServiceSettles
CHECK_DEADLOCK FALSE
