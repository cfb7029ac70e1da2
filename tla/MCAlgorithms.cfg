\* Six sequential parts, each on its own.
SPECIFICATION Spec
CONSTANTS
  KeySpace = 256
  ClusterSize = 3
  SomePos = {0, 127, 128, 255}
  MaxSets = 2
  Replica = {r0, r1}
  Sender = r0
  Receiver = r1
  Epochs = {1, 2, 3}
  MaxLen = 4
  BlockSize = 4
  PtrSize = 2
  Requests = {1, 2, 3}
  MaxBlocks = 3
  RecvSize = 2
  ReplySizes = {1, 2, 3}
  SendNums = 3
  HeaderSize = 2
  PayloadSizes = {0, 1, 2}
  MaxMessages = 3
  Senders = {c1, c2}
  LoopCount = 3
  MaxReports = 2
  None = None
INVARIANTS
  GuidanceRight
  AppendEntriesRight
  ArenaRight
  ClientInStep
  FramingRight
  GaugesRight
CHECK_DEADLOCK FALSE
