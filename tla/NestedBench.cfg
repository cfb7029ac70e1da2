\* Two peers; two restarts, two dropped datagrams, one request more than bits.
SPECIFICATION LiveSpec
CONSTANTS
  Peers = {p1, p2}
  CommandLines <- MCCommandLines
  SeqLimit = 2
  MaxDropped = 2
  MaxRestarts = 2
INVARIANTS
  OneUnderWay
  CrashNeedsCause
PROPERTIES
  AnswersAreAsked
  AllThreadsEnd
CHECK_DEADLOCK FALSE
