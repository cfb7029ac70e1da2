\* Two clients, in one thread or in two.
SPECIFICATION LiveSpec
CONSTANTS
  c1 = c1
  c2 = c2
  t1 = t1
  t2 = t2
  Replica = {r0, r1, r2}
  Owner = r0
  Thread = {t1, t2}
  Client = {c1, c2}
  CommandLines <- MCCommandLines
  MaxFailures = 1
INVARIANTS
  ReplyIsForThisTurn
  DoneIsAnswered
  SendsAsAsked
  MisusedWereUsable
PROPERTIES
  ReadsAreConfirmed
  AllThreadsFinish
CHECK_DEADLOCK FALSE
