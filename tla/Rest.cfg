\* Small limits, so that both windows stop the thread and open again.
SPECIFICATION FairSpec
CONSTANTS
  NewMsgs = 3
  UpdMsgs = 2
  SecondLimit = 2
  MinuteLimit = 3
INVARIANTS TypeOK SentInOrder
PROPERTIES Drained
