SPECIFICATION Spec
CONSTANTS
  NewMsgs = 6
  UpdMsgs = 6
  SecondLimit = 10
  MinuteLimit = 120
INVARIANTS WithinLimits
