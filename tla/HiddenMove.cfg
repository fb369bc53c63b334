SPECIFICATION HistorySpec
CONSTANTS
  Books <- ManyBooks
  OrderVol = 1
  MaxInt = 7
  OfferOffset = 3
  OfInfinity <- LeastInt
  MaxBookMsgs = 1
  Batches = TRUE
  SecondLimit = 100
  MinuteLimit = 100
  MaxFills = 0
  MaxCancels = 0
  PartialFills = FALSE
  Losses = FALSE
  OtherIDs = {}
  QuietStart = TRUE
INVARIANTS TargetsAlwaysFollow
