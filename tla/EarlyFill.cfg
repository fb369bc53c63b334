SPECIFICATION HistorySpec
CONSTANTS
  Books <- OneBook
  OrderVol = 2
  MaxInt = 7
  OfferOffset = 3
  OfInfinity <- LeastInt
  MaxBookMsgs = 0
  Batches = FALSE
  SecondLimit = 100
  MinuteLimit = 100
  MaxFills = 1
  MaxCancels = 0
  PartialFills = TRUE
  Losses = FALSE
  OtherIDs = {99}
  QuietStart = FALSE
INVARIANTS FreshIDs
