SPECIFICATION HistorySpec
CONSTANTS
  Books <- WideBooks
  OrderVol = 2
  MaxInt = 7
  OfferOffset = 3
  OfInfinity <- LeastInt
  MaxBookMsgs = 1
  Batches = FALSE
  SecondLimit = 100
  MinuteLimit = 100
  MaxFills = 0
  MaxCancels = 0
  PartialFills = TRUE
  Losses = FALSE
  OtherIDs = {99}
  QuietStart = TRUE
INVARIANTS PriceAsBelieved
