SPECIFICATION HistorySpec
CONSTANTS
  Books <- ManyBooks
  OrderVol = 1
  MaxInt = 7
  OfferOffset = 3
  OfInfinity <- LeastInt
  MaxBookMsgs = 2
  Batches = TRUE
  SecondLimit = 100
  MinuteLimit = 100
  MaxFills = 1
  MaxCancels = 0
  PartialFills = FALSE
  Losses = TRUE
  OtherIDs = {}
  QuietStart = FALSE
INVARIANTS QuotesUncrossed CurrTracksTarget TargetsFollowPrices DrawnOnce
