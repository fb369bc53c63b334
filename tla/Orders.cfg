SPECIFICATION FairHistorySpec
CONSTANTS
  Books <- OneBook
  OrderVol = 2
  MaxInt = 7
  OfferOffset = 3
  OfInfinity <- LeastInt
  MaxBookMsgs = 0
  Batches = FALSE
  SecondLimit = 100
  MinuteLimit = 100
  MaxFills = 3
  MaxCancels = 2
  PartialFills = TRUE
  Losses = FALSE
  OtherIDs = {99}
  QuietStart = TRUE
INVARIANTS TypeOK SlotsRight Hedged ExposureBounded
PROPERTY FillsHandled
