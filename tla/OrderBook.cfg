\* A killed program stops.
SPECIFICATION Spec
CONSTANTS
  Last = 5
  BidVols = {2}
  AskVols = {1, 3}
  MaxInt = 7
  OfferOffset = 3
  OfInfinity = 7
  MaxEntries = 2
INVARIANTS TypeOK Linked KilledWhenBare
PROPERTIES ImplementsLevels ImplementsFeed
CHECK_DEADLOCK FALSE
