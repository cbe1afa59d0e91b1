SPECIFICATION FairSpec
CONSTANTS
  Replicas = {r1, r2}
  r1 = r1
  r2 = r2
  Offers = {1, 2}
  Listed = {1}
  Prices = {"a"}
  Lag = 2
  Batch = 1
  MaxPerTick = 2
  ScanEvery = 1
  MaxClock = 2
  MaxIncidents = 2
INVARIANT NothingBehindCursor
PROPERTY IsFeed
PROPERTY CatchesUp
CHECK_DEADLOCK FALSE
