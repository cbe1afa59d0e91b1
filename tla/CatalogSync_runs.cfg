SPECIFICATION FairSpec
CONSTANTS
  Offers = {x, y}
  x = x
  y = y
  Runs = {1, 2}
  Stale = 2
  Grace = 2
  Closing = 1
  MinBefore = 2
  MissingActions = {"KEEP", "DELETE"}
  ZeroActions = {"KEEP", "HIDE", "DELETE"}
  MaxChanges = 2
INVARIANT BeatingRunIsAlone
INVARIANT CompleteRunShows
PROPERTY EndsOnce
PROPERTY RunsEnd
CHECK_DEADLOCK FALSE
