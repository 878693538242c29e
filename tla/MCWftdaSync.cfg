\* Three games on pages of one, three dates of which one is before the era.
SPECIFICATION FairSpec
CONSTANTS
  Games = {1, 2, 3}
  Dates = {1, 2, 4}
  Era = 2
  PageSize = 1
  Lookback = 1
  FullInterval = 2
  MaxEdits = 2
  MaxFaults = 1
INVARIANTS
  StillScanIsComplete
PROPERTIES FeedIsCaughtUp
