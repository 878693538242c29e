\* Two files, two quarter folders, pages of one item, three attempts, two downloads at once.
SPECIFICATION FairSpec
CONSTANTS
  Files = {1, 2}
  Folders = {1, 2}
  Elsewhere = elsewhere
  PageSize = 1
  MaxAttempts = 3
  Concurrency = 2
PROPERTIES
  GoodTokensAreKept
  UntouchedFilesAreKept
  RunsEnd
  ListingCatchesUp
