\* Three statsbooks in batches of two, one fault.
SPECIFICATION FairSpec
CONSTANTS
  Files = {1, 2, 3}
  BatchLimit = 2
  Histories <- MCHistories
  MaxUploads = 3
  MaxFaults = 1
INVARIANTS
  DrainParsesTheRest
  CacheServesTheRevision
PROPERTIES DrainsEnd
