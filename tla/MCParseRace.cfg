\* A re-upload between a download and the write of its cache entry.
SPECIFICATION Spec
CONSTANTS
  Files = {1, 2}
  BatchLimit = 2
  Histories <- TwoGames
  MaxUploads = 2
  MaxFaults = 0
INVARIANTS ReuploadMissesCache
