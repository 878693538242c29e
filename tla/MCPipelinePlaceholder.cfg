\* A file re-uploaded as an unfilled placeholder.
SPECIFICATION Spec
CONSTANTS
  g1 = g1
  g2 = g2
  r1 = r1
  r2 = r2
  a = a
  b = b
  empty = empty
  junk = junk
  Files = {1, 2}
  Games = {g1, g2}
  Results = {r1, r2}
  Feeds <- MCFeeds
  Contents = {a, b, empty, junk}
  Placeholder = empty
  Unreadable = junk
  MatchOf <- MCMatchOf
  WriteBatch = 1
  Uploads = {a, empty}
  MaxEdits = 2
  MaxFaults = 0
  MaxEvents = 2
INVARIANTS PlaceholdersStayOffTheSite
