\* Two files, two games: up to two edits and two faults in any mix, and what follows once they stop.
SPECIFICATION FairSpec
CONSTANTS
  g1 = g1
  g2 = g2
  r1 = r1
  r2 = r2
  a = a
  b = b
  empty = empty
  junk = junk
  Files = {1, 2}
  Games = {g1, g2}
  Results = {r1, r2}
  Feeds <- MCFeeds
  Contents = {a, b, empty, junk}
  Placeholder = empty
  Unreadable = junk
  MatchOf <- MCMatchOf
  WriteBatch = 1
  Uploads = {a, b, empty, junk}
  MaxEdits = 2
  MaxFaults = 2
  MaxEvents = 3
INVARIANTS
  TypeOK
  ForeignKeys
  SidesFollowMatch
  SettledAfterResolve
  PagesAgreeAfterResolve
  ParsedIsCurrent
PROPERTIES
  OnlyUnlistedRetracted
  Converges
