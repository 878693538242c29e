\* Two teams on pages of one, three titles, two slugs: slugs can be swapped
\* and can pass from a retired team to an active one.
SPECIFICATION FairSpec
CONSTANTS
  Teams = {1, 2}
  Titles = {A, B, C}
  Slugs = {s1, s2}
  None = none
  PageSize = 1
  ListingPages = 2
  MaxEdits = 2
  MaxFaults = 1
INVARIANTS
  LinksResolve
PROPERTIES
  TeamsAreNotDowngraded
  TeamsCatchUp
