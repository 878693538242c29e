\* Three requests, two loops, three writes.
SPECIFICATION FairSpec
CONSTANTS
  p1 = p1
  p2 = p2
  Pages = {p1, p2}
  Requests = {r1, r2, r3}
  Loops = {drive, wftda}
  BodySize <- MCBodySize
  Oversized <- MCOversized
  MaxBytes = 5
  MaxWrites = 3
INVARIANTS
  TypeOK
  UsedIsExact
  QuietClearIsFresh
PROPERTIES PagesCatchUp
