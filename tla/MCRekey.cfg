\* Five ids, four legacy files, three runs, two faults.
SPECIFICATION Spec
CONSTANTS
  c1 = c1
  c2 = c2
  c3 = c3
  c4 = c4
  Ids = {1, 2, 3, 4, 5}
  Names = {c1, c2, c3, c4}
  Rows <- MCRows
  Unsafe = {4}
  Absent = absent
  Own = own
  MaxRuns = 3
  MaxFaults = 2
INVARIANTS
  FlawsAreReported
PROPERTIES
  KeepsEveryStatsbook
  RerunsChangeNothing
  DryRunForetells
CHECK_DEADLOCK FALSE
