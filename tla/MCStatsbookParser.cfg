\* Three jams of any kind in two periods, one penalty, three days.
SPECIFICATION Spec
CONSTANTS
  Rosters <- MCRosters
  Plays <- MCPlays
  Dates <- MCDates
  SheetRows = 5
  ThisYear = 2026
  MaxJams = 3
  MaxPenalties = 1
INVARIANTS
  JamsAreReadBack
  PointsAreCountedOnce
  ResultIsKept
  StatsAreOfThoseWhoPlayed
  DateIsTheOneMeant
CHECK_DEADLOCK FALSE
