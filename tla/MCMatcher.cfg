\* Every sequence of up to three results.
SPECIFICATION MatchSpec
CONSTANTS
  Teams = {1, 2, 3}
  Statsbooks <- MCStatsbooks
  Results <- MCResults
  MaxGames = 3
INVARIANTS
  SignatureIsTheNearest
  HomeAndAwayAreAlike
  ExactMatchesAlignScores
PROPERTIES MatchIsStable
CHECK_DEADLOCK FALSE
