SPECIFICATION SearchSpec
CONSTANTS
  Days <- FiveYears
  Months = 3
  Week = 4
  Hours = 3
  Minutes = 2
  Seconds = 2
  Horizon = 14
  Lookback = 7
  MaxTurns = 20
  Word = 16
  Lines <- AllLines
  Starts <- AllStarts
INVARIANT FirstMatch
INVARIANT LatestPast
PROPERTY Returns
CHECK_DEADLOCK FALSE
