SPECIFICATION TracedSpec
CONSTANTS
  Drains = {d1}
  EntryUnits = 2
  MaxGenerations = 1
  MaxTokens = 2
  MaxRiskFaults = 1
  Raws = {1, 2}
  Amount <- MCAmount
  Fitting = {1}
  NativeAmount = 4
  Sweepers = {p1, p2}
  MaxRefreshTries = 1
  MaxPnlFaults = 1
  Countdown = 1
  RetryDelay <- MCRetryDelay
  MaxRetries = 3
  FlatRetryLimit = 2
  Tolerance = 1
  Skew = 1
  Lag = 4
  LastTick = 5
  LastRecord = 1
  MaxTrailFaults = 2
INVARIANTS
  TracedTypeOK
  EntryOnlyWhenFlat
PROPERTIES
  PnlProven
  CloseEndsFlatOrLocked
  TrailFits
  TracesSettle
CHECK_DEADLOCK FALSE
