SPECIFICATION RiskSpec
CONSTANTS
  d1 = d1
  Drains = {d1}
  EntryUnits = 2
  MaxGenerations = 1
  MaxTokens = 2
  MaxRiskFaults = 0
PROPERTIES
  CloseEndsFlat
CHECK_DEADLOCK FALSE
