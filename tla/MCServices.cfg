SPECIFICATION ServicesSpec
CONSTANTS
  w1 = w1
  w2 = w2
  StreamWorkers = {w1, w2}
  NoWorker = NoWorker
  Ghost = Ghost
  FailureThreshold = 3
  MaxJobs = 2
  MaxFaults = 4
  Evaluators = {w1, w2}
  NoOne = NoOne
  Gone = Gone
  MaxBar = 4
  CatchUp = 1
  MaxDefers = 1
  StrikeMaxBars = 2
  MaxEvalFaults = 2
  Owners = {u1, u2}
  Strategies = {s1, s2}
  Slots = {n1, n2}
  EntryIds = {e1, e2}
  Requests = {r1, r2}
  SessionCap = 1
  Ticks = 2
  Levels = {1, 2}
  MaxEntryFaults = 1
INVARIANTS
  ServicesTypeOK
  NoBarLost
  AdmissionHolds
  DoubledOnlyMidair
PROPERTIES
  ReleasedByHolder
  OffIsSilent
  DirectionNeedsTwo
  ServicesSettle
CHECK_DEADLOCK FALSE
