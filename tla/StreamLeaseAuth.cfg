SPECIFICATION StreamSpec
CONSTANTS
  w1 = w1
  w2 = w2
  StreamWorkers = {w1, w2}
  NoWorker = NoWorker
  Ghost = Ghost
  FailureThreshold = 3
  MaxJobs = 2
  MaxFaults = 2
PROPERTIES
  RefusalIsTold
CHECK_DEADLOCK FALSE
