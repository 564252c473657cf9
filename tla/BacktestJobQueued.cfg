SPECIFICATION Spec
CONSTANTS
  p1 = p1
  w1 = w1
  Jobs = {p1}
  Code = {}
  Workers = {w1}
  MaxFaults = 0
INVARIANTS
  QueuedIsEnqueued
CHECK_DEADLOCK FALSE
