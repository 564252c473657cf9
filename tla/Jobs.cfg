SPECIFICATION JobsSpec
CONSTANTS
  p1 = p1
  c1 = c1
  w1 = w1
  w2 = w2
  Jobs = {p1, c1}
  Code = {c1}
  Workers = {w1, w2}
  MaxFaults = 1
  Research = {p1, c1}
  Optimizations = {p1}
  Researchers = {w1, w2}
  MaxResearchFaults = 2
INVARIANTS
  JobsTypeOK
  PushAtMostOnce
PROPERTIES
  LifecycleSpec
  JobsEnd
CHECK_DEADLOCK FALSE
