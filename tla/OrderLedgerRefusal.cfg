SPECIFICATION FairSpec
CONSTANTS
  o1 = o1
  w1 = w1
  w2 = w2
  stream = stream
  web = web
  Orders = {o1}
  Workers = {w1, w2}
  Stream = stream
  Web = web
  MaxAttempts = 1
  MaxFaults = 0
  OwnerMayLeave = TRUE
  AllowStall = FALSE
PROPERTIES
  RefusedUnsent
CHECK_DEADLOCK FALSE
