SPECIFICATION FairSpec
CONSTANTS
  o1 = o1
  w1 = w1
  stream = stream
  web = web
  Orders = {o1}
  Workers = {w1}
  Stream = stream
  Web = web
  MaxAttempts = 1
  MaxFaults = 1
  OwnerMayLeave = TRUE
  AllowStall = FALSE
PROPERTIES
  LedgerSettles
CHECK_DEADLOCK FALSE
