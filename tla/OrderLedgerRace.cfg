SPECIFICATION Spec
CONSTANTS
  o1 = o1
  w1 = w1
  w2 = w2
  stream = stream
  web = web
  Orders = {o1}
  Workers = {w1, w2}
  Stream = stream
  Web = web
  MaxAttempts = 2
  MaxFaults = 2
  OwnerMayLeave = FALSE
  AllowStall = FALSE
SYMMETRY WorkerSymmetry
INVARIANTS
  TypeOK
  ExchangeAgrees
  EndCountedOnce
PROPERTIES
  LifecycleSpec
CHECK_DEADLOCK FALSE
