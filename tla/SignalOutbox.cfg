SPECIFICATION FairSpec
CONSTANTS
  w1 = w1
  w2 = w2
  api = api
  e1 = e1
  k1 = k1
  b1 = b1
  b2 = b2
  None = None
  Procs = {w1, w2, api}
  Web = {api}
  Keys = {e1, k1}
  WebKeys = {k1}
  Bodies = {b1, b2}
  Events = {e1}
  MaxRetries = 1
  MaxFaults = 1
INVARIANTS
  TypeOK
  OneOrderPerKey
  InsertedWasGated
  AnswerFits
  DispatchedHasOrder
PROPERTIES
  EventEndIsFinal
  PendingSettles
CHECK_DEADLOCK FALSE
