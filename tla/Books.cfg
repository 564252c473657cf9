SPECIFICATION BooksSpec
CONSTANTS
  o1 = o1
  w1 = w1
  w2 = w2
  stream = stream
  web = web
  Orders = {o1}
  Workers = {w1, w2}
  Stream = stream
  Web = web
  MaxAttempts = 1
  MaxFaults = 1
  OwnerMayLeave = TRUE
  AllowStall = TRUE
  t1 = t1
  t2 = t2
  x1 = x1
  x2 = x2
  TradeIds = {t1, t2}
  ExitIds = {x1, x2}
  Quantities <- MCQuantities
  MaxQty = 2
  Pyramiding = 1
  EpochBar = 1
  BrokerBars = 2
  CallsPerBar = 2
  SwingPrices = {40, 56, 67, 78, 90, 100, 122, 133, 144, 190}
  EntryPrices = {100}
  Extremes = {80, 120, 160}
  SwingSize = 2
  Minutes = 2
  MaxEpisodes = 2
  Until = 2
  LastInstant = 2
  MaxTries = 2
  EntryQty = 2
SYMMETRY WorkerSymmetry
INVARIANTS
  BooksTypeOK
  BracketsFit
  VenueFollows
  ReplayRight
  CopiesAgree
  LayersAgree
  AtMostOneCreate
  CancelledIsNotLive
PROPERTIES
  SettledStays
  TerminalIsFinal
CHECK_DEADLOCK FALSE
