SPECIFICATION Spec
CONSTANTS
  a = a
  b = b
  c = c
  h1 = h1
  h2 = h2
  NoHandler = NoHandler
  Ips = {a, b, c}
  Handlers = {h1, h2}
  MaxBufferIps = 2
  MaxEvents = 1
  HubMaxEvents = 1
  MaxClock = 1
  MaxCaptured = 3
  MaxPosts = 2
  MaxRestarts = 1
INVARIANTS
  TypeOK
  CapturedAccounted
  AckedWereIngested
  NoRepeatUnlessAbandoned
  StaleOnlyAfterFault
PROPERTIES
  SeqAdvancesUnlessAbandoned
  AtLeastOnce
CHECK_DEADLOCK FALSE
SYMMETRY Symmetry
