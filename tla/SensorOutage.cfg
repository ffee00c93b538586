SPECIFICATION Spec
CONSTANTS
  a = a
  b = b
  c = c
  h1 = h1
  h2 = h2
  NoHandler = NoHandler
  Ips = {a, b, c}
  Handlers = {h1, h2}
  MaxBufferIps = 2
  MaxEvents = 1
  HubMaxEvents = 1
  MaxClock = 1
  MaxCaptured = 3
  MaxPosts = 2
  MaxRestarts = 0
INVARIANT OutageLosesNothing
CHECK_DEADLOCK FALSE
