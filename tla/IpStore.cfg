SPECIFICATION Spec
CONSTANTS
  a = a
  b = b
  d1 = d1
  d2 = d2
  w1 = w1
  w2 = w2
  Devices = {d1, d2}
  Ips = {a, b}
  Private = {}
  ListedSets = {{}}
  RiskySets = {{}, {a}}
  Writers = {w1, w2}
  GeoWorkers = {g1}
  Deltas = {1}
  BufferMax = 1
  GeoQueueMax = 1
  MaxRows = 1
  Retention = 0
  MaxNow = 1
  MaxWrites = 2
  MaxRestarts = 0
INVARIANTS
  PacketsAccounted
  InflightExact
  NewAnnouncedOnce
  LedgerCoversRows
PROPERTIES
  LedgerPermanent
  LocationSticks
  ThreatLossNamed
CHECK_DEADLOCK FALSE
SYMMETRY Symmetry
