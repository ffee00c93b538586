SPECIFICATION FairSpec
CONSTANTS
  a = a
  b = b
  d1 = d1
  d2 = d2
  w1 = w1
  w2 = w2
  Devices = {d1}
  Ips = {a, b}
  Private = {}
  ListedSets = {{}}
  RiskySets = {{}}
  Writers = {w1}
  GeoWorkers = {g1}
  Deltas = {1}
  BufferMax = 1
  GeoQueueMax = 1
  MaxRows = 2
  Retention = 0
  MaxNow = 0
  MaxWrites = 2
  MaxRestarts = 1
PROPERTIES
  StoresBehind
  BufferDrains
  EnrichmentEnds
CHECK_DEADLOCK FALSE
