SPECIFICATION Spec
CONSTANTS
  a = a
  b = b
  d1 = d1
  d2 = d2
  w1 = w1
  w2 = w2
  Devices = {d1, d2}
  Ips = {a, b}
  Private = {}
  ListedSets = {{}}
  RiskySets = {{a}}
  Writers = {w1}
  GeoWorkers = {g1}
  Deltas = {1}
  BufferMax = 2
  GeoQueueMax = 1
  MaxRows = 1
  Retention = 0
  MaxNow = 0
  MaxWrites = 3
  MaxRestarts = 0
CHECK_DEADLOCK FALSE
PROPERTY TrimSparesProtected
