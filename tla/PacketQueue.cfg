SPECIFICATION FairSpec
CONSTANTS
  w1 = w1
  w2 = w2
  NoWorker = NoWorker
  Workers = {w1, w2}
  Capacity = 2
  LowEvery = 4
  FlushEvery = 2
INVARIANTS
  CounterLag
PROPERTIES
  NoLaneStarves
  TailCounted
