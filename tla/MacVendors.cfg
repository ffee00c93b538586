SPECIFICATION FairSpec
CONSTANTS
  i1 = i1
  m1 = m1
  m2 = m2
  c1 = c1
  w1 = w1
  w2 = w2
  Ips = {i1}
  Macs = {m1, m2}
  Capturers = {c1}
  PacketWorkers = {w1, w2}
  QueueMax = 1
  HotTTL = 1
  MissTTL = 1
  NegativeTTL = 1
  MaxNow = 1
  MaxFrames = 2
  MaxItems = 1
INVARIANTS
  TypeOK
  OneHolder
  QuietAfterPark
  VendorIsTheMacs
PROPERTIES
  MarksEnd
CHECK_DEADLOCK FALSE
