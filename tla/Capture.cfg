SPECIFICATION Spec
CONSTANTS
  me = me
  pub = pub
  l1 = l1
  l2 = l2
  r1 = r1
  r2 = r2
  w1 = w1
  w2 = w2
  LocalIp = me
  PublicIp = pub
  Hosts = {me, pub, l1, l2, r1, r2}
  Private = {me, l1, l2}
  Workers = {w1}
  LaneMax = 2
  MaxFrames = 1
  MaxToggles = 2
INVARIANTS
  OncePerFrame
  FrameStored
  CountersExact
CHECK_DEADLOCK FALSE
SYMMETRY Symmetry
