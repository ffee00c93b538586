SPECIFICATION FairSpec
CONSTANTS
  f1 = f1
  p1 = p1
  p2 = p2
  NoProc = NoProc
  Files = {f1}
  Procs = {p1, p2}
  Bodies = {1, 2}
  MaxPackets = 2
  Budget = 3
  MaxRecords = 2
  MaxFaults = 2
INVARIANTS
  OnceInOrder
  OneWorker
PROPERTIES
  StopKillsWorker
  AllRead
