SPECIFICATION Spec
CONSTANTS
  t1 = t1
  t2 = t2
  s1 = s1
  fritz = fritz
  Admins = {t1, t2}
  Sensors = {s1}
  BuiltIn = {fritz}
  FritzDump = fritz
  MaxKeys = 3
INVARIANTS
  CacheTracksRows
  RowHasKey
  KeyWholeUnlessClash
SYMMETRY Symmetry
