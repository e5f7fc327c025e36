SPECIFICATION Spec
CONSTANTS
  Objects = {o1, o2}
  DatabaseFiles = {d1, d2}
  StationFiles = {f1, f2}
  ParameterFiles = {p1, p2}
  Times = {t1, t2}
  MaxStations = 2
SYMMETRY MCSymmetry
INVARIANTS
  CacheSound
PROPERTIES
  OneDatabase
  ListsStay
  CacheGrows
