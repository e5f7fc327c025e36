SPECIFICATION Spec
CONSTANTS
  Objects = {o1, o2}
  DatabaseFiles = {d1}
  StationFiles = {f1, f2}
  ParameterFiles = {p1, p2}
  Times = {t1}
  MaxStations = 2
INVARIANTS
  LinesFitParameters
