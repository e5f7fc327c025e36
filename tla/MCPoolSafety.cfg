SPECIFICATION Spec
CONSTANTS
  NumStations = 3
  PoolSize = 2
  ToPlot = {1, 2}
  MaxRetries = 1
  Histories = {"fresh", "known", "unknown", "poisoned", "cached"}
INVARIANTS
  TypeOK
  NoJobLost
  UnansweredIsAbandoned
  OnlyRowsCached
  ServedFromCache
  DataMatchesLine
  ConnectionsClosed
PROPERTIES
  LineFinal
  FetchSpec
  CallIsGetData
