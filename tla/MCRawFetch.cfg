SPECIFICATION Spec
CONSTANTS
  NumStations = 3
  Wmonr <- MCWmonr
  Times = {t1, t2}
  MaxRetries = 1
INVARIANTS
  TypeOK
  ReturnValueTruthful
  OnlyRowsCached
  NoNeedlessQuery
  ConnectionClosed
PROPERTIES
  CacheGrows
  CacheChangesOnSuccess
  CallReturns
