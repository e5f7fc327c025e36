SPECIFICATION Spec
CONSTANTS
  NumStations = 2
  PoolSize = 2
  ToPlot = {1, 2}
  MaxRetries = 1
  Histories = {"fresh", "cached"}
INVARIANTS
  TmpDataProtected
