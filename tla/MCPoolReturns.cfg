SPECIFICATION Spec
CONSTANTS
  NumStations = 3
  PoolSize = 2
  ToPlot = {1, 2}
  MaxRetries = 1
  Histories = {"fresh", "cached"}
PROPERTIES
  CallReturns
