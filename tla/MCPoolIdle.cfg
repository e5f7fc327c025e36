SPECIFICATION Spec
CONSTANTS
  NumStations = 2
  PoolSize = 3
  ToPlot = {1}
  MaxRetries = 1
  Histories = {"fresh", "known", "cached"}
PROPERTIES
  StationsSettle
