SPECIFICATION Spec
CONSTANTS
  Types = {"WMO", "ICAO", "SHIP"}
  Times = {36000, 37200}
  Intervals = {0, 600}
  Positions = {"north", "south"}
  NumParams = 2
INVARIANTS
  AttributesFromTheirColumns
  ValuesStartAtTheSameColumn
  ShipLineHasOwnPosition
  HeaderTimeNotLater
PROPERTY
  CachedLinesAndPlacesStay
