--------------------------- MODULE MCStationLine ---------------------------
EXTENDS StationLine
=============================================================================
