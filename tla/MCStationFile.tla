--------------------------- MODULE MCStationFile ---------------------------
EXTENDS StationFile

Source(types) == [obssource |-> TRUE, types |-> types, format |-> "old", cells |-> 1,
                  block |-> 0, number |-> 0, code |-> "", height |-> FALSE, long |-> FALSE]

Station(format, cells, block, number, code, height) ==
  [Source({}) EXCEPT !.obssource = FALSE, !.format = format, !.cells = cells, !.block = block,
                     !.number = number, !.code = code, !.height = height]

Empty == Station("old", 1, 0, 0, "", FALSE)

Sources == {Source({}), Source({WMO}), Source({ICAO}), Source({SHIP, WMO}), Source({FLIGHT})}

New1 == Station("new", 6, 1, 152, "ENBO", TRUE)
New2 == Station("new", 5, 2, 0, "LDWR", FALSE)
Short == Station("new", 2, 1, 152, "", FALSE)
Old  == Station("old", 6, 3, 923, "", FALSE)
Cut  == [New2 EXCEPT !.long = TRUE]

StationsAndSources == {New1, New2, Old, Cut} \cup Sources

MCContents ==
  {<<l1, l2, l3>> : l1, l2, l3 \in StationsAndSources} \cup {<<Empty>>, <<Short, Empty>>}
    \cup {<<l1, l2, l3, Empty>> : l1, l2, l3 \in {New1, Old, Source({ICAO}), Source({WMO})}}

Query == Station("old", 4, 0, 0, "select", FALSE)

MCQueries ==
  {<<s, Query, Query>> : s \in Sources}
    \cup {<<Query>>, <<Source({ICAO})>>, <<Source({SHIP, WMO}), Source({ICAO}), Query>>,
          <<Source({ICAO}), [Query EXCEPT !.long = TRUE]>>}

Row(block, number, code) == [block |-> block, number |-> number, code |-> code]

MCResults == {<<>>, <<Row(1, 152, "ENBO")>>, <<Row(1, 152, "ENBO"), Row(2, 84, "LDWR")>>}
=============================================================================
