---------------------------- MODULE StationLine ----------------------------
(***************************************************************************)
(* The line of one station, over calls of getData and initData for several *)
(* times: its header (key, date, clock, position), the time and position   *)
(* it takes from the first row, and one column per parameter.  The station *)
(* is shared by all calls, so that what one call stores in it is what the  *)
(* next one prints.  A call is one step.                                   *)
(*                                                                         *)
(* A line is a sequence of fields.  Rows are read by column index; a row   *)
(* is a function of column names, with the order of its query.  Times and  *)
(* intervals are seconds, positions are names.                             *)
(***************************************************************************)
EXTENDS Integers, Sequences, SequencesExt

CONSTANTS
  Types,       \* the types the station can have, without FLIGHT
  Times,       \* observation times asked for
  Intervals,   \* sampling times and offsets of the rows
  Positions,   \* positions a ship reports
  NumParams    \* params->size()

ASSUME TypesAssumption == Types \subseteq {"WMO", "ICAO", "SHIP"}
ASSUME TimesAssumption == Times \subseteq Nat /\ Intervals \subseteq Nat
ASSUME NumParamsAssumption == NumParams \in Nat

VARIABLES
  type,          \* the station's type
  position,      \* its lat_ and lon_
  environmentid, \* its automation code
  data,          \* its data_
  cached,        \* its line in the cache of each time, or NoLine
  last           \* the line the last call gave, with its time and kind

vars == <<type, position, environmentid, data, cached, last>>

NoLine == <<>>
ListPosition == "list"   \* of a fixed list, or of the query of a dynamic one
NoPosition == "0"        \* of a ship before its first row

Init ==
  /\ type \in Types
  /\ position = IF type = "SHIP" THEN NoPosition ELSE ListPosition
  /\ environmentid = 0
  /\ data = FALSE
  /\ cached = [t \in Times |-> NoLine]
  /\ last = [kind |-> "none", time |-> 0, line |-> NoLine]

-----------------------------------------------------------------------------
(* The columns of the three data queries, in the order of their SELECT. *)

Tail15 ==
  <<"parameter_id", "level_parameter_id", "level_from", "level_to", "level_parameter_unit_name",
    "statistics_type", "value", "parameter_unit", "quality", "automation_code", "reference_time",
    "valid_from", "valid_to", "observation_master_id", "time_tick",
    "observation_sampling_time_seconds", "offset_from_time_tick_seconds", "value_version_number">>

WmoColumns  == <<"wmo_block", "wmo_number", "position_id", "lat", "lon">> \o Tail15
IcaoColumns == <<"icao_code", "position_id", "lat", "lon">> \o Tail15
ShipColumns == <<"ship_id", "sender_id", "lat", "lon">> \o Tail15

ColumnsOf(t) == IF t = "WMO" THEN WmoColumns ELSE IF t = "ICAO" THEN IcaoColumns ELSE ShipColumns

(* The indices of the header file, from 0. *)
WmoIndex ==
  [position_id |-> 2, lat |-> 3, lon |-> 4, parameter_id |-> 5, level_parameter_id |-> 6,
   level_from |-> 7, level_to |-> 8, statistics_type |-> 10, value |-> 11, unit |-> 12,
   quality |-> 13, automation_code |-> 14, reference_time |-> 15, valid_from |-> 16,
   valid_to |-> 17, value_version_number |-> 22]

ShipIndex ==
  [sender_id |-> 1, lat |-> 2, lon |-> 3, parameter_id |-> 4, level_parameter_id |-> 5,
   level_from |-> 6, level_to |-> 7, statistics_type |-> 9, value |-> 10, unit |-> 11,
   quality |-> 12, automation_code |-> 13, reference_time |-> 14, valid_from |-> 15,
   valid_to |-> 16, offset_from_time_tick_seconds |-> 20, value_version_number |-> 21]

(* Mutant of Column: the column that a metar lacks is not counted. *)
ColumnNotShifted(t, index) ==
  LET columns == ColumnsOf(t)
      n == (IF t = "SHIP" THEN ShipIndex[index] ELSE WmoIndex[index]) + 1
  IN IF n <= Len(columns) THEN columns[n] ELSE "none"

(* The column an index names for a type; "Offset -1 for one column is       *)
(* missing" for ICAO.                                                      *)
Column(t, index) ==
  IF t = "SHIP" THEN ShipColumns[ShipIndex[index] + 1]
  ELSE IF t = "ICAO" THEN IcaoColumns[WmoIndex[index] - 1 + 1]
  ELSE WmoColumns[WmoIndex[index] + 1]

(* Mutant of RefTime: the reference time of the row for every type. *)
RefTimeOfRow(t) == Column(t, "reference_time")

(* A metar and a ship take their reference time from valid_to. *)
RefTime(t) == IF t = "WMO" THEN Column(t, "reference_time") ELSE Column(t, "valid_to")

(* crow: the attributes of RDKCOMBINEDROW_2 and the column each one is read *)
(* from.                                                                   *)
CRow(t) ==
  [dataprovider |-> IF t = "SHIP" THEN Column(t, "sender_id") ELSE Column(t, "position_id"),
   lat |-> Column(t, "lat"), lon |-> Column(t, "lon"),
   altitudefrom |-> Column(t, "level_from"), altitudeto |-> Column(t, "level_to"),
   validtimefrom |-> Column(t, "valid_from"), validtimeto |-> Column(t, "valid_to"),
   reftime |-> RefTime(t),
   srid |-> Column(t, "level_parameter_id"), quality |-> Column(t, "quality"),
   parameter |-> Column(t, "parameter_id"), floatvalue |-> Column(t, "value"),
   unit |-> Column(t, "unit"), storetime |-> Column(t, "reference_time"),
   dataversion |-> Column(t, "value_version_number"),
   automationcode |-> Column(t, "automation_code"), statisticstype |-> Column(t, "statistics_type")]

(* The column the header time is corrected by: the index of the ship query  *)
(* is used for all types.                                                  *)
SecColumn(t) ==
  LET index == ShipIndex.offset_from_time_tick_seconds IN
  ColumnsOf(t)[IF t = "ICAO" THEN index - 1 + 1 ELSE index + 1]

(* refTime_ *)
HeaderTime(t, row) == row[CRow(t).reftime] - row[SecColumn(t)]

-----------------------------------------------------------------------------
(* Lines. *)

Field(name, of) == [field |-> name, of |-> of]
At(place) == <<Field("lat", place), Field("lon", place)>>
Values(kind) == [k \in 1 .. NumParams |-> Field(kind, "parameter")]

(* The header a worker starts with; a ship's has no position. *)
Header(time, place) ==
  <<Field("key", "station"), Field("date", time), Field("clock", time)>>
     \o (IF type = "SHIP" THEN <<>> ELSE At(place))

(* The date and clock of a header replaced. *)
WithTime(header, time) ==
  [n \in 1 .. Len(header) |-> IF n \in {2, 3} THEN [header[n] EXCEPT !.of = time] ELSE header[n]]

(* The position of a ship follows its header. *)
ShipPosition(place) == IF type = "SHIP" THEN At(place) ELSE <<>>

(* What the query for a time returns as its first row: of that reference    *)
(* time, a metar valid at that time with the next full hour as reference.   *)
FirstRows(time) ==
  {[c \in {"reference_time", "valid_to", "offset_from_time_tick_seconds",
           "observation_sampling_time_seconds"} |->
      CASE c = "reference_time" -> time + (IF type = "ICAO" THEN offset ELSE 0)
        [] c = "valid_to" -> time - (IF type = "ICAO" THEN 0 ELSE offset)
        [] c = "offset_from_time_tick_seconds" -> offset
        [] OTHER -> sampling] :
   sampling \in Intervals,
   offset \in IF type = "ICAO" THEN {3600 - (time % 3600)} ELSE Intervals}

Give(kind, time, line) == last' = [kind |-> kind, time |-> time, line |-> line]

-----------------------------------------------------------------------------
(* getData(index_stations_to_plot, lines) for this station and a time. *)

(* The cached line. *)
GetCached(time) ==
  /\ cached[time] # NoLine
  /\ data' = TRUE
  /\ Give("cached", time, cached[time])
  /\ UNCHANGED <<type, position, environmentid, cached>>

(* Mutant of GetRows: a ship's position is stored behind the line. *)
GetRowsPositionLate(time) ==
  /\ cached[time] = NoLine
  /\ \E row \in FirstRows(time), place \in Positions, automation \in {0, 1} :
       LET line == WithTime(Header(time, position), HeaderTime(type, row))
                      \o ShipPosition(position) \o Values("value") IN
         /\ environmentid' = automation
         /\ position' = IF type = "SHIP" THEN place ELSE position
         /\ cached' = [cached EXCEPT ![time] = line]
         /\ Give("rows", time, line)
  /\ data' = TRUE
  /\ UNCHANGED type

(* Mutant of GetRows: the first row moves every station. *)
GetRowsMoveAll(time) ==
  /\ cached[time] = NoLine
  /\ \E row \in FirstRows(time), place \in Positions, automation \in {0, 1} :
       LET line == WithTime(Header(time, position), HeaderTime(type, row))
                      \o ShipPosition(place) \o Values("value") IN
         /\ environmentid' = automation
         /\ position' = place
         /\ cached' = [cached EXCEPT ![time] = line]
         /\ Give("rows", time, line)
  /\ data' = TRUE
  /\ UNCHANGED type

(* Rows: the first one gives the time, the automation code and, of a ship,  *)
(* the position.                                                           *)
GetRows(time) ==
  /\ cached[time] = NoLine
  /\ \E row \in FirstRows(time), place \in Positions, automation \in {0, 1} :
       LET here == IF type = "SHIP" THEN place ELSE position
           line == WithTime(Header(time, position), HeaderTime(type, row))
                      \o ShipPosition(here) \o Values("value") IN
         /\ environmentid' = automation
         /\ position' = here
         /\ cached' = [cached EXCEPT ![time] = line]
         /\ Give("rows", time, line)
  /\ data' = TRUE
  /\ UNCHANGED type

(* No rows: a ship keeps the position of an earlier call. *)
GetNoRows(time) ==
  /\ cached[time] = NoLine
  /\ data' = FALSE
  /\ Give("norows", time, Header(time, position) \o ShipPosition(position) \o Values("undef"))
  /\ UNCHANGED <<type, position, environmentid, cached>>

(* Not to plot: the position of a ship is not appended. *)
GetNotPlotted(time) ==
  /\ cached[time] = NoLine
  /\ data' = FALSE
  /\ Give("notplotted", time, Header(time, position) \o Values("undef"))
  /\ UNCHANGED <<type, position, environmentid, cached>>

(* The worker fails before the rows, or with the station still queued. *)
GetNothing(time) ==
  /\ data' = data \/ (cached[time] = NoLine /\ data' = FALSE)
  /\ Give("failed", time, NoLine)
  /\ UNCHANGED <<type, position, environmentid, cached>>

(* A row throws: no line, but data_ is set, and behind the first row the    *)
(* automation code and the position of a ship are stored.                  *)
GetRowsFail(time) ==
  /\ cached[time] = NoLine
  /\ data' = TRUE
  /\ \/ UNCHANGED <<position, environmentid>>
     \/ /\ environmentid' \in {0, 1}
        /\ position' \in IF type = "SHIP" THEN Positions ELSE {position}
  /\ Give("failed", time, NoLine)
  /\ UNCHANGED <<type, cached>>

(* Mutant of InitData: the header of a worker, which has no position. *)
InitDataWorkerHeader(time) ==
  /\ IF cached[time] # NoLine THEN Give("cached", time, cached[time])
     ELSE Give("dummy", time, Header(time, position) \o Values("undef"))
  /\ UNCHANGED <<type, position, environmentid, data, cached>>

(* initData: the cached line or a dummy. *)
InitData(time) ==
  /\ IF cached[time] # NoLine THEN Give("cached", time, cached[time])
     ELSE Give("dummy", time, Header(time, position) \o ShipPosition(position) \o Values("undef"))
  /\ UNCHANGED <<type, position, environmentid, data, cached>>

Next ==
  \E time \in Times :
    \/ GetCached(time) \/ GetRows(time) \/ GetNoRows(time) \/ GetNotPlotted(time)
    \/ GetNothing(time) \/ GetRowsFail(time) \/ InitData(time)

Spec == Init /\ [][Next]_vars

-----------------------------------------------------------------------------
(* Every attribute of a row is read from the column it is named for, in     *)
(* each of the three queries, although all are read by index and the        *)
(* indices of one query serve two.  A metar and a ship use the end of the   *)
(* interval as reference time.                                             *)
AttributesFromTheirColumns ==
  LET c == CRow(type) IN
  /\ c.dataprovider = (IF type = "SHIP" THEN "sender_id" ELSE "position_id")
  /\ <<c.lat, c.lon, c.altitudefrom, c.altitudeto>> = <<"lat", "lon", "level_from", "level_to">>
  /\ <<c.validtimefrom, c.validtimeto, c.storetime>> = <<"valid_from", "valid_to", "reference_time">>
  /\ c.reftime = (IF type = "WMO" THEN "reference_time" ELSE "valid_to")
  /\ <<c.parameter, c.floatvalue, c.unit>> = <<"parameter_id", "value", "parameter_unit">>
  /\ <<c.srid, c.statisticstype, c.quality>> = <<"level_parameter_id", "statistics_type", "quality">>
  /\ <<c.dataversion, c.automationcode>> = <<"value_version_number", "automation_code">>

(* The first value stands behind the position, in column 6, in every line   *)
(* of either function, so that lines can be read by one header; only the    *)
(* line of a ship not to plot has its values two columns to the left.      *)
ValuesStartAtTheSameColumn ==
  last.line # NoLine =>
    /\ Len(last.line) = (IF type = "SHIP" /\ last.kind = "notplotted" THEN 3 ELSE 5) + NumParams
    /\ \A n \in 1 .. Len(last.line) :
         last.line[n].field \in {"value", "undef"} <=> n > Len(last.line) - NumParams

(* A line with observations of a ship was built with the position of its    *)
(* own first row: when the line is new, that is where the ship is now.      *)
ShipLineHasOwnPosition ==
  last.kind = "rows" => last.line[4].of = position /\ last.line[5].of = position

(* A line in the cache never changes, wherever the ship sails meanwhile,    *)
(* and a station on land is never moved by its rows.                       *)
CachedLinesAndPlacesStay ==
  [][/\ \A t \in Times : cached[t] # NoLine => cached'[t] = cached[t]
     /\ type # "SHIP" => position' = position]_vars

(* The time in the header of a line with observations is not after the time *)
(* it was asked for: a metar is not labelled with the full hour its query  *)
(* asks for, and the offset, or the sampling time that is read in its      *)
(* place, is taken off and not added.                                      *)
HeaderTimeNotLater == last.kind = "rows" => last.line[2].of <= last.time
=============================================================================
