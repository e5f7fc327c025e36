---------------------------- MODULE StationFile ----------------------------
(***************************************************************************)
(* diStation::initStations: one station file is read into station_map.     *)
(* A line with "obssource" sets the type of the stations that follow.  In  *)
(* a fixed list every other line is a station, the empty one behind the    *)
(* last newline too.  In a file whose name contains .SQL the first other   *)
(* line is a query, and getStationList fills the list from its rows.       *)
(*                                                                         *)
(* A line is how many cells it is split into and what they name; a         *)
(* position or a height is where it comes from.  A line that is longer     *)
(* than the buffer is cut, and getline then fails, which ends the file.    *)
(***************************************************************************)
EXTENDS Integers, Sequences, FiniteSets, FiniteSetsExt

CONSTANTS
  Contents,    \* what a fixed station file can contain, sequences of lines
  Queries,     \* what a file with a query can contain
  Results,     \* what the query can return, sequences of rows
  MaxRetries   \* connection attempts repeated after an exception, 10 in the code

WMO == "WMO"
ICAO == "ICAO"
SHIP == "SHIP"
FLIGHT == "FLIGHT"

(* What a line is split into.  A WMO number is a block and three digits.   *)
Lines ==
  [obssource : BOOLEAN, types : SUBSET {WMO, ICAO, SHIP, FLIGHT}, format : {"new", "old"},
   cells : Nat, block : Nat, number : 0 .. 999, code : STRING, height : BOOLEAN, long : BOOLEAN]

(* A row of a station list; the database names a station by one of these. *)
ResultRows == [block : Nat, number : 0 .. 999, code : STRING]

ASSUME MaxRetriesAssumption == MaxRetries \in Nat
ASSUME ContentsAssumption == Contents \cup Queries \subseteq Seq(Lines) \ {<<>>}
ASSUME ResultsAssumption == Results \subseteq Seq(ResultRows)

VARIABLES
  content,      \* the file
  result,       \* the rows the database has for its query
  pc,           \* where initStations or getStationList is
  lineno,       \* lines read so far
  good,         \* ifs.good()
  station_type, \* the type of the stations that follow
  stations,     \* the list being filled
  j,            \* the stations initStations counted, or the row getStationList is at
  ret,          \* what getStationList returned, 0 before it is called
  conn,         \* whether getStationList holds a connection
  retries,      \* its failed attempts
  station_map   \* the published list, or NotLoaded

vars == <<content, result, pc, lineno, good, station_type, stations, j, ret, conn, retries, station_map>>

NotLoaded == [loaded |-> FALSE]

(* The name of the file contains .SQL. *)
Dynamic == content \in Queries

Init ==
  /\ content \in Contents \cup Queries
  /\ result \in Results
  /\ pc = "open" /\ lineno = 0 /\ good = FALSE
  /\ station_type = WMO
  /\ stations = <<>> /\ j = 0 /\ ret = 0
  /\ conn = FALSE /\ retries = 0
  /\ station_map = NotLoaded

-----------------------------------------------------------------------------
(* One station. *)

IntNull == 2147483647
TextNull == ""

(* initStation *)
InitStation ==
  [stationid |-> IntNull, station_type |-> TextNull, lat |-> "null", lon |-> "null",
   height |-> "null", wmonr |-> IntNull, ICAOid |-> TextNull, call_sign |-> TextNull]

(* A cell sets its attribute if the line has that many cells. *)
If(line, n, value, old) == IF line.cells >= n THEN value ELSE old

Height(line, missing) == IF line.height THEN "file" ELSE missing

(* Mutant of WmoStation: a block of a hundred stations. *)
WmoStationByHundred(s, line) ==
  [s EXCEPT !.wmonr = line.block * 100 + If(line, 2, line.number, 0),
            !.lat = If(line, 4, "file", @), !.lon = If(line, 5, "file", @),
            !.height = If(line, 6, Height(line, "-32767"), @)]

(* block;number;name;lat;lon;height *)
WmoStation(s, line) ==
  [s EXCEPT !.wmonr = line.block * 1000 + If(line, 2, line.number, 0),
            !.lat = If(line, 4, "file", @), !.lon = If(line, 5, "file", @),
            !.height = If(line, 6, Height(line, "-32767"), @)]

(* code;name;lat;lon;height *)
IcaoStation(s, line) ==
  [s EXCEPT !.ICAOid = line.code,
            !.lat = If(line, 3, "file", @), !.lon = If(line, 4, "file", @),
            !.height = If(line, 5, Height(line, "-32767"), @)]

(* call sign;... *)
ShipStation(s, line) ==
  [s EXCEPT !.call_sign = line.code, !.lat = "0", !.lon = "0", !.height = "0"]

(* number,name,lat,lon,,height: whatever the type is. *)
OldStation(s, line) ==
  [s EXCEPT !.wmonr = line.block * 1000 + line.number,
            !.lat = If(line, 3, "file", @), !.lon = If(line, 4, "file", @),
            !.height = If(line, 6, Height(line, "-23767"), @)]

(* setStation(line); a line of a flight sets nothing. *)
SetStation(s, line) ==
  IF line.format = "old" THEN OldStation(s, line)
  ELSE IF s.station_type = WMO THEN WmoStation(s, line)
  ELSE IF s.station_type = ICAO THEN IcaoStation(s, line)
  ELSE IF s.station_type = SHIP THEN ShipStation(s, line)
  ELSE s

(* A station of a row of getStationList. *)
RowStation(type, id, row) ==
  LET s == [InitStation EXCEPT !.station_type = type, !.stationid = id] IN
  IF type = WMO
  THEN [s EXCEPT !.wmonr = row.block * 1000 + row.number, !.lat = "db", !.lon = "db", !.height = "db"]
  ELSE IF type = ICAO
  THEN [s EXCEPT !.ICAOid = row.code, !.lat = "db", !.lon = "db", !.height = "db"]
  ELSE [s EXCEPT !.call_sign = row.code, !.lat = "0", !.lon = "0", !.height = "0"]

(* The block and number a worker asks the database for (external place      *)
(* query), from the station's number.                                      *)
AskedFor(wmonr) == IF wmonr = 0 THEN <<0, 0>> ELSE <<wmonr \div 1000, wmonr % 1000>>

-----------------------------------------------------------------------------
(* initStations *)

(* The last type of this order that the line names, or the one before. *)
NamedType(line, type) ==
  IF FLIGHT \in line.types THEN FLIGHT
  ELSE IF SHIP \in line.types THEN SHIP
  ELSE IF ICAO \in line.types THEN ICAO
  ELSE IF WMO \in line.types THEN WMO
  ELSE type

listing == <<stations, j, ret, conn, retries>>

OpenFile ==
  /\ pc = "open"
  /\ \/ pc' = "read" /\ good' = TRUE
     \/ pc' = "returned" /\ UNCHANGED good
  /\ UNCHANGED <<content, result, lineno, station_type, listing, station_map>>

Line == content[lineno + 1]

(* A line that does not fit sets failbit, the last one eofbit. *)
GetLine ==
  /\ pc = "read" /\ good
  /\ lineno' = lineno + 1
  /\ good' = (~Line.long /\ lineno' < Len(content))

(* Mutant of ReadObssource: a type once set is kept. *)
ReadObssourceOnce ==
  /\ GetLine
  /\ Line.obssource
  /\ station_type' = IF station_type = WMO THEN NamedType(Line, station_type) ELSE station_type
  /\ UNCHANGED <<content, result, pc, listing, station_map>>

ReadObssource ==
  /\ GetLine
  /\ Line.obssource
  /\ station_type' = NamedType(Line, station_type)
  /\ UNCHANGED <<content, result, pc, listing, station_map>>

(* "first station must always be added": j is the next id. *)
AddStation(s) ==
  /\ j' = j + 1
  /\ stations' = Append(stations, [s EXCEPT !.stationid = j'])

ReadStation ==
  /\ GetLine
  /\ ~Line.obssource /\ ~Dynamic
  /\ AddStation(SetStation([InitStation EXCEPT !.station_type = station_type], Line))
  /\ UNCHANGED <<content, result, pc, station_type, ret, conn, retries, station_map>>

(* break behind the first query of the file. *)
ReadQuery ==
  /\ GetLine
  /\ ~Line.obssource /\ Dynamic
  /\ pc' = "connect"
  /\ UNCHANGED <<content, result, station_type, listing, station_map>>

ReadEnd ==
  /\ pc = "read" /\ ~good
  /\ pc' = "close"
  /\ UNCHANGED <<content, result, lineno, good, station_type, listing, station_map>>

(* The list is published, whatever getStationList returned. *)
CloseFile ==
  /\ pc = "close"
  /\ station_map' = [loaded |-> TRUE, list |-> stations]
  /\ pc' = "returned"
  /\ UNCHANGED <<content, result, lineno, good, station_type, listing>>

-----------------------------------------------------------------------------
(* getStationList(query, stations, station_type) *)

reading == <<content, result, lineno, good, station_type>>

Connect ==
  /\ pc = "connect"
  /\ conn' = TRUE /\ pc' = "execute"
  /\ UNCHANGED <<reading, stations, j, ret, retries, station_map>>

(* Mutant of ConnectRetry: the count starts again instead of ending them. *)
ConnectRetryForever ==
  /\ pc = "connect"
  /\ retries' = IF retries < MaxRetries THEN retries + 1 ELSE 0
  /\ UNCHANGED <<reading, pc, stations, j, ret, conn, station_map>>

(* The connection throws a pqxx_exception: sleep and try again. *)
ConnectRetry ==
  /\ pc = "connect"
  /\ retries < MaxRetries
  /\ retries' = retries + 1
  /\ UNCHANGED <<reading, pc, stations, j, ret, conn, station_map>>

(* The last attempt failed, or another exception, which returns 0. *)
ConnectFail ==
  /\ pc = "connect"
  /\ \/ retries = MaxRetries /\ ret' = 1
     \/ ret' = 0
  /\ pc' = "close"
  /\ UNCHANGED <<reading, stations, j, conn, retries, station_map>>

(* Mutant of Disconnect: a failure leaves the connection open. *)
DisconnectOnSuccess(value) ==
  /\ conn' = (conn /\ value = 1)
  /\ ret' = value
  /\ pc' = "close"

(* disconnect and return the value: noOfStations, which stays 0, or 1. *)
Disconnect(value) ==
  /\ conn' = FALSE
  /\ ret' = value
  /\ pc' = "close"

(* The query, which is empty for flights, is executed. *)
Execute ==
  /\ pc = "execute"
  /\ \/ result # <<>> /\ station_type # FLIGHT /\ pc' = "rows" /\ j' = 0 /\ UNCHANGED <<ret, conn>>
     \/ (result = <<>> \/ station_type = FLIGHT) /\ Disconnect(0) /\ UNCHANGED j
  /\ UNCHANGED <<reading, stations, retries, station_map>>

ReadRow ==
  /\ pc = "rows" /\ j < Len(result)
  /\ stations' = Append(stations, RowStation(station_type, j + 1, result[j + 1]))
  /\ j' = j + 1
  /\ UNCHANGED <<reading, pc, ret, conn, retries, station_map>>

(* Mutant of QueryFail: a failed query is repeated without clearing the list. *)
QueryFailAgain ==
  /\ pc = "rows" /\ j < Len(result)
  /\ pc' = "execute"
  /\ UNCHANGED <<reading, stations, j, ret, conn, retries, station_map>>

(* The query or a column of a row throws: the stations so far are kept. *)
QueryFail ==
  /\ pc = "execute" \/ (pc = "rows" /\ j < Len(result))
  /\ Disconnect(1)
  /\ UNCHANGED <<reading, stations, j, retries, station_map>>

RowsEnd ==
  /\ pc = "rows" /\ j = Len(result)
  /\ Disconnect(0)
  /\ UNCHANGED <<reading, stations, j, retries, station_map>>

GetStationList == Connect \/ ConnectRetry \/ ConnectFail \/ Execute \/ ReadRow \/ QueryFail \/ RowsEnd

Step == OpenFile \/ ReadObssource \/ ReadStation \/ ReadQuery \/ ReadEnd \/ CloseFile \/ GetStationList

Returned == pc = "returned" /\ UNCHANGED vars

Next == Step \/ Returned

(* The database answers every attempt and every query. *)
Spec == Init /\ [][Next]_vars /\ WF_vars(Step)

-----------------------------------------------------------------------------
(* The lines getline delivers, up to the first that is cut, and those of    *)
(* them that are stations.                                                 *)
Delivered == {n \in 1 .. Len(content) : \A l \in 1 .. n - 1 : ~content[l].long}

StationLines == {n \in Delivered : ~content[n].obssource}

(* The position in the list at which the station of line n belongs. *)
Position(n) == Cardinality({l \in StationLines : l <= n})

(* The type the last obssource line before line n that names one names. *)
Naming(n) == {l \in 1 .. n - 1 : content[l].obssource /\ content[l].types # {}}

SectionOf(n) ==
  IF Naming(n) = {} THEN WMO ELSE NamedType(content[Max(Naming(n))], WMO)

(* A fixed list has the stations of its file, all and in their order, each  *)
(* of the type of its section and with its place among them as its id:     *)
(* lines, caches and dataproviders are keyed by the id, and the workers'    *)
(* jobs are positions.                                                     *)
FixedListFollowsFile ==
  station_map.loaded /\ ~Dynamic =>
    /\ Len(station_map.list) = Cardinality(StationLines)
    /\ \A n \in StationLines :
         LET s == station_map.list[Position(n)] IN
         s.station_type = SectionOf(n) /\ s.stationid = Position(n)

(* A station is asked for in the database with what its line says: the      *)
(* block and number, the code or the call sign, if the line is in the new   *)
(* format or the section one of WMO stations.                              *)
AskedForAsListed ==
  station_map.loaded /\ ~Dynamic =>
    \A n \in StationLines :
      LET s == station_map.list[Position(n)] line == content[n] IN
      line.format = "new" \/ s.station_type = WMO =>
        /\ s.station_type = WMO /\ line.cells > 1 => AskedFor(s.wmonr) = <<line.block, line.number>>
        /\ s.station_type = ICAO => s.ICAOid = line.code
        /\ s.station_type = SHIP => s.call_sign = line.code

(* A station is the one a row names. *)
NamedBy(s, row) ==
  /\ s.station_type = WMO => AskedFor(s.wmonr) = <<row.block, row.number>>
  /\ s.station_type = ICAO => s.ICAOid = row.code
  /\ s.station_type = SHIP => s.call_sign = row.code

(* A list from a query is a beginning of its rows, wherever a row threw: in *)
(* their order, each of the type the lines before the query gave, and with  *)
(* its row number as id.  A list that ends before the rows do is either     *)
(* empty or reported by getStationList (initStations takes no notice).      *)
QueriedListFollowsRows ==
  station_map.loaded /\ Dynamic =>
    LET list == station_map.list IN
    /\ Len(list) <= Len(result)
    /\ \A n \in 1 .. Len(list) :
         /\ list[n].stationid = n
         /\ list[n].station_type = SectionOf(Min(StationLines))
         /\ NamedBy(list[n], result[n])
    /\ list # <<>> /\ ret = 0 => Len(list) = Len(result)

(* No call leaves a database connection behind, whichever way it ended. *)
ConnectionClosed == pc \in {"read", "close", "returned"} => ~conn

(* initStations returns, also for a line that does not fit and when the     *)
(* database cannot be reached.                                             *)
LoadReturns == <>(pc = "returned")
=============================================================================
