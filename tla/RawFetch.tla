------------------------------ MODULE RawFetch ------------------------------
(***************************************************************************)
(* Roaddata::getData(stations_to_plot, raw_data_map), the radiosonde path: *)
(* one thread goes through the station list, asks the database for every   *)
(* station to plot that is not cached, and writes road_data_multi_cache    *)
(* back after the last station.  A failed query ends the call with 1 in    *)
(* the middle of the list.  Calls for several observation times of one     *)
(* station file follow each other.                                         *)
(***************************************************************************)
EXTENDS Integers, FiniteSets

CONSTANTS
  NumStations,  \* stations->size(); the ids are the positions 1..NumStations
  Wmonr,        \* the WMO number of each station
  Times,        \* observation times that are asked for
  MaxRetries    \* connection attempts repeated after an exception, 10 in the code

Stations == 1 .. NumStations
Numbers  == {Wmonr[s] : s \in Stations}

ASSUME NumStationsAssumption == NumStations \in Nat
ASSUME WmonrAssumption == Wmonr \in [Stations -> Int]
ASSUME TimesAssumption == Times # {}
ASSUME MaxRetriesAssumption == MaxRetries \in Nat

VARIABLES
  \* Kept between the calls.
  multi_cache,    \* road_data_multi_cache[stationfile_], by time and station
  dataproviders,  \* diStation::dataproviders[stationfile_]
  data,           \* data_ of each station
  \* One call.
  at,             \* where the call is
  time,           \* obstime_
  wanted,         \* the WMO numbers of stations_to_plot
  pos,            \* the station it is at, i + 1
  retries,        \* failed connection attempts
  conn,           \* whether it holds a connection
  tmp_data,       \* its copy of the cached rows of this time
  raw_data_map,   \* the caller's result
  ret             \* the value it returned

kept == <<multi_cache, dataproviders, data>>
call == <<time, wanted>>
vars == <<kept, at, call, pos, retries, conn, tmp_data, raw_data_map, ret>>

-----------------------------------------------------------------------------
(* The rows of a station: nothing, an empty vector, or what was returned.   *)
NoRows == "none"
Rows == {"empty", "rows"}

NoProvider == "none"
NoPlace == "0"
PlaceIds == "ids"

Nowhere == {"idle", "returned"}
Places == Nowhere \cup {"connect", "station", "place", "query", "convert", "end"}

Nothing == [s \in Stations |-> NoRows]

Init ==
  /\ multi_cache = [t \in Times |-> Nothing]
  /\ dataproviders = [s \in Stations |-> NoProvider]
  /\ data = [s \in Stations |-> FALSE]
  /\ at = "idle" /\ time \in Times /\ wanted = {} /\ pos = 1
  /\ retries = 0 /\ conn = FALSE /\ ret = 0
  /\ tmp_data = Nothing /\ raw_data_map = Nothing

-----------------------------------------------------------------------------
(* A call for another time or other stations; the rows cached for the time  *)
(* are copied.                                                             *)
Call(t, numbers) ==
  /\ at \in Nowhere
  /\ at' = "connect" /\ time' = t /\ wanted' = numbers
  /\ pos' = 1 /\ retries' = 0 /\ conn' = FALSE
  /\ tmp_data' = multi_cache[t]
  /\ raw_data_map' = Nothing
  /\ UNCHANGED <<kept, ret>>

Connect ==
  /\ at = "connect"
  /\ conn' = TRUE
  /\ at' = IF NumStations = 0 THEN "end" ELSE "station"
  /\ UNCHANGED <<kept, call, pos, retries, tmp_data, raw_data_map, ret>>

ConnectRetry ==
  /\ at = "connect"
  /\ retries < MaxRetries
  /\ retries' = retries + 1
  /\ UNCHANGED <<kept, at, call, pos, conn, tmp_data, raw_data_map, ret>>

ConnectFail ==
  /\ at = "connect"
  /\ at' = "returned" /\ ret' = 1
  /\ UNCHANGED <<kept, call, pos, retries, conn, tmp_data, raw_data_map>>

(* Mutant of NextStation: the end of the list is not noticed. *)
NextStationUnbounded ==
  /\ pos' = pos + 1
  /\ at' = "station"

(* On to the next station of the list. *)
NextStation ==
  /\ pos' = pos + 1
  /\ at' = IF pos = NumStations THEN "end" ELSE "station"

(* The rows are cached for this time. *)
ServeCached ==
  /\ at = "station"
  /\ tmp_data[pos] # NoRows
  /\ raw_data_map' = [raw_data_map EXCEPT ![pos] = tmp_data[pos]]
  /\ NextStation
  /\ UNCHANGED <<kept, call, retries, conn, tmp_data, ret>>

(* A station is to plot if its WMO number is that of one that is. *)
NotToPlot ==
  /\ at = "station"
  /\ tmp_data[pos] = NoRows /\ Wmonr[pos] \notin wanted
  /\ raw_data_map' = [raw_data_map EXCEPT ![pos] = "empty"]
  /\ NextStation
  /\ UNCHANGED <<kept, call, retries, conn, tmp_data, ret>>

(* Mutant of ToPlot: the cache is not looked up. *)
ToPlotAlwaysAsked ==
  /\ at = "station"
  /\ Wmonr[pos] \in wanted
  /\ at' = IF dataproviders[pos] = NoProvider THEN "place" ELSE "query"
  /\ UNCHANGED <<kept, call, pos, retries, conn, tmp_data, raw_data_map, ret>>

ToPlot ==
  /\ at = "station"
  /\ tmp_data[pos] = NoRows /\ Wmonr[pos] \in wanted
  /\ at' = IF dataproviders[pos] = NoProvider THEN "place" ELSE "query"
  /\ UNCHANGED <<kept, call, pos, retries, conn, tmp_data, raw_data_map, ret>>

(* The place ids of the station, "0" without any, become its provider. *)
PlaceQuery ==
  /\ at = "place"
  /\ \E id \in {NoPlace, PlaceIds} : dataproviders' = [dataproviders EXCEPT ![pos] = id]
  /\ at' = "query"
  /\ UNCHANGED <<multi_cache, data, call, pos, retries, conn, tmp_data, raw_data_map, ret>>

(* The data query returns rows: data_ is set before they are converted. *)
QueryRows ==
  /\ at = "query"
  /\ dataproviders[pos] = PlaceIds
  /\ data' = [data EXCEPT ![pos] = TRUE]
  /\ at' = "convert"
  /\ UNCHANGED <<multi_cache, dataproviders, call, pos, retries, conn, tmp_data,
                 raw_data_map, ret>>

(* Mutant of QueryNothing: the empty answer is cached too. *)
QueryNothingCached ==
  /\ at = "query"
  /\ raw_data_map' = [raw_data_map EXCEPT ![pos] = "empty"]
  /\ tmp_data' = [tmp_data EXCEPT ![pos] = "empty"]
  /\ NextStation
  /\ UNCHANGED <<kept, call, retries, conn, ret>>

(* Mutant of QueryNothing: the station is asked for again. *)
QueryNothingAgain ==
  /\ at = "query"
  /\ at' = "station"
  /\ UNCHANGED <<kept, call, pos, retries, conn, tmp_data, raw_data_map, ret>>

(* The data query returns no row: the answer is an empty vector. *)
QueryNothing ==
  /\ at = "query"
  /\ raw_data_map' = [raw_data_map EXCEPT ![pos] = "empty"]
  /\ NextStation
  /\ UNCHANGED <<kept, call, retries, conn, tmp_data, ret>>

(* The rows mapped to parameters are returned and cached for the time. *)
ConvertRows ==
  /\ at = "convert"
  /\ raw_data_map' = [raw_data_map EXCEPT ![pos] = "rows"]
  /\ tmp_data' = [tmp_data EXCEPT ![pos] = "rows"]
  /\ NextStation
  /\ UNCHANGED <<kept, call, retries, conn, ret>>

(* Mutant of Abort: the failed station is skipped and the call goes on. *)
AbortStationOnly ==
  /\ at \in {"place", "query", "convert"}
  /\ NextStation
  /\ UNCHANGED <<kept, call, retries, conn, tmp_data, raw_data_map, ret>>

(* Mutant of Abort: the rows fetched so far are saved. *)
AbortSaving ==
  /\ at \in {"place", "query", "convert"}
  /\ conn' = FALSE
  /\ at' = "returned" /\ ret' = 1
  /\ multi_cache' = [multi_cache EXCEPT ![time] = tmp_data]
  /\ UNCHANGED <<dataproviders, data, call, pos, retries, tmp_data, raw_data_map>>

(* Mutant of Abort: the connection is left open. *)
AbortKeepingConnection ==
  /\ at \in {"place", "query", "convert"}
  /\ at' = "returned" /\ ret' = 1
  /\ UNCHANGED <<kept, call, pos, retries, conn, tmp_data, raw_data_map>>

(* A query or a conversion fails: 1 is returned, nothing is written back. *)
Abort ==
  /\ at \in {"place", "query", "convert"}
  /\ conn' = FALSE
  /\ at' = "returned" /\ ret' = 1
  /\ UNCHANGED <<kept, call, pos, retries, tmp_data, raw_data_map>>

(* Mutant of WriteBack: the map of this time replaces all times. *)
WriteBackThisTimeOnly ==
  /\ at = "end"
  /\ conn' = FALSE
  /\ multi_cache' = [t \in Times |-> IF t = time THEN tmp_data ELSE Nothing]
  /\ at' = "returned" /\ ret' = 0
  /\ UNCHANGED <<dataproviders, data, call, pos, retries, tmp_data, raw_data_map>>

(* Disconnect, and replace the cached rows of this time. *)
WriteBack ==
  /\ at = "end"
  /\ conn' = FALSE
  /\ multi_cache' = [multi_cache EXCEPT ![time] = tmp_data]
  /\ at' = "returned" /\ ret' = 0
  /\ UNCHANGED <<dataproviders, data, call, pos, retries, tmp_data, raw_data_map>>

Step ==
  \/ Connect \/ ConnectRetry \/ ConnectFail
  \/ ServeCached \/ NotToPlot \/ ToPlot
  \/ PlaceQuery \/ QueryRows \/ QueryNothing \/ ConvertRows
  \/ Abort \/ WriteBack

Next == Step \/ \E t \in Times, numbers \in SUBSET Numbers : Call(t, numbers)

(* A call goes on to its end; nobody has to make another. *)
Spec == Init /\ [][Next]_vars /\ WF_vars(Step)

-----------------------------------------------------------------------------
TypeOK ==
  /\ multi_cache \in [Times -> [Stations -> Rows \cup {NoRows}]]
  /\ dataproviders \in [Stations -> {NoProvider, NoPlace, PlaceIds}]
  /\ data \in [Stations -> BOOLEAN]
  /\ at \in Places /\ time \in Times /\ wanted \subseteq Numbers
  /\ pos \in 1 .. NumStations + 1
  /\ at \in {"station", "place", "query", "convert"} => pos \in Stations
  /\ retries \in 0 .. MaxRetries /\ conn \in BOOLEAN /\ ret \in {0, 1}
  /\ tmp_data \in [Stations -> Rows \cup {NoRows}]
  /\ raw_data_map \in [Stations -> Rows \cup {NoRows}]

(* What the return value is worth: after 0 every station is answered; after *)
(* 1 exactly the stations before the one that failed.                      *)
ReturnValueTruthful ==
  at = "returned" =>
    \A s \in Stations : raw_data_map[s] # NoRows <=> ret = 0 \/ s < pos

(* Only rows the database returned are cached, in the copy of a call that   *)
(* goes on and in the cache: an empty answer is asked for again next time.  *)
OnlyRowsCached ==
  /\ \A s \in Stations : tmp_data[s] \in {NoRows, "rows"}
  /\ \A t \in Times, s \in Stations : multi_cache[t][s] \in {NoRows, "rows"}

(* The database is never asked for what is cached for the time, nor for a   *)
(* station that is not to plot.                                            *)
NoNeedlessQuery ==
  at \in {"place", "query"} =>
    multi_cache[time][pos] = NoRows /\ Wmonr[pos] \in wanted

(* A call ends with its connection closed, also when it fails. *)
ConnectionClosed == at \in Nowhere => ~conn

(* Cached rows are never lost: not by a call for another time, nor by a     *)
(* call that fails halfway.                                                *)
CacheGrows ==
  [][\A t \in Times, s \in Stations :
       multi_cache[t][s] # NoRows => multi_cache'[t][s] = multi_cache[t][s]]_vars

(* The cache changes in one step only, the return of a call that answered   *)
(* every station: the rows of a call that failed halfway reach the caller   *)
(* and are not cached.                                                     *)
CacheChangesOnSuccess ==
  [][multi_cache' # multi_cache =>
       at' = "returned" /\ ret' = 0 /\ \A s \in Stations : raw_data_map[s] # NoRows]_vars

(* Every call returns. *)
CallReturns == at \notin Nowhere ~> at = "returned"
=============================================================================
