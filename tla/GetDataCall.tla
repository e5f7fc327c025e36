---------------------------- MODULE GetDataCall ----------------------------
(***************************************************************************)
(* RoadDataThread and Roaddata describe the same function: the pool of one *)
(* call of getData(index_stations_to_plot, lines) here, one step of an     *)
(* object there.  This module says that the two agree: what the pool has   *)
(* done when the call returns is a GetData step of the object.             *)
(*                                                                         *)
(* The object of the call has its lists and the cached lines of its        *)
(* station file and time.  Roaddata tells lines of observations from lines *)
(* of undefined values, so the four kinds of line become two.              *)
(***************************************************************************)
EXTENDS RoadDataThread

(* The names of what the object was constructed with. *)
StationFile   == "stations"
ParameterFile == "parameters"
DatabaseFile  == "database"
ObsTime       == "time"
ThisObject       == "object"

(* The object that was constructed before the call. *)
Constructed ==
  [built |-> TRUE, stationfile |-> StationFile, parameterfile |-> ParameterFile,
   obstime |-> ObsTime, databasefile |-> DatabaseFile, params |-> TRUE, stations |-> TRUE]

(* A line as Roaddata has it. *)
LineSeen(line) ==
  IF line = NoLine THEN [kind |-> "none"]
  ELSE [kind |-> IF line \in {"cached", "rows"} THEN "rows" ELSE "undefined",
        stationfile |-> StationFile, obstime |-> ObsTime, params |-> ParameterFile]

(* The lines of all stations. *)
Seen(lineOf) == [s \in Stations |-> LineSeen(lineOf[s])]

Call == INSTANCE Roaddata WITH
  Objects <- {ThisObject}, DatabaseFiles <- {DatabaseFile}, StationFiles <- {StationFile},
  ParameterFiles <- {ParameterFile}, Times <- {ObsTime}, MaxStations <- NumStations,
  initDone <- TRUE,
  connect_str <- DatabaseFile,
  station_map <- [f \in {StationFile} |-> NumStations],
  params_map <- {ParameterFile},
  road_data_cache <- [f \in {StationFile} |-> [t \in {ObsTime} |-> Seen(cache)]],
  object <- [o \in {ThisObject} |-> Constructed],
  result <- IF main = "returned"
            THEN [call |-> "getData", object |-> ThisObject, ret |-> 0, lines |-> Seen(lines)]
            ELSE [call |-> "none"]

-----------------------------------------------------------------------------
(* No lookup that raced with a write missed a cached line. *)
CacheNotMissed == \A s \in torn : cache[s] = NoLine

(* The step in which getData saves the cache and returns. *)
Returns == main # "returned" /\ main' = "returned"

(* All that a call does to the cache and to its result it does in one step, *)
(* and that step is one Roaddata takes: the stations that were answered     *)
(* have the cached line if there is one, a line of rows or one of undefined *)
(* values, and exactly the new lines of rows are cached.                   *)
CallIsGetData ==
  [][IF Returns
     THEN CacheNotMissed => \E answered, rows \in SUBSET Stations :
                              Call!GetData(ThisObject, answered, ToPlot, rows)
     ELSE UNCHANGED Call!vars]_vars
=============================================================================
