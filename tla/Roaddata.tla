------------------------------ MODULE Roaddata ------------------------------
(***************************************************************************)
(* Roaddata objects and the static state they share: the connect string,   *)
(* the station lists, the parameter lists and road_data_cache.  One thread *)
(* makes and uses the objects.  A call of getData(index_stations_to_plot,  *)
(* lines) is one step here, with the outcomes RoadDataThread gives a call  *)
(* that returns and in which no lookup races: see GetDataCall.             *)
(***************************************************************************)
EXTENDS Integers, FiniteSets

CONSTANTS
  Objects,         \* Roaddata objects
  DatabaseFiles, StationFiles, ParameterFiles, Times,
  MaxStations      \* the longest station list

ASSUME MaxStationsAssumption == MaxStations \in Nat

VARIABLES
  initDone,        \* Roaddata::initDone
  connect_str,     \* the database file connect_str was built from
  station_map,     \* diStation::station_map, the length of each list
  params_map,      \* the files in diParam::params_map and roadparams_map
  road_data_cache, \* cached lines by station file, time and station
  object,          \* the state of each Roaddata object
  result           \* what the last getData or initData returned, and to whom

statics == <<initDone, connect_str, station_map, params_map>>
vars == <<statics, road_data_cache, object, result>>

-----------------------------------------------------------------------------
NoConnect == "none"
NotLoaded == -1

ASSUME NoConnectAssumption == NoConnect \notin DatabaseFiles

NotBuilt  == [built |-> FALSE]
NoLine    == [kind |-> "none"]
NoResult  == [call |-> "none"]

Stations == 1 .. MaxStations

(* A line of observations, or of undefined values, for one station, time    *)
(* and parameter list.                                                     *)
LineFor(o, kind) == [kind |-> kind, stationfile |-> object[o].stationfile,
                     obstime |-> object[o].obstime, params |-> object[o].parameterfile]

Built == {o \in Objects : object[o].built}

(* The stations of the object's list. *)
StationsOf(o) == 1 .. station_map[object[o].stationfile]

(* The object's part of the cache. *)
Cached(o) == road_data_cache[object[o].stationfile][object[o].obstime]

Init ==
  /\ initDone = FALSE
  /\ connect_str = NoConnect
  /\ station_map = [f \in StationFiles |-> NotLoaded]
  /\ params_map = {}
  /\ road_data_cache = [f \in StationFiles |-> [t \in Times |-> [s \in Stations |-> NoLine]]]
  /\ object = [o \in Objects |-> NotBuilt]
  /\ result = NoResult

-----------------------------------------------------------------------------
(* The constructor. *)

(* Mutant of InitRoaddata: every database file that opens is used. *)
InitRoaddataAgain(d, open) ==
  /\ initDone' = open
  /\ connect_str' = IF open THEN d ELSE connect_str

(* initRoaddata reads the first database file that opens and no other. *)
InitRoaddata(d, open) ==
  /\ initDone' = (initDone \/ open)
  /\ connect_str' = IF ~initDone /\ open THEN d ELSE connect_str

(* Mutant of InitStations: a station file is read again, and the stations   *)
(* are appended to the list that is there.                                 *)
InitStationsAppending(f, open, n) ==
  LET there == IF station_map[f] = NotLoaded THEN 0 ELSE station_map[f] IN
  station_map' = IF open THEN [station_map EXCEPT ![f] = there + n] ELSE station_map

(* initStations: a list that is there is used as it is; a file that does    *)
(* not open leaves none; a fixed list has one station per line, a dynamic  *)
(* one a station per row, up to the first row that throws.                 *)
InitStations(f, open, n) ==
  station_map' = IF station_map[f] = NotLoaded /\ open THEN [station_map EXCEPT ![f] = n] ELSE station_map

(* initParameters *)
InitParameters(p, open) ==
  params_map' = IF open THEN params_map \cup {p} ELSE params_map

(* Roaddata(databasefile, stationfile, parameterfile, obstime): the object   *)
(* points to the lists that are there once the files have been tried.      *)
Construct(o, d, f, p, t) ==
  \E dbOpens, stOpens, parOpens \in BOOLEAN, n \in 0 .. MaxStations :
    /\ InitRoaddata(d, dbOpens)
    /\ InitParameters(p, parOpens)
    /\ InitStations(f, stOpens, n)
    /\ object' = [object EXCEPT ![o] =
         [built |-> TRUE, stationfile |-> f, parameterfile |-> p, obstime |-> t,
          databasefile |-> d, params |-> p \in params_map',
          stations |-> station_map'[f] # NotLoaded]]
    /\ UNCHANGED <<road_data_cache, result>>

-----------------------------------------------------------------------------
Return(o, called, value, lines) ==
  result' = [call |-> called, object |-> o, ret |-> value, lines |-> lines]

(* getData without a parameter list, without a station list or with an      *)
(* empty one.                                                              *)
GetDataRefused(o) ==
  /\ \/ ~object[o].params
     \/ ~object[o].stations
     \/ StationsOf(o) = {}
  /\ Return(o, "getData", 1, [s \in Stations |-> NoLine])
  /\ UNCHANGED <<statics, road_data_cache, object>>

(* Mutant of SaveCache: the other times of the station file are dropped. *)
SaveCacheThisTimeOnly(f, t, lines) ==
  road_data_cache' = [road_data_cache EXCEPT ![f] =
    [u \in Times |-> IF u = t THEN lines ELSE [s \in Stations |-> NoLine]]]

(* The lines replace those of this station file and time. *)
SaveCache(f, t, lines) ==
  road_data_cache' = [road_data_cache EXCEPT ![f][t] = lines]

(* Mutant of GetData: a line of undefined values is cached as well. *)
GetDataCachingAll(o, answered, wanted, rows) ==
  /\ object[o].params /\ object[o].stations /\ StationsOf(o) # {}
  /\ LET toPlot == IF wanted = {} THEN StationsOf(o) ELSE wanted
         line(s) == IF s \notin answered THEN NoLine
                    ELSE IF Cached(o)[s] # NoLine THEN Cached(o)[s]
                    ELSE LineFor(o, IF s \in toPlot \cap rows THEN "rows" ELSE "undefined")
     IN /\ Return(o, "getData", 0, [s \in Stations |-> line(s)])
        /\ SaveCache(object[o].stationfile, object[o].obstime,
                     [s \in Stations |-> IF s \in answered THEN line(s) ELSE Cached(o)[s]])
  /\ UNCHANGED <<statics, object>>

(* The stations a failed worker abandoned are not answered, the cached ones *)
(* have the cached line, the others a line of observations if they are to   *)
(* plot and the database has rows, and of undefined values if not.  An      *)
(* empty list of stations to plot stands for all stations.                 *)
GetData(o, answered, wanted, rows) ==
  /\ object[o].params /\ object[o].stations /\ StationsOf(o) # {}
  /\ LET toPlot == IF wanted = {} THEN StationsOf(o) ELSE wanted
         fetched == ((answered \cap toPlot) \cap rows) \ {s \in Stations : Cached(o)[s] # NoLine}
         line(s) == IF s \notin answered THEN NoLine
                    ELSE IF s \in fetched THEN LineFor(o, "rows")
                    ELSE IF Cached(o)[s] # NoLine THEN Cached(o)[s]
                    ELSE LineFor(o, "undefined")
     IN /\ Return(o, "getData", 0, [s \in Stations |-> line(s)])
        /\ SaveCache(object[o].stationfile, object[o].obstime,
                     [s \in Stations |-> IF s \in fetched THEN line(s) ELSE Cached(o)[s]])
  /\ UNCHANGED <<statics, object>>

InitDataRefused(o) ==
  /\ ~object[o].params \/ ~object[o].stations
  /\ Return(o, "initData", 1, [s \in Stations |-> NoLine])
  /\ UNCHANGED <<statics, road_data_cache, object>>

(* initData answers every station, from the cache or with a dummy line. *)
InitData(o) ==
  /\ object[o].params /\ object[o].stations
  /\ Return(o, "initData", 0,
            [s \in Stations |-> IF s \notin StationsOf(o) THEN NoLine
                                ELSE IF Cached(o)[s] # NoLine THEN Cached(o)[s]
                                ELSE LineFor(o, "undefined")])
  /\ UNCHANGED <<statics, road_data_cache, object>>

Next ==
  \/ \E o \in Objects \ Built, d \in DatabaseFiles, f \in StationFiles,
        p \in ParameterFiles, t \in Times : Construct(o, d, f, p, t)
  \/ \E o \in Built :
       \/ GetDataRefused(o)
       \/ \E answered, wanted, rows \in SUBSET StationsOf(o) : GetData(o, answered, wanted, rows)
       \/ InitDataRefused(o)
       \/ InitData(o)

Spec == Init /\ [][Next]_vars

-----------------------------------------------------------------------------
LineType ==
  [kind : {"rows", "undefined"}, stationfile : StationFiles, obstime : Times,
   params : ParameterFiles]

ObjectType ==
  [built : {TRUE}, stationfile : StationFiles, parameterfile : ParameterFiles,
   obstime : Times, databasefile : DatabaseFiles, params : BOOLEAN, stations : BOOLEAN]

TypeOK ==
  /\ initDone \in BOOLEAN
  /\ connect_str \in DatabaseFiles \cup {NoConnect}
  /\ station_map \in [StationFiles -> {NotLoaded} \cup 0 .. MaxStations]
  /\ params_map \subseteq ParameterFiles
  /\ road_data_cache \in [StationFiles -> [Times -> [Stations -> LineType \cup {NoLine}]]]
  /\ object \in [Objects -> ObjectType \cup {NotBuilt}]

(* The first database file that opened serves the whole process: connect_str *)
(* goes with initDone, and once set it is the one every object uses.        *)
OneDatabase ==
  [][/\ initDone' <=> connect_str' # NoConnect
     /\ initDone => connect_str' = connect_str]_vars

(* A station list or parameter list in use never changes or goes away: the  *)
(* objects hold plain pointers to them.                                    *)
ListsStay ==
  [][/\ \A o \in Built : object[o].stations =>
          station_map'[object[o].stationfile] = station_map[object[o].stationfile]
     /\ \A o \in Built : object[o].params => object[o].parameterfile \in params_map']_vars

(* The cache is sound: under a station file and a time it holds lines with  *)
(* observations of that file and that time, for stations of the list.      *)
CacheSound ==
  \A f \in StationFiles, t \in Times, s \in Stations :
    LET line == road_data_cache[f][t][s] IN
      line # NoLine => /\ line.kind = "rows" /\ line.stationfile = f /\ line.obstime = t
                       /\ s \in 1 .. station_map[f]

(* A cached line is never lost or replaced, whatever other objects fetch. *)
CacheGrows ==
  [][\A f \in StationFiles, t \in Times, s \in Stations :
       road_data_cache[f][t][s] # NoLine =>
         road_data_cache'[f][t][s] = road_data_cache[f][t][s]]_vars

(* "the following is replaced to allow different parameter mappings": the   *)
(* lines a call returns have the columns of the object's own parameters.   *)
LinesFitParameters ==
  result # NoResult =>
    \A s \in Stations :
      result.lines[s] # NoLine => result.lines[s].params = object[result.object].parameterfile
=============================================================================
