--------------------------- MODULE RoaddataProofs ---------------------------
(***************************************************************************)
(* Proofs about Roaddata, for every number of objects, files, times and    *)
(* stations.                                                               *)
(*                                                                         *)
(* The inductive invariant adds to the types and the soundness of the      *)
(* cache that the connect string goes with initDone, and that an object    *)
(* points to loaded lists only.                                            *)
(***************************************************************************)
EXTENDS Roaddata, TLAPS

USE MaxStationsAssumption DEF Stations

Connected == initDone <=> connect_str # NoConnect

Pointers ==
  \A o \in Built :
    /\ object[o].stations => station_map[object[o].stationfile] # NotLoaded
    /\ object[o].params => object[o].parameterfile \in params_map

IInv == TypeOK /\ CacheSound /\ Connected /\ Pointers

-----------------------------------------------------------------------------
LEMMA InitIInv == Init => IInv
<1> SUFFICES ASSUME Init
             PROVE  IInv
  OBVIOUS
<1> USE DEF Init
<1>1. TypeOK
  <2>1. road_data_cache \in [StationFiles -> [Times -> [Stations -> LineType \cup {NoLine}]]]
    OBVIOUS
  <2>2. object \in [Objects -> ObjectType \cup {NotBuilt}]
    OBVIOUS
  <2> QED  BY <2>1, <2>2 DEF TypeOK
<1>2. CacheSound
  BY DEF CacheSound
<1>3. Connected
  BY DEF Connected
<1>4. Pointers
  BY DEF Pointers, Built, NotBuilt
<1> QED  BY <1>1, <1>2, <1>3, <1>4 DEF IInv

(* An object that is built has the attributes of one. *)
LEMMA BuiltType ==
  ASSUME TypeOK, NEW o \in Built
  PROVE  o \in Objects /\ object[o] \in ObjectType
BY DEF TypeOK, Built, NotBuilt

(* A constructor. *)
LEMMA ConstructIInv ==
  ASSUME IInv, NEW o \in Objects \ Built, NEW d \in DatabaseFiles, NEW f \in StationFiles,
         NEW p \in ParameterFiles, NEW t \in Times, Construct(o, d, f, p, t)
  PROVE  /\ IInv'
         /\ connect_str' = connect_str \/ ~initDone
         /\ \A g \in StationFiles : station_map[g] # NotLoaded => station_map'[g] = station_map[g]
         /\ params_map \subseteq params_map'
         /\ road_data_cache' = road_data_cache
<1> USE DEF IInv
<1>1. PICK dbOpens \in BOOLEAN, stOpens \in BOOLEAN, parOpens \in BOOLEAN, n \in 0 .. MaxStations :
        /\ InitRoaddata(d, dbOpens)
        /\ InitParameters(p, parOpens)
        /\ InitStations(f, stOpens, n)
        /\ object' = [object EXCEPT ![o] =
             [built |-> TRUE, stationfile |-> f, parameterfile |-> p, obstime |-> t,
              databasefile |-> d, params |-> p \in params_map',
              stations |-> station_map'[f] # NotLoaded]]
        /\ UNCHANGED <<road_data_cache, result>>
  BY DEF Construct
<1>2. /\ initDone' \in BOOLEAN /\ connect_str' \in DatabaseFiles \cup {NoConnect}
      /\ Connected' /\ (connect_str' = connect_str \/ ~initDone)
  BY <1>1, NoConnectAssumption DEF InitRoaddata, TypeOK, Connected
<1>3. params_map' \subseteq ParameterFiles /\ params_map \subseteq params_map'
  BY <1>1 DEF InitParameters, TypeOK
<1>4. /\ station_map' \in [StationFiles -> {NotLoaded} \cup 0 .. MaxStations]
      /\ \A g \in StationFiles : station_map[g] # NotLoaded => station_map'[g] = station_map[g]
  BY <1>1 DEF InitStations, TypeOK
<1> DEFINE new == [built |-> TRUE, stationfile |-> f, parameterfile |-> p, obstime |-> t,
                   databasefile |-> d, params |-> p \in params_map',
                   stations |-> station_map'[f] # NotLoaded]
<1>5. new \in ObjectType
  BY DEF ObjectType
<1>6. object' = [object EXCEPT ![o] = new] /\ object' \in [Objects -> ObjectType \cup {NotBuilt}]
  BY <1>1, <1>5 DEF TypeOK
<1>7. TypeOK'
  BY <1>1, <1>2, <1>3, <1>4, <1>6 DEF TypeOK
<1>8. CacheSound'
  <2> SUFFICES ASSUME NEW g \in StationFiles, NEW u \in Times, NEW s \in Stations,
                      road_data_cache[g][u][s] # NoLine
               PROVE  /\ road_data_cache[g][u][s].kind = "rows"
                      /\ road_data_cache[g][u][s].stationfile = g
                      /\ road_data_cache[g][u][s].obstime = u
                      /\ s \in 1 .. station_map'[g]
    BY <1>1 DEF CacheSound
  <2>1. s \in 1 .. station_map[g]
    BY DEF CacheSound
  <2>2. station_map[g] # NotLoaded
    BY <2>1 DEF NotLoaded
  <2> QED  BY <1>4, <2>1, <2>2 DEF CacheSound
<1>9. Pointers'
  <2> SUFFICES ASSUME NEW c \in Built'
               PROVE  /\ object'[c].stations => station_map'[object'[c].stationfile] # NotLoaded
                      /\ object'[c].params => object'[c].parameterfile \in params_map'
    BY DEF Pointers
  <2>1. CASE c = o
    <3>1. object'[o] = new
      BY <1>6 DEF TypeOK
    <3>2. /\ new.stationfile = f /\ new.parameterfile = p
          /\ new.stations = (station_map'[f] # NotLoaded) /\ new.params = (p \in params_map')
      OBVIOUS
    <3> HIDE DEF new
    <3> QED  BY <2>1, <3>1, <3>2
  <2>2. CASE c # o
    <3>1. c \in Built /\ object'[c] = object[c]
      BY <1>6, <2>2 DEF Built, TypeOK
    <3>2. object[c] \in ObjectType
      BY <3>1, BuiltType
    <3>3. object[c].stationfile \in StationFiles
      BY <3>2 DEF ObjectType
    <3> QED  BY <1>3, <1>4, <3>1, <3>3 DEF Pointers, NotLoaded, TypeOK
  <2> QED  BY <2>1, <2>2
<1> QED  BY <1>1, <1>2, <1>3, <1>4, <1>7, <1>8, <1>9

-----------------------------------------------------------------------------
(* A line made for a built object has the type of lines. *)
LEMMA LineForType ==
  ASSUME TypeOK, NEW o \in Built, NEW kind \in {"rows", "undefined"}
  PROVE  /\ LineFor(o, kind) \in LineType
         /\ LineFor(o, kind).kind = kind
         /\ LineFor(o, kind).stationfile = object[o].stationfile
         /\ LineFor(o, kind).obstime = object[o].obstime
<1>1. object[o] \in ObjectType
  BY BuiltType
<1> QED  BY <1>1 DEF ObjectType, LineType, LineFor

(* A call of getData that is not refused. *)
LEMMA GetDataIInv ==
  ASSUME IInv, NEW o \in Built, NEW answered \in SUBSET StationsOf(o),
         NEW wanted \in SUBSET StationsOf(o), NEW rows \in SUBSET StationsOf(o),
         GetData(o, answered, wanted, rows)
  PROVE  /\ IInv' /\ UNCHANGED <<statics, object>>
         /\ \A f \in StationFiles, t \in Times, s \in Stations :
              road_data_cache[f][t][s] # NoLine => road_data_cache'[f][t][s] = road_data_cache[f][t][s]
<1> USE DEF IInv
<1> DEFINE file == object[o].stationfile
           time == object[o].obstime
           fetched == ((answered \cap (IF wanted = {} THEN StationsOf(o) ELSE wanted)) \cap rows)
                        \ {s \in Stations : Cached(o)[s] # NoLine}
           cache == [s \in Stations |-> IF s \in fetched THEN LineFor(o, "rows") ELSE Cached(o)[s]]
<1>1. file \in StationFiles /\ time \in Times
  BY BuiltType DEF ObjectType
<1>2. UNCHANGED <<statics, object>>
  BY DEF GetData
<1>3. road_data_cache' = [road_data_cache EXCEPT ![file][time] = cache]
  <2>1. \A s \in fetched : s \in answered
    OBVIOUS
  <2> QED  BY <2>1 DEF GetData, SaveCache
<1>4. Cached(o) \in [Stations -> LineType \cup {NoLine}]
  BY <1>1 DEF Cached, TypeOK
<1>5. cache \in [Stations -> LineType \cup {NoLine}]
  BY <1>4, LineForType
<1>6. /\ road_data_cache' \in [StationFiles -> [Times -> [Stations -> LineType \cup {NoLine}]]]
      /\ \A f \in StationFiles, t \in Times :
           road_data_cache'[f][t] = IF f = file /\ t = time THEN cache ELSE road_data_cache[f][t]
  BY <1>1, <1>3, <1>5 DEF TypeOK
<1>7. TypeOK'
  BY <1>2, <1>6 DEF TypeOK, statics
<1>8. ASSUME NEW f \in StationFiles, NEW t \in Times, NEW s \in Stations
       PROVE  road_data_cache'[f][t][s] =
                IF f = file /\ t = time /\ s \in fetched THEN LineFor(o, "rows")
                ELSE road_data_cache[f][t][s]
  <2> HIDE DEF fetched
  <2>1. cache[s] = IF s \in fetched THEN LineFor(o, "rows") ELSE road_data_cache[file][time][s]
    BY DEF Cached
  <2> HIDE DEF cache
  <2> QED  BY <1>6, <2>1
<1>9. \A s \in fetched : s \in Stations /\ s \in 1 .. station_map[file] /\ Cached(o)[s] = NoLine
  <2>1. station_map[file] \in {NotLoaded} \cup 0 .. MaxStations
    BY <1>1 DEF TypeOK
  <2> QED  BY <2>1 DEF StationsOf, NotLoaded
<1>10. CacheSound'
  <2> SUFFICES ASSUME NEW f \in StationFiles, NEW t \in Times, NEW s \in Stations,
                      road_data_cache'[f][t][s] # NoLine
               PROVE  /\ road_data_cache'[f][t][s].kind = "rows"
                      /\ road_data_cache'[f][t][s].stationfile = f
                      /\ road_data_cache'[f][t][s].obstime = t
                      /\ s \in 1 .. station_map[f]
    BY <1>2 DEF CacheSound, statics
  <2>1. CASE f = file /\ t = time /\ s \in fetched
    <3>1. road_data_cache'[f][t][s] = LineFor(o, "rows")
      BY <1>6, <2>1
    <3> QED  BY <1>9, <2>1, <3>1, LineForType
  <2>2. CASE ~(f = file /\ t = time /\ s \in fetched)
    <3>1. road_data_cache'[f][t][s] = road_data_cache[f][t][s]
      BY <1>8, <2>2
    <3> QED  BY <3>1 DEF CacheSound
  <2> QED  BY <2>1, <2>2
<1>11. Connected' /\ Pointers'
  BY <1>2 DEF Connected, Pointers, Built, statics
<1>12. ASSUME NEW f \in StationFiles, NEW t \in Times, NEW s \in Stations, road_data_cache[f][t][s] # NoLine
       PROVE  road_data_cache'[f][t][s] = road_data_cache[f][t][s]
  BY <1>8, <1>9, <1>12 DEF Cached
<1> QED  BY <1>2, <1>7, <1>10, <1>11, <1>12

(* The calls that only return. *)
LEMMA OtherCalls ==
  ASSUME NEW o \in Built, GetDataRefused(o) \/ InitDataRefused(o) \/ InitData(o)
  PROVE  UNCHANGED <<statics, road_data_cache, object>>
BY DEF GetDataRefused, InitDataRefused, InitData

(* What every step does to the shared state. *)
LEMMA StepIInv ==
  ASSUME IInv, [Next]_vars
  PROVE  /\ IInv'
         /\ connect_str' = connect_str \/ ~initDone
         /\ \A g \in StationFiles : station_map[g] # NotLoaded => station_map'[g] = station_map[g]
         /\ params_map \subseteq params_map'
         /\ \A f \in StationFiles, t \in Times, s \in Stations :
              road_data_cache[f][t][s] # NoLine => road_data_cache'[f][t][s] = road_data_cache[f][t][s]
<1>1. ASSUME UNCHANGED <<statics, road_data_cache, object>>
      PROVE  IInv' /\ UNCHANGED <<connect_str, station_map, params_map, road_data_cache>>
  BY <1>1 DEF IInv, TypeOK, CacheSound, Connected, Pointers, Built, statics
<1>2. ASSUME NEW o \in Objects \ Built, NEW d \in DatabaseFiles, NEW f \in StationFiles,
             NEW p \in ParameterFiles, NEW t \in Times, Construct(o, d, f, p, t)
      PROVE  /\ IInv'
             /\ connect_str' = connect_str \/ ~initDone
             /\ \A g \in StationFiles : station_map[g] # NotLoaded => station_map'[g] = station_map[g]
             /\ params_map \subseteq params_map'
             /\ road_data_cache' = road_data_cache
  BY <1>2, ConstructIInv
<1>3. ASSUME NEW o \in Built, NEW answered \in SUBSET StationsOf(o), NEW wanted \in SUBSET StationsOf(o),
             NEW rows \in SUBSET StationsOf(o), GetData(o, answered, wanted, rows)
      PROVE  /\ IInv' /\ UNCHANGED <<connect_str, station_map, params_map>>
             /\ \A f \in StationFiles, t \in Times, s \in Stations :
                  road_data_cache[f][t][s] # NoLine => road_data_cache'[f][t][s] = road_data_cache[f][t][s]
  BY <1>3, GetDataIInv DEF statics
<1>4. ASSUME NEW o \in Built, GetDataRefused(o) \/ InitDataRefused(o) \/ InitData(o)
      PROVE  UNCHANGED <<statics, road_data_cache, object>>
  BY <1>4, OtherCalls
<1>5. CASE UNCHANGED vars
  BY <1>1, <1>5 DEF vars
<1>6. CASE Next
  BY <1>1, <1>2, <1>3, <1>4, <1>6 DEF Next
<1> QED  BY <1>5, <1>6

-----------------------------------------------------------------------------
(* The inductive invariant of the shared state holds in every state. *)
THEOREM InductiveInvariant == Spec => []IInv
<1>1. IInv /\ [Next]_vars => IInv'
  BY StepIInv
<1> QED  BY InitIInv, <1>1, PTL DEF Spec

(* Every variable of the library's static state keeps its type. *)
THEOREM TypeCorrect == Spec => []TypeOK
<1>1. IInv => TypeOK
  BY DEF IInv
<1> QED  BY <1>1, InductiveInvariant, PTL

(* The cache holds lines of observations of the right file, time and list, *)
(* for any number of objects.                                              *)
THEOREM CacheIsSound == Spec => []CacheSound
<1>1. IInv => CacheSound
  BY DEF IInv
<1> QED  BY <1>1, InductiveInvariant, PTL

(* All objects use the first database file that opened. *)
THEOREM FirstDatabaseOnly == Spec => OneDatabase
<1>1. IInv /\ [Next]_vars => [/\ initDone' <=> connect_str' # NoConnect
                              /\ initDone => connect_str' = connect_str]_vars
  BY StepIInv DEF IInv, Connected
<1> QED  BY <1>1, InductiveInvariant, PTL DEF Spec, OneDatabase

(* No list an object points to is changed or replaced. *)
THEOREM ListsInUseStay == Spec => ListsStay
<1>1. ASSUME IInv, [Next]_vars, NEW o \in Built
      PROVE  /\ object[o].stations =>
                  station_map'[object[o].stationfile] = station_map[object[o].stationfile]
             /\ object[o].params => object[o].parameterfile \in params_map'
  <2>1. object[o].stationfile \in StationFiles
    BY <1>1, BuiltType DEF IInv, ObjectType
  <2> QED  BY <1>1, <2>1, StepIInv DEF IInv, Pointers
<1>2. IInv /\ [Next]_vars =>
        [/\ \A o \in Built : object[o].stations =>
              station_map'[object[o].stationfile] = station_map[object[o].stationfile]
         /\ \A o \in Built : object[o].params => object[o].parameterfile \in params_map']_vars
  BY <1>1
<1> QED  BY <1>2, InductiveInvariant, PTL DEF Spec, ListsStay

(* No cached line is lost or replaced. *)
THEOREM CacheNeverShrinks == Spec => CacheGrows
<1>1. IInv /\ [Next]_vars =>
        [\A f \in StationFiles, t \in Times, s \in Stations :
           road_data_cache[f][t][s] # NoLine =>
             road_data_cache'[f][t][s] = road_data_cache[f][t][s]]_vars
  BY StepIInv
<1> QED  BY <1>1, InductiveInvariant, PTL DEF Spec, CacheGrows
=============================================================================
