--------------------------- MODULE RawFetchProofs ---------------------------
(***************************************************************************)
(* Proofs about RawFetch, for every number of stations and observation     *)
(* times and every assignment of WMO numbers.                              *)
(*                                                                         *)
(* The inductive invariant has four parts: the types; Answered, which ties *)
(* the caller's map to the position in the list; Copied, which says how    *)
(* the call's copy of the cache may differ from the cache; and Connected,  *)
(* the phases in which no connection is open.                              *)
(***************************************************************************)
EXTENDS RawFetch, TLAPS

USE NumStationsAssumption, TimesAssumption, MaxRetriesAssumption DEF Stations

(* The stations before the position are answered and no other ones; a call *)
(* starts at the first one and ends behind the last.                       *)
Answered ==
  /\ \A s \in Stations : raw_data_map[s] # NoRows <=> s < pos
  /\ at = "connect" => pos = 1
  /\ at = "end" \/ (at = "returned" /\ ret = 0) => pos = NumStations + 1

(* The copy differs from the cache by rows of stations already passed, and  *)
(* the station being asked for is wanted and not in the copy.              *)
Copied ==
  /\ at \notin Nowhere =>
       \A s \in Stations :
         \/ tmp_data[s] = multi_cache[time][s]
         \/ multi_cache[time][s] = NoRows /\ s < pos
  /\ at \in {"place", "query", "convert"} => tmp_data[pos] = NoRows /\ Wmonr[pos] \in wanted

(* There is a connection from the connect to the end of the call only. *)
Connected == at \in Nowhere \cup {"connect"} => ~conn

IInv == TypeOK /\ Answered /\ OnlyRowsCached /\ Copied /\ Connected

-----------------------------------------------------------------------------
LEMMA InitIInv == Init => IInv
<1> SUFFICES ASSUME Init
             PROVE  IInv
  OBVIOUS
<1> USE DEF Init
<1>1. TypeOK
  <2>1. Nothing \in [Stations -> Rows \cup {NoRows}]
    BY DEF Nothing
  <2>2. multi_cache \in [Times -> [Stations -> Rows \cup {NoRows}]]
    BY <2>1
  <2>3. 1 \in 1 .. NumStations + 1 /\ 0 \in 0 .. MaxRetries
    OBVIOUS
  <2>4. dataproviders \in [Stations -> {NoProvider, NoPlace, PlaceIds}] /\ data \in [Stations -> BOOLEAN]
    OBVIOUS
  <2> QED  BY <2>1, <2>2, <2>3, <2>4 DEF TypeOK, Places, Nowhere
<1>2. Answered
  BY DEF Answered, Nothing
<1>3. OnlyRowsCached
  BY DEF OnlyRowsCached, Nothing
<1>4. Copied
  BY DEF Copied, Nowhere
<1>5. Connected
  BY DEF Connected
<1> QED  BY <1>1, <1>2, <1>3, <1>4, <1>5 DEF IInv

(* A step to the next station keeps the position within the list. *)
LEMMA NextStationType ==
  ASSUME TypeOK, pos \in Stations, NextStation
  PROVE  /\ pos' \in 1 .. NumStations + 1 /\ pos' = pos + 1
         /\ at' \in {"station", "end"}
         /\ at' = "station" => pos' \in Stations
         /\ at' = "end" => pos' = NumStations + 1
BY DEF NextStation, TypeOK

LEMMA StepType ==
  ASSUME TypeOK, Answered, [Next]_vars
  PROVE  TypeOK'
<1> USE DEF TypeOK, Rows, Places, Nowhere, kept, call
<1>1. ASSUME NEW t \in Times, NEW numbers \in SUBSET Numbers, Call(t, numbers)
      PROVE  TypeOK'
  <2>1. 1 \in 1 .. NumStations + 1 /\ 0 \in 0 .. MaxRetries
    OBVIOUS
  <2>2. Nothing \in [Stations -> {"empty", "rows"} \cup {NoRows}]
    BY DEF Nothing
  <2> QED  BY <1>1, <2>1, <2>2 DEF Call
<1>2. CASE Connect
  BY <1>2 DEF Connect, Answered
<1>3. CASE ConnectRetry
  BY <1>3 DEF ConnectRetry
<1>4. CASE ConnectFail
  BY <1>4 DEF ConnectFail
<1>5. CASE ServeCached
  <2>1. pos \in Stations /\ NextStation
    BY <1>5 DEF ServeCached
  <2> QED  BY <1>5, <2>1, NextStationType DEF ServeCached
<1>6. CASE NotToPlot
  <2>1. pos \in Stations /\ NextStation
    BY <1>6 DEF NotToPlot
  <2> QED  BY <1>6, <2>1, NextStationType DEF NotToPlot
<1>7. CASE ToPlot
  BY <1>7 DEF ToPlot
<1>8. CASE PlaceQuery
  BY <1>8 DEF PlaceQuery
<1>9. CASE QueryRows
  BY <1>9 DEF QueryRows
<1>10. CASE QueryNothing
  <2>1. pos \in Stations /\ NextStation
    BY <1>10 DEF QueryNothing
  <2> QED  BY <1>10, <2>1, NextStationType DEF QueryNothing
<1>11. CASE ConvertRows
  <2>1. pos \in Stations /\ NextStation
    BY <1>11 DEF ConvertRows
  <2> QED  BY <1>11, <2>1, NextStationType DEF ConvertRows
<1>12. CASE Abort
  BY <1>12 DEF Abort
<1>13. CASE WriteBack
  BY <1>13 DEF WriteBack
<1>14. CASE UNCHANGED vars
  BY <1>14 DEF vars
<1> QED
  BY <1>1, <1>2, <1>3, <1>4, <1>5, <1>6, <1>7, <1>8, <1>9, <1>10, <1>11, <1>12, <1>13, <1>14
  DEF Next, Step

(* Answered, with the type of the next state at hand. *)
LEMMA StepAnswered ==
  ASSUME TypeOK, TypeOK', Answered, [Next]_vars
  PROVE  Answered'
<1> USE DEF Answered, kept, call
<1> DEFINE Passes(answer) == raw_data_map' = [raw_data_map EXCEPT ![pos] = answer]
(* The action answers the station it is at and goes on. *)
<1>0. ASSUME NEW answer, answer # NoRows, pos \in Stations, NextStation, Passes(answer)
      PROVE  Answered'
  <2>1. pos' = pos + 1 /\ at' \in {"station", "end"} /\ (at' = "end" => pos' = NumStations + 1)
    BY <1>0, NextStationType
  <2>2. \A s \in Stations : s < pos + 1 <=> s < pos \/ s = pos
    BY DEF TypeOK
  <2>3. \A s \in Stations : raw_data_map'[s] = IF s = pos THEN answer ELSE raw_data_map[s]
    BY <1>0 DEF TypeOK
  <2> QED  BY <1>0, <2>1, <2>2, <2>3
<1>1. ASSUME NEW t \in Times, NEW numbers \in SUBSET Numbers, Call(t, numbers)
      PROVE  Answered'
  BY <1>1 DEF Call, Nothing
<1>2. CASE Connect
  BY <1>2 DEF Connect, TypeOK
<1>3. CASE ConnectRetry
  BY <1>3 DEF ConnectRetry
<1>4. CASE ConnectFail
  BY <1>4 DEF ConnectFail
<1>5. CASE ServeCached
  BY <1>5, <1>0 DEF ServeCached, TypeOK
<1>6. CASE NotToPlot
  BY <1>6, <1>0 DEF NotToPlot, TypeOK, NoRows
<1>7. CASE ToPlot
  BY <1>7 DEF ToPlot
<1>8. CASE PlaceQuery
  BY <1>8 DEF PlaceQuery
<1>9. CASE QueryRows
  BY <1>9 DEF QueryRows
<1>10. CASE QueryNothing
  BY <1>10, <1>0 DEF QueryNothing, TypeOK, NoRows
<1>11. CASE ConvertRows
  BY <1>11, <1>0 DEF ConvertRows, TypeOK, NoRows
<1>12. CASE Abort
  BY <1>12 DEF Abort
<1>13. CASE WriteBack
  BY <1>13 DEF WriteBack
<1>14. CASE UNCHANGED vars
  BY <1>14 DEF vars
<1> QED
  BY <1>1, <1>2, <1>3, <1>4, <1>5, <1>6, <1>7, <1>8, <1>9, <1>10, <1>11, <1>12, <1>13, <1>14
  DEF Next, Step

(* Only the connect, the end of a call and its start touch the connection. *)
LEMMA StepConnected ==
  ASSUME TypeOK, Connected, [Next]_vars
  PROVE  Connected'
<1> USE DEF Connected, Nowhere, kept, call
<1>1. ASSUME NEW t \in Times, NEW numbers \in SUBSET Numbers, Call(t, numbers)
      PROVE  Connected'
  BY <1>1 DEF Call
<1>2. CASE Connect \/ ConnectRetry \/ ConnectFail
  BY <1>2 DEF Connect, ConnectRetry, ConnectFail
<1>3. CASE ServeCached \/ NotToPlot \/ QueryNothing \/ ConvertRows
  BY <1>3 DEF ServeCached, NotToPlot, QueryNothing, ConvertRows, NextStation
<1>4. CASE ToPlot \/ PlaceQuery \/ QueryRows
  BY <1>4 DEF ToPlot, PlaceQuery, QueryRows
<1>5. CASE Abort \/ WriteBack
  BY <1>5 DEF Abort, WriteBack
<1>6. CASE UNCHANGED vars
  BY <1>6 DEF vars
<1> QED
  BY <1>1, <1>2, <1>3, <1>4, <1>5, <1>6 DEF Next, Step

(* The copy and the cache. *)
LEMMA StepCopied ==
  ASSUME TypeOK, TypeOK', OnlyRowsCached, Copied, [Next]_vars
  PROVE  OnlyRowsCached' /\ Copied'
<1> USE DEF OnlyRowsCached, Copied, kept, call, Nowhere
<1>1. ASSUME NEW t \in Times, NEW numbers \in SUBSET Numbers, Call(t, numbers)
      PROVE  OnlyRowsCached' /\ Copied'
  BY <1>1 DEF Call
<1>2. CASE Connect \/ ConnectRetry
  BY <1>2 DEF Connect, ConnectRetry
<1>3. CASE ConnectFail \/ Abort
  BY <1>3 DEF ConnectFail, Abort
<1>4. CASE ServeCached \/ NotToPlot \/ QueryNothing
  <2>1. pos \in Stations /\ NextStation
    BY <1>4 DEF ServeCached, NotToPlot, QueryNothing, TypeOK
  <2>2. pos' = pos + 1 /\ at' \in {"station", "end"}
    BY <2>1, NextStationType
  <2>3. UNCHANGED <<multi_cache, time, tmp_data>>
    BY <1>4 DEF ServeCached, NotToPlot, QueryNothing
  <2>4. \A s \in Stations : s < pos => s < pos'
    BY <2>2 DEF TypeOK
  <2>5. at \notin Nowhere
    BY <1>4 DEF ServeCached, NotToPlot, QueryNothing
  <2> QED  BY <2>2, <2>3, <2>4, <2>5
<1>5. CASE ToPlot
  BY <1>5 DEF ToPlot
<1>6. CASE PlaceQuery
  BY <1>6 DEF PlaceQuery
<1>7. CASE QueryRows
  BY <1>7 DEF QueryRows
<1>8. CASE ConvertRows
  <2>1. pos \in Stations /\ NextStation
    BY <1>8 DEF ConvertRows, TypeOK
  <2>2. pos' = pos + 1 /\ at' \in {"station", "end"}
    BY <2>1, NextStationType
  <2>3. UNCHANGED <<multi_cache, time>> /\ tmp_data' = [tmp_data EXCEPT ![pos] = "rows"]
    BY <1>8 DEF ConvertRows
  <2>4. multi_cache[time][pos] = NoRows
    BY <1>8, <2>1 DEF ConvertRows, TypeOK
  <2>5. \A s \in Stations : tmp_data'[s] = IF s = pos THEN "rows" ELSE tmp_data[s]
    BY <2>3 DEF TypeOK
  <2>6. OnlyRowsCached'
    BY <2>3, <2>5
  <2>7. \A s \in Stations : s < pos \/ s = pos => s < pos'
    BY <2>2 DEF TypeOK
  <2>8. Copied'
    BY <1>8, <2>2, <2>3, <2>4, <2>5, <2>7 DEF ConvertRows
  <2> QED  BY <2>6, <2>8
<1>9. CASE WriteBack
  <2>1. at' = "returned" /\ tmp_data' = tmp_data /\ multi_cache' = [multi_cache EXCEPT ![time] = tmp_data]
    BY <1>9 DEF WriteBack
  <2>2. \A t \in Times : multi_cache'[t] = IF t = time THEN tmp_data ELSE multi_cache[t]
    BY <2>1 DEF TypeOK
  <2> QED  BY <2>1, <2>2
<1>10. CASE UNCHANGED vars
  BY <1>10 DEF vars
<1> QED
  BY <1>1, <1>2, <1>3, <1>4, <1>5, <1>6, <1>7, <1>8, <1>9, <1>10 DEF Next, Step

-----------------------------------------------------------------------------
(* The inductive invariant of the radiosonde call holds in every state: for *)
(* every list of stations, set of times and sequence of calls.             *)
THEOREM InductiveInvariant == Spec => []IInv
<1>1. IInv /\ [Next]_vars => IInv'
  BY StepType, StepAnswered, StepConnected, StepCopied DEF IInv
<1> QED  BY InitIInv, <1>1, PTL DEF Spec

(* Every variable of the radiosonde call keeps its type. *)
THEOREM TypeCorrect == Spec => []TypeOK
<1>1. IInv => TypeOK
  BY DEF IInv
<1> QED  BY <1>1, InductiveInvariant, PTL

(* The return value tells what the caller has: every station after 0, those *)
(* before the failed one after 1.                                          *)
THEOREM ReturnValue == Spec => []ReturnValueTruthful
<1>1. IInv => ReturnValueTruthful
  BY DEF IInv, Answered, ReturnValueTruthful, TypeOK
<1> QED  BY <1>1, InductiveInvariant, PTL

(* Only rows of the database are cached. *)
THEOREM RowsOnly == Spec => []OnlyRowsCached
<1>1. IInv => OnlyRowsCached
  BY DEF IInv
<1> QED  BY <1>1, InductiveInvariant, PTL

(* No station is asked for that is cached or not to plot. *)
THEOREM QueriesNeeded == Spec => []NoNeedlessQuery
<1>1. IInv => NoNeedlessQuery
  BY DEF IInv, Copied, NoNeedlessQuery, TypeOK, Nowhere
<1> QED  BY <1>1, InductiveInvariant, PTL

(* No call leaves its connection open. *)
THEOREM NoConnectionLeaks == Spec => []ConnectionClosed
<1>1. IInv => ConnectionClosed
  BY DEF IInv, Connected, ConnectionClosed
<1> QED  BY <1>1, InductiveInvariant, PTL

(* A step that changes the cache writes back the copy of a complete call. *)
LEMMA OnlyWriteBackChangesTheCache ==
  ASSUME [Next]_vars, multi_cache' # multi_cache
  PROVE  WriteBack
BY DEF Next, Step, vars, kept, call, Call, Connect, ConnectRetry, ConnectFail, ServeCached,
       NotToPlot, ToPlot, PlaceQuery, QueryRows, QueryNothing, ConvertRows, Abort

(* No cached row is lost, by whichever call. *)
THEOREM CacheNeverShrinks == Spec => CacheGrows
<1>1. ASSUME IInv, [Next]_vars, NEW t \in Times, NEW s \in Stations, multi_cache[t][s] # NoRows
      PROVE  multi_cache'[t][s] = multi_cache[t][s]
  <2>1. CASE multi_cache' = multi_cache
    BY <2>1
  <2>2. CASE multi_cache' # multi_cache
    <3>1. WriteBack
      BY <1>1, <2>2, OnlyWriteBackChangesTheCache
    <3>2. multi_cache'[t] = IF t = time THEN tmp_data ELSE multi_cache[t]
      BY <3>1, <1>1 DEF WriteBack, IInv, TypeOK
    <3>3. t = time => tmp_data[s] = multi_cache[t][s]
      BY <3>1, <1>1 DEF WriteBack, IInv, Copied, Nowhere
    <3> QED  BY <3>2, <3>3
  <2> QED  BY <2>1, <2>2
<1>2. IInv /\ [Next]_vars => [\A t \in Times, s \in Stations :
        multi_cache[t][s] # NoRows => multi_cache'[t][s] = multi_cache[t][s]]_vars
  BY <1>1
<1> QED  BY <1>2, InductiveInvariant, PTL DEF Spec, CacheGrows

(* The cache changes only when a call has answered every station. *)
THEOREM FailedCallsCacheNothing == Spec => CacheChangesOnSuccess
<1>1. IInv /\ [Next]_vars =>
        [multi_cache' # multi_cache =>
           at' = "returned" /\ ret' = 0 /\ \A s \in Stations : raw_data_map[s] # NoRows]_vars
  <2> SUFFICES ASSUME IInv, [Next]_vars, multi_cache' # multi_cache
               PROVE  at' = "returned" /\ ret' = 0 /\ \A s \in Stations : raw_data_map[s] # NoRows
    OBVIOUS
  <2>1. WriteBack
    BY OnlyWriteBackChangesTheCache
  <2> QED  BY <2>1 DEF WriteBack, IInv, Answered
<1> QED  BY <1>1, InductiveInvariant, PTL DEF Spec, CacheChangesOnSuccess
=============================================================================
