---------------------------- MODULE StationFetch ----------------------------
(***************************************************************************)
(* What one call of Roaddata::getData(index_stations_to_plot, lines)       *)
(* promises its caller, whatever the number of threads that do the work:   *)
(* every station is answered at most once, with one of four kinds of line; *)
(* tmp_data, the call's copy of the cache, gains a line only for a station *)
(* the database returned rows for; and once the call has returned nothing  *)
(* changes the caller's maps any more.                                     *)
(*                                                                         *)
(* RoadDataThread implements this specification (see Fetch there).         *)
(***************************************************************************)

CONSTANTS
  Stations,   \* the ids of the station list of the call
  ToPlot      \* the ids of stations_to_plot

VARIABLES
  lines,      \* the caller's result, by station id
  tmp_data,   \* the call's copy of the cached lines, by station id
  cache,      \* road_data_cache[stationfile_][obstime_]
  returned    \* getData has returned

vars == <<lines, tmp_data, cache, returned>>

-----------------------------------------------------------------------------
(***************************************************************************)
(* The kinds of line.  "cached" was put into the cache by an earlier call, *)
(* "rows" was built from a query that returned rows, "norows" from one     *)
(* that returned none, "notplotted" without asking the database.  The last *)
(* two hold undefined values only.                                         *)
(***************************************************************************)
NoLine == "none"
Line == {"cached", "rows", "norows", "notplotted"}

Init ==
  /\ lines = [s \in Stations |-> NoLine]
  /\ tmp_data \in [Stations -> {NoLine, "cached"}]
  /\ cache = tmp_data
  /\ returned = FALSE

AnswerFromCache(s) ==
  /\ tmp_data[s] # NoLine
  /\ lines' = [lines EXCEPT ![s] = tmp_data[s]]
  /\ UNCHANGED tmp_data

AnswerFromRows(s) ==
  /\ s \in ToPlot
  /\ lines' = [lines EXCEPT ![s] = "rows"]
  /\ tmp_data' = [tmp_data EXCEPT ![s] = "rows"]

AnswerUndefined(s) ==
  /\ lines' = [lines EXCEPT ![s] = IF s \in ToPlot THEN "norows" ELSE "notplotted"]
  /\ UNCHANGED tmp_data

Answer(s) ==
  /\ ~returned
  /\ lines[s] = NoLine
  /\ AnswerFromCache(s) \/ AnswerFromRows(s) \/ AnswerUndefined(s)
  /\ UNCHANGED <<cache, returned>>

Return ==
  /\ ~returned
  /\ returned' = TRUE
  /\ cache' = tmp_data
  /\ UNCHANGED <<lines, tmp_data>>

Next == Return \/ \E s \in Stations : Answer(s)

Spec == Init /\ [][Next]_vars
=============================================================================
