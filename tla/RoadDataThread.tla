--------------------------- MODULE RoadDataThread ---------------------------
(***************************************************************************)
(* One call of Roaddata::getData(index_stations_to_plot, lines) with its   *)
(* pool of RoadDataThread workers: the caller hands the stations out round *)
(* robin, starts the threads, joins them and writes the cache back; each   *)
(* worker connects to the database and processes its own queue of jobs.    *)
(* The workers share tmp_data, lines and diStation::dataproviders.  They   *)
(* write them under _outMutex; they look tmp_data and dataproviders up     *)
(* without it.                                                             *)
(*                                                                         *)
(* A locked write is two steps, taking the mutex and writing and releasing *)
(* it, so that a lookup can happen while a write to the same map is going  *)
(* on.  Such a lookup is a data race.  The outcomes modelled are the right *)
(* answer and a miss of a key that is there, as a search through a tree    *)
(* that is being rebalanced gives.                                         *)
(***************************************************************************)
EXTENDS Integers, Sequences, FiniteSets

CONSTANTS
  NumStations,  \* stations->size(); the ids are the positions 1..NumStations
  PoolSize,     \* noWorkers
  ToPlot,       \* the ids of stations_to_plot
  MaxRetries,   \* connection attempts repeated after an exception, 10 in the code
  Histories     \* what earlier calls may have left behind for a station

Stations == 1 .. NumStations
Workers  == 1 .. PoolSize

(***************************************************************************)
(* What earlier calls for the same station file leave for a station:       *)
(*   fresh     never asked for                                             *)
(*   known     its place ids are registered, nothing cached for this time  *)
(*   unknown   registered as "0", the database had no place id             *)
(*   poisoned  registered as "", left by a lookup that raced               *)
(*   cached    a line is cached for this observation time                  *)
(***************************************************************************)
AllHistories == {"fresh", "known", "unknown", "poisoned", "cached"}

ASSUME NumStationsAssumption == NumStations \in Nat \ {0}
ASSUME PoolSizeAssumption == PoolSize \in Nat \ {0}
ASSUME ToPlotAssumption == ToPlot \subseteq Stations /\ ToPlot # {}
ASSUME MaxRetriesAssumption == MaxRetries \in Nat
ASSUME HistoriesAssumption == Histories \subseteq AllHistories

VARIABLES
  \* The caller.
  main,           \* where getData is
  i,              \* stations handed out so far
  j,              \* the round-robin position
  k,              \* threads started, then threads joined
  cache,          \* road_data_cache[stationfile_][obstime_]
  \* Each worker.
  pc,             \* where its operator()() is
  jobs,           \* its queue of station ids
  job,            \* the station it works on, 0 before its first
  retries,        \* failed connection attempts
  conn,           \* whether it holds a database connection
  place_id,       \* the place id its query found
  nRows,          \* whether its data query returned rows (nTmpRows # 0)
  \* Shared by the workers.
  outMutex,       \* the worker that holds _outMutex, or Free
  tmp_data,       \* cached lines, by station id
  lines,          \* result lines, by station id
  dataproviders,  \* diStation::dataproviders[stationfile_]
  data,           \* data_ of each station
  \* History, read by no action.
  failed,         \* workers that reported a failure
  torn            \* stations a racing lookup missed

callerVars == <<main, i, j, k, cache>>
workerVars == <<pc, jobs, job, retries, conn, place_id, nRows>>
sharedVars == <<outMutex, tmp_data, lines, dataproviders, data>>
vars == <<callerVars, workerVars, sharedVars, failed, torn>>

-----------------------------------------------------------------------------
NoLine == "none"
Line == {"cached", "rows", "norows", "notplotted"}

NoProvider == "none"
EmptyProvider == ""
NoPlace == "0"
PlaceIds == "ids"
Provider == {NoProvider, EmptyProvider, NoPlace, PlaceIds}

Free == 0

Callers == {"assign", "spawn", "join", "writeback", "returned"}

(* A worker that has taken a job and not yet answered it is at one of these. *)
Busy == {"lookup", "hit", "hitLocked", "skip", "skipLocked", "provider",
         "placeQuery", "register", "registerLocked", "dataQuery", "convert",
         "answer", "answerLocked"}
Locked == {"hitLocked", "skipLocked", "registerLocked", "answerLocked"}
Places == Busy \cup {"notStarted", "connect", "loop", "tail", "exited"}

Elements(q) == {q[n] : n \in 1 .. Len(q)}

(* The data provider each history leaves behind. *)
LeftProvider(h) == IF h \in {"known", "cached"} THEN PlaceIds
                   ELSE IF h = "unknown" THEN NoPlace
                   ELSE IF h = "poisoned" THEN EmptyProvider
                   ELSE NoProvider

(* A station the worker has taken and not yet answered. *)
Held(w) == IF pc[w] \in Busy THEN {job[w]} ELSE {}

(* The stations a worker still has to answer. *)
Pending(w) == Elements(jobs[w]) \cup Held(w)

At(w, place) == pc[w] = place
Goto(w, place) == pc' = [pc EXCEPT ![w] = place]

(* boost::mutex::scoped_lock lock(_outMutex) and the end of its scope. *)
Lock(w) == outMutex = Free /\ outMutex' = w
Unlock == outMutex' = Free

WritingTmpData(v) == At(v, "answerLocked") /\ nRows[v]
WritingProviders(v) == At(v, "registerLocked")

(* Another worker is writing the map that w looks up. *)
TmpDataRace(w) == \E v \in Workers \ {w} : WritingTmpData(v)
ProviderRace(w) == \E v \in Workers \ {w} : WritingProviders(v)

-----------------------------------------------------------------------------
Init ==
  /\ main = "assign" /\ i = 0 /\ j = 0 /\ k = 0
  /\ \E h \in [Stations -> Histories] :
       /\ dataproviders = [s \in Stations |-> LeftProvider(h[s])]
       /\ tmp_data = [s \in Stations |-> IF h[s] = "cached" THEN "cached" ELSE NoLine]
  /\ cache = tmp_data
  /\ data \in [Stations -> BOOLEAN]
  /\ lines = [s \in Stations |-> NoLine]
  /\ pc = [w \in Workers |-> "notStarted"]
  /\ jobs = [w \in Workers |-> <<>>]
  /\ job = [w \in Workers |-> 0]
  /\ retries = [w \in Workers |-> 0]
  /\ conn = [w \in Workers |-> FALSE]
  /\ place_id = [w \in Workers |-> NoProvider]
  /\ nRows = [w \in Workers |-> FALSE]
  /\ outMutex = Free
  /\ failed = {} /\ torn = {}

-----------------------------------------------------------------------------
(* The caller. *)

(* j starts again at the first worker when j % noWorkers is 0. *)
Slot(x) == IF x % PoolSize = 0 THEN 0 ELSE x

(* Mutant of AddJob: the queue is replaced instead of appended to. *)
AddJobReplacing ==
  LET w == Slot(j) + 1 IN
  /\ main = "assign"
  /\ jobs' = [jobs EXCEPT ![w] = <<i + 1>>]
  /\ i' = i + 1
  /\ j' = w
  /\ main' = IF i + 1 = NumStations THEN "spawn" ELSE "assign"
  /\ UNCHANGED <<k, cache, pc, job, retries, conn, place_id, nRows, sharedVars, failed, torn>>

(* Every station becomes one job of the next worker. *)
AddJob ==
  LET w == Slot(j) + 1 IN
  /\ main = "assign"
  /\ jobs' = [jobs EXCEPT ![w] = Append(@, i + 1)]
  /\ i' = i + 1
  /\ j' = w
  /\ main' = IF i + 1 = NumStations THEN "spawn" ELSE "assign"
  /\ UNCHANGED <<k, cache, pc, job, retries, conn, place_id, nRows, sharedVars, failed, torn>>

(* The threads start working at once, while the caller starts the others. *)
Spawn ==
  /\ main = "spawn"
  /\ Goto(k + 1, "connect")
  /\ k' = IF k + 1 = PoolSize THEN 0 ELSE k + 1
  /\ main' = IF k + 1 = PoolSize THEN "join" ELSE "spawn"
  /\ UNCHANGED <<i, j, cache, jobs, job, retries, conn, place_id, nRows, sharedVars, failed, torn>>

(* Mutant of Join: the last thread is not waited for. *)
JoinAllButLast ==
  /\ main = "join"
  /\ k + 1 = PoolSize \/ At(k + 1, "exited")
  /\ k' = k + 1
  /\ main' = IF k + 1 = PoolSize THEN "writeback" ELSE "join"
  /\ UNCHANGED <<i, j, cache, workerVars, sharedVars, failed, torn>>

Join ==
  /\ main = "join"
  /\ At(k + 1, "exited")
  /\ k' = k + 1
  /\ main' = IF k + 1 = PoolSize THEN "writeback" ELSE "join"
  /\ UNCHANGED <<i, j, cache, workerVars, sharedVars, failed, torn>>

(* Mutant of WriteBack: the caller's lines are saved, the empty ones too.   *)
WriteBackLines ==
  /\ main = "writeback"
  /\ cache' = lines
  /\ main' = "returned"
  /\ UNCHANGED <<i, j, k, workerVars, sharedVars, failed, torn>>

(* tmp_data replaces the cached lines of this observation time. *)
WriteBack ==
  /\ main = "writeback"
  /\ cache' = tmp_data
  /\ main' = "returned"
  /\ UNCHANGED <<i, j, k, workerVars, sharedVars, failed, torn>>

Caller == AddJob \/ Spawn \/ Join \/ WriteBack

(* The call is over. *)
Returned == main = "returned" /\ UNCHANGED vars

-----------------------------------------------------------------------------
(* A worker: its connection and its main loop. *)

Connect(w) ==
  /\ At(w, "connect")
  /\ conn' = [conn EXCEPT ![w] = TRUE]
  /\ Goto(w, "loop")
  /\ UNCHANGED <<callerVars, jobs, job, retries, place_id, nRows, sharedVars, failed, torn>>

(* Mutant of ConnectRetry: one attempt too many. *)
ConnectRetryOnceMore(w) ==
  /\ At(w, "connect")
  /\ retries[w] <= MaxRetries
  /\ retries' = [retries EXCEPT ![w] = @ + 1]
  /\ UNCHANGED <<callerVars, pc, jobs, job, conn, place_id, nRows, sharedVars, failed, torn>>

(* The connection throws a pqxx_exception: sleep and try again. *)
ConnectRetry(w) ==
  /\ At(w, "connect")
  /\ retries[w] < MaxRetries
  /\ retries' = [retries EXCEPT ![w] = @ + 1]
  /\ UNCHANGED <<callerVars, pc, jobs, job, conn, place_id, nRows, sharedVars, failed, torn>>

(* The last attempt failed, or another exception: the worker leaves its     *)
(* whole queue undone.                                                     *)
ConnectFail(w) ==
  /\ At(w, "connect")
  /\ failed' = failed \cup {w}
  /\ Goto(w, "exited")
  /\ UNCHANGED <<callerVars, jobs, job, retries, conn, place_id, nRows, sharedVars, torn>>

(* Mutant of GetNextJob: the station keeps the data_ of an earlier call. *)
GetNextJobKeepingData(w) ==
  /\ At(w, "loop")
  /\ jobs[w] # <<>>
  /\ job' = [job EXCEPT ![w] = Head(jobs[w])]
  /\ jobs' = [jobs EXCEPT ![w] = Tail(@)]
  /\ place_id' = [place_id EXCEPT ![w] = NoProvider]
  /\ nRows' = [nRows EXCEPT ![w] = FALSE]
  /\ Goto(w, "lookup")
  /\ UNCHANGED <<callerVars, retries, conn, outMutex, tmp_data, lines, dataproviders, data, failed, torn>>

(* Mutant of GetNextJob: the job is read but not removed from the queue. *)
GetNextJobNoPop(w) ==
  /\ At(w, "loop")
  /\ jobs[w] # <<>>
  /\ job' = [job EXCEPT ![w] = Head(jobs[w])]
  /\ data' = [data EXCEPT ![Head(jobs[w])] = FALSE]
  /\ place_id' = [place_id EXCEPT ![w] = NoProvider]
  /\ nRows' = [nRows EXCEPT ![w] = FALSE]
  /\ Goto(w, "lookup")
  /\ UNCHANGED <<callerVars, jobs, retries, conn, outMutex, tmp_data, lines, dataproviders, failed, torn>>

(* The next job is removed from the queue and its result initialised. *)
GetNextJob(w) ==
  /\ At(w, "loop")
  /\ jobs[w] # <<>>
  /\ job' = [job EXCEPT ![w] = Head(jobs[w])]
  /\ jobs' = [jobs EXCEPT ![w] = Tail(@)]
  /\ data' = [data EXCEPT ![Head(jobs[w])] = FALSE]
  /\ place_id' = [place_id EXCEPT ![w] = NoProvider]
  /\ nRows' = [nRows EXCEPT ![w] = FALSE]
  /\ Goto(w, "lookup")
  /\ UNCHANGED <<callerVars, retries, conn, outMutex, tmp_data, lines, dataproviders, failed, torn>>

(* stop is set only behind a job: a worker without one spins. *)
Spin(w) ==
  /\ At(w, "loop")
  /\ jobs[w] = <<>>
  /\ UNCHANGED vars

(* Mutant of Finish: the worker stops after its first job. *)
FinishAfterOneJob(w) ==
  /\ At(w, "tail")
  /\ conn' = [conn EXCEPT ![w] = FALSE] /\ Goto(w, "exited")
  /\ UNCHANGED <<callerVars, jobs, job, retries, place_id, nRows, sharedVars, failed, torn>>

(* Mutant of Finish: stop is never set. *)
FinishNever(w) ==
  /\ At(w, "tail")
  /\ UNCHANGED conn /\ Goto(w, "loop")
  /\ UNCHANGED <<callerVars, jobs, job, retries, place_id, nRows, sharedVars, failed, torn>>

(* The end of the loop's body: stop if no job is left, and disconnect. *)
Finish(w) ==
  /\ At(w, "tail")
  /\ \/ jobs[w] # <<>> /\ UNCHANGED conn /\ Goto(w, "loop")
     \/ jobs[w] = <<>> /\ conn' = [conn EXCEPT ![w] = FALSE] /\ Goto(w, "exited")
  /\ UNCHANGED <<callerVars, jobs, job, retries, place_id, nRows, sharedVars, failed, torn>>

(* Mutant of Abort: the connection is left open. *)
AbortKeepingConnection(w) ==
  /\ failed' = failed \cup {w}
  /\ Goto(w, "exited")
  /\ UNCHANGED conn

(* A query failed: disconnect and leave the job and the queue undone. *)
Abort(w) ==
  /\ failed' = failed \cup {w}
  /\ Goto(w, "exited")
  /\ conn' = [conn EXCEPT ![w] = FALSE]

-----------------------------------------------------------------------------
(* A worker: one job. *)

(* tmp_data has a line for the station. *)
LookupHit(w) ==
  /\ At(w, "lookup")
  /\ tmp_data[job[w]] # NoLine
  /\ Goto(w, "hit")
  /\ UNCHANGED <<callerVars, jobs, job, retries, conn, place_id, nRows, sharedVars, failed, torn>>

(* Mutant of LookupMiss: stations not to plot are sorted out before the     *)
(* lookup.                                                                 *)
LookupMissNotToPlotFirst(w) ==
  LET s == job[w] IN
  /\ At(w, "lookup")
  /\ tmp_data[s] = NoLine \/ s \notin ToPlot
  /\ Goto(w, IF s \in ToPlot THEN "provider" ELSE "skip")
  /\ UNCHANGED <<callerVars, jobs, job, retries, conn, place_id, nRows, sharedVars, failed, torn>>

(* There is none, or the unlocked search misses it; a station to plot is    *)
(* then asked for.                                                         *)
LookupMiss(w) ==
  LET s == job[w] IN
  /\ At(w, "lookup")
  /\ \/ tmp_data[s] = NoLine /\ UNCHANGED torn
     \/ tmp_data[s] # NoLine /\ TmpDataRace(w) /\ torn' = torn \cup {s}
  /\ Goto(w, IF s \in ToPlot THEN "provider" ELSE "skip")
  /\ UNCHANGED <<callerVars, jobs, job, retries, conn, place_id, nRows, sharedVars, failed>>

(* The four places where a worker takes _outMutex. *)
TakeLock(w, from, to) ==
  /\ At(w, from)
  /\ Lock(w)
  /\ Goto(w, to)
  /\ UNCHANGED <<callerVars, jobs, job, retries, conn, place_id, nRows,
                 tmp_data, lines, dataproviders, data, failed, torn>>

AcquireLock(w) ==
  \/ TakeLock(w, "hit", "hitLocked")
  \/ TakeLock(w, "skip", "skipLocked")
  \/ TakeLock(w, "register", "registerLocked")
  \/ TakeLock(w, "answer", "answerLocked")

(* The cached line is returned. *)
ServeCached(w) ==
  LET s == job[w] IN
  /\ At(w, "hitLocked")
  /\ lines' = [lines EXCEPT ![s] = tmp_data[s]]
  /\ data' = [data EXCEPT ![s] = TRUE]
  /\ Unlock
  /\ Goto(w, "tail")
  /\ UNCHANGED <<callerVars, jobs, job, retries, conn, place_id, nRows,
                 tmp_data, dataproviders, failed, torn>>

(* Mutant of AnswerNotPlotted: the mutex is not released. *)
AnswerNotPlottedKeepingLock(w) ==
  /\ At(w, "skipLocked")
  /\ lines' = [lines EXCEPT ![job[w]] = "notplotted"]
  /\ Goto(w, "tail")
  /\ UNCHANGED <<callerVars, jobs, job, retries, conn, place_id, nRows, outMutex,
                 tmp_data, dataproviders, data, failed, torn>>

(* A line of undefined values for a station not to plot. *)
AnswerNotPlotted(w) ==
  /\ At(w, "skipLocked")
  /\ lines' = [lines EXCEPT ![job[w]] = "notplotted"]
  /\ Unlock
  /\ Goto(w, "tail")
  /\ UNCHANGED <<callerVars, jobs, job, retries, conn, place_id, nRows,
                 tmp_data, dataproviders, data, failed, torn>>

(* The unlocked search of dataproviders. *)
FindProvider(w) ==
  LET s == job[w] IN
  /\ At(w, "provider")
  /\ \/ dataproviders[s] # NoProvider /\ Goto(w, "dataQuery") /\ UNCHANGED torn
     \/ dataproviders[s] = NoProvider /\ Goto(w, "placeQuery") /\ UNCHANGED torn
     \/ /\ dataproviders[s] # NoProvider /\ ProviderRace(w)
        /\ Goto(w, "placeQuery") /\ torn' = torn \cup {s}
  /\ UNCHANGED <<callerVars, jobs, job, retries, conn, place_id, nRows, sharedVars, failed>>

(* The place query returns place ids, or no row, which makes the id "0". *)
PlaceQuery(w) ==
  /\ At(w, "placeQuery")
  /\ \E id \in {NoPlace, PlaceIds} : place_id' = [place_id EXCEPT ![w] = id]
  /\ Goto(w, "register")
  /\ UNCHANGED <<callerVars, jobs, job, retries, conn, nRows, sharedVars, failed, torn>>

PlaceQueryFail(w) ==
  /\ At(w, "placeQuery")
  /\ Abort(w)
  /\ UNCHANGED <<callerVars, jobs, job, retries, place_id, nRows, sharedVars, torn>>

(* The place id becomes the station's data provider. *)
Register(w) ==
  /\ At(w, "registerLocked")
  /\ dataproviders' = [dataproviders EXCEPT ![job[w]] = place_id[w]]
  /\ Unlock
  /\ Goto(w, "dataQuery")
  /\ UNCHANGED <<callerVars, jobs, job, retries, conn, place_id, nRows,
                 tmp_data, lines, data, failed, torn>>

(* The data query returns rows; there are none for the place id "0". *)
DataQueryRows(w) ==
  LET s == job[w] IN
  /\ At(w, "dataQuery")
  /\ dataproviders[s] = PlaceIds
  /\ nRows' = [nRows EXCEPT ![w] = TRUE]
  /\ data' = [data EXCEPT ![s] = TRUE]
  /\ Goto(w, "convert")
  /\ UNCHANGED <<callerVars, jobs, job, retries, conn, place_id,
                 outMutex, tmp_data, lines, dataproviders, failed, torn>>

DataQueryNoRows(w) ==
  /\ At(w, "dataQuery")
  /\ dataproviders[job[w]] \in {NoPlace, PlaceIds}
  /\ Goto(w, "answer")
  /\ UNCHANGED <<callerVars, jobs, job, retries, conn, place_id, nRows, sharedVars, failed, torn>>

(* The query fails; with an empty provider it is not even well formed. *)
DataQueryFail(w) ==
  /\ At(w, "dataQuery")
  /\ Abort(w)
  /\ UNCHANGED <<callerVars, jobs, job, retries, place_id, nRows, sharedVars, torn>>

(* operator[] misses the provider while another worker registers one: it    *)
(* inserts an empty provider, and the query built from it fails.           *)
DataQueryTorn(w) ==
  LET s == job[w] IN
  /\ At(w, "dataQuery")
  /\ ProviderRace(w)
  /\ dataproviders' = [dataproviders EXCEPT ![s] = EmptyProvider]
  /\ torn' = torn \cup {s}
  /\ Abort(w)
  /\ UNCHANGED <<callerVars, jobs, job, retries, place_id, nRows,
                 outMutex, tmp_data, lines, data>>

(* The rows become the values of the line, or one of them throws. *)
ConvertRows(w) ==
  /\ At(w, "convert")
  /\ Goto(w, "answer")
  /\ UNCHANGED <<callerVars, jobs, job, retries, conn, place_id, nRows, sharedVars, failed, torn>>

ConvertRowsFail(w) ==
  /\ At(w, "convert")
  /\ Abort(w)
  /\ UNCHANGED <<callerVars, jobs, job, retries, place_id, nRows, sharedVars, torn>>

(* Mutant of Answer: empty lines are cached too. *)
AnswerAlwaysCached(w) ==
  LET s == job[w] IN
  /\ At(w, "answerLocked")
  /\ LET line == IF nRows[w] THEN "rows" ELSE "norows" IN
       /\ lines' = [lines EXCEPT ![s] = line]
       /\ tmp_data' = [tmp_data EXCEPT ![s] = line]
  /\ Unlock
  /\ Goto(w, "tail")
  /\ UNCHANGED <<callerVars, jobs, job, retries, conn, place_id, nRows,
                 dataproviders, data, failed, torn>>

(* The line is returned, and cached if there were rows. *)
Answer(w) ==
  LET s == job[w] IN
  /\ At(w, "answerLocked")
  /\ \/ /\ nRows[w]
        /\ lines' = [lines EXCEPT ![s] = "rows"]
        /\ tmp_data' = [tmp_data EXCEPT ![s] = "rows"]
     \/ /\ ~nRows[w]
        /\ lines' = [lines EXCEPT ![s] = "norows"]
        /\ UNCHANGED tmp_data
  /\ Unlock
  /\ Goto(w, "tail")
  /\ UNCHANGED <<callerVars, jobs, job, retries, conn, place_id, nRows,
                 dataproviders, data, failed, torn>>

Worker(w) ==
  \/ Connect(w) \/ ConnectRetry(w) \/ ConnectFail(w)
  \/ GetNextJob(w) \/ Spin(w) \/ Finish(w)
  \/ LookupHit(w) \/ LookupMiss(w) \/ AcquireLock(w)
  \/ ServeCached(w) \/ AnswerNotPlotted(w)
  \/ FindProvider(w) \/ PlaceQuery(w) \/ PlaceQueryFail(w) \/ Register(w)
  \/ DataQueryRows(w) \/ DataQueryNoRows(w) \/ DataQueryFail(w) \/ DataQueryTorn(w)
  \/ ConvertRows(w) \/ ConvertRowsFail(w) \/ Answer(w)

Next == Caller \/ Returned \/ \E w \in Workers : Worker(w)

(* Every thread is scheduled again and again, and every query ends. *)
Fairness == WF_vars(Caller) /\ \A w \in Workers : WF_vars(Worker(w))

Spec == Init /\ [][Next]_vars /\ Fairness

-----------------------------------------------------------------------------
(* Types: every variable holds what the code can put there. *)
TypeOK ==
  /\ main \in Callers
  /\ i \in 0 .. NumStations /\ j \in 0 .. PoolSize /\ k \in 0 .. PoolSize
  /\ cache \in [Stations -> Line \cup {NoLine}]
  /\ pc \in [Workers -> Places]
  /\ jobs \in [Workers -> Seq(Stations)]
  /\ job \in [Workers -> Stations \cup {0}]
  /\ retries \in [Workers -> 0 .. MaxRetries]
  /\ conn \in [Workers -> BOOLEAN]
  /\ place_id \in [Workers -> Provider]
  /\ nRows \in [Workers -> BOOLEAN]
  /\ outMutex \in Workers \cup {Free}
  /\ tmp_data \in [Stations -> Line \cup {NoLine}]
  /\ lines \in [Stations -> Line \cup {NoLine}]
  /\ dataproviders \in [Stations -> Provider]
  /\ data \in [Stations -> BOOLEAN]
  /\ failed \subseteq Workers
  /\ torn \subseteq Stations

(* A worker that failed abandons the job it held and the rest of its queue. *)
AbandonedBy(w) == IF w \in failed THEN {job[w]} \cup Elements(jobs[w]) ELSE {}

(* No job is lost on its way through the pool: a station that was handed    *)
(* out has its line, is pending at a worker, or was abandoned by a worker   *)
(* that failed.                                                            *)
NoJobLost ==
  \A s \in 1 .. i : \/ lines[s] # NoLine
                    \/ \E w \in Workers : s \in Pending(w) \cup AbandonedBy(w)

(* What the 0 that getData always returns is worth: a station without a     *)
(* line after the call was abandoned by a worker that failed.  (The failure *)
(* is only written to stderr; the caller sees the missing line.)           *)
UnansweredIsAbandoned ==
  main = "returned" =>
    \A s \in Stations : lines[s] = NoLine => \E w \in failed : s \in AbandonedBy(w)

(* The cached lines of the call are complete and hold no empty line: a line *)
(* built in this call is cached if and only if rows were returned for its   *)
(* station, and is still there when getData has written the cache back     *)
(* ("contains data strings only if there are rows returned from road").    *)
OnlyRowsCached ==
  \A s \in Stations :
    /\ tmp_data[s] \in {NoLine, "cached", "rows"}
    /\ tmp_data[s] = "rows" <=> lines[s] = "rows"
    /\ main = "returned" => cache[s] = tmp_data[s]

(* A station with a cached line is answered from the cache, also when it is *)
(* not to plot, unless its lookup raced with another worker's write.       *)
ServedFromCache ==
  \A s \in Stations \ torn :
    lines[s] # NoLine /\ cache[s] = "cached" => lines[s] = "cached"

(* For an answered station, data_ says whether its line holds observations. *)
DataMatchesLine ==
  \A s \in Stations :
    lines[s] # NoLine => (data[s] <=> lines[s] \in {"cached", "rows"})

(* No worker leaves a database connection behind, whichever way it ended. *)
ConnectionsClosed == \A w \in Workers : At(w, "exited") => ~conn[w]

(* A line that was given to the caller is never replaced by another. *)
LineFinal ==
  [][\A s \in Stations : lines[s] # NoLine => lines'[s] = lines[s]]_vars

(* The call implements the abstract one: whatever the pool does, each       *)
(* station is answered at most once and from what the database or the cache *)
(* said of it, and nothing moves after the return.                         *)
Fetch == INSTANCE StationFetch WITH returned <- (main = "returned")
FetchSpec == Fetch!Spec

(* The call returns: every thread that is joined terminates. *)
CallReturns == <>(main = "returned")

(* Every station is eventually answered or abandoned by a failed worker. *)
StationsSettle ==
  \A s \in Stations :
    <>[](lines[s] # NoLine \/ \E w \in failed : s \in AbandonedBy(w))

(* "We must protect these maps": while a worker writes tmp_data under the   *)
(* mutex no other worker looks it up.                                      *)
TmpDataProtected ==
  \A w \in Workers : At(w, "lookup") => ~TmpDataRace(w)
=============================================================================
