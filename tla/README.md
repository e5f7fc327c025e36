# A TLA+ development of newarkAPI

newarkAPI fetches meteorological observations for a plotting program from a
PostgreSQL database. A caller makes a `Roaddata` object for a database file, a
station file, a parameter file and an observation time, and asks it for one
line of values per station (`getData` with an index list), for the rows of
radiosondes (`getData` with a station list), or for placeholder lines
(`initData`). This directory models that code in TLA+, checks it with TLC and
proves theorems about it with TLAPS.

All line numbers refer to the files under `src/`.

## Inventory

| Part | State | Operations | Used by |
|---|---|---|---|
| `Roaddata` statics | `initDone`, `connect_str`, `road_data_cache`, `road_data_multi_cache` | `initRoaddata`, `getStationList` | constructor, `initStations` |
| `Roaddata` object | pointers to a station list, a parameter list and its ids; observation time | constructor, `getData` (two), `initData`; `open` and `close` do nothing | the program |
| `RoadDataThread` | queue of jobs, stop flag, connection; references to the call's `tmp_data` and `lines`; static `_outMutex` | `addJob`, `getNextJob`, `operator()` | `getData` |
| `diStation` | static `station_map`, `dataproviders`; per station position, id, `data_` | `initStations`, `addDataProvider`, `setStation` | constructor, workers |
| `diParam` | static `params_map`, `roadparams_map`, `index_column_map`, `unit_map`; per parameter the columns of a line of the parameter file | `initParameters`, `setParams`, `isMapped`, `convertValue` | constructor, workers |
| `rdkESQLTypes.h` | plain row structures | none | everywhere |
| external | libpqxx and the database, boost threads and mutexes, puTools times and strings | | everywhere |

How they interact. The constructor fills the statics, each from a file that is
read once per process, and keeps pointers into them. `getData` copies the
cached lines of its station file and time (`tmp_data`), deals all stations
round robin to ten workers (or `OMP_NUM_THREADS`), starts a thread per worker,
joins them and puts `tmp_data` back into the cache. A worker connects, and for
each job: looks the station up in `tmp_data`; if it is there returns that line;
if the station is not to plot, returns a line of undefined values; else finds
its place ids (`dataproviders`, or a query), queries its rows, turns them into
a line, and stores it. Writes to `lines`, `tmp_data` and `dataproviders` take
`_outMutex`; lookups do not.

What is hard:

- *Interleaving*: workers read maps without the lock while others write them.
- *Liveness*: a thread ends only through its own flag, which is set behind a
  job; the caller joins it.
- *Partial failure*: a query that throws ends one worker with its queue, and
  the call returns 0 all the same; on the sequential path it ends the call.
- *Retry*: connections are tried eleven times.
- *Stale state*: caches, lists and place ids are kept for ever, keyed by less
  than what they depend on; `data_` lives in the shared station.
- *Order of calls*: the statics depend on which object came first.
- *Files*: lists are read line by line into maps shared by all files, by column
  names and by column indices; a line that does not fit ends the file.
- *Shared positions*: a ship's position is stored in the station all calls use.

What makes each part correct:

- the pool: no station is lost or answered twice, a missing line has a failed
  worker as its reason, cached lines are served, only lines with observations
  are cached, no connection leaks, the call returns;
- the radiosonde call: its return value tells which stations are answered, the
  cache changes only when it succeeds, and never loses rows;
- the statics: lists never change under an object, one database per process,
  cached lines belong to their file, time and station;
- rows to columns: a row goes to the column it is meant for, and its number is
  converted exactly when the database has another unit, whatever other workers
  do to the shared unit map;
- the lists: a list is what its own file or query says, the id of a station is
  its place among them, and the ids queried are those of the columns;
- lines: values stand in the same columns in every line, a ship's line has the
  position of its own rows.

## Modules

| Module | Models | Its actions |
|---|---|---|
| `StationFetch` | what one `getData` call promises, threads or not | `Answer`, `Return` |
| `RoadDataThread` | one `getData` call with its pool | see below |
| `GetDataCall` | that a call of the pool is a `GetData` step of `Roaddata` | those of `RoadDataThread` |
| `RawFetch` | a sequence of radiosonde calls | one per database event and list position |
| `Roaddata` | objects, static lists, cache | `Construct`, `GetData`, `InitData` and their refusals |
| `ParamMapping` | `diParam`'s operators: parsing of `#roadobs`, `isMapped`, `convertValue`, units | none |
| `RowConversion` | workers that turn rows into columns and share `unit_map` | one per row, two per inserted unit |
| `ParameterFile` | `initParameters`, over several files | one per line, `OpenFile`, `CloseFile` |
| `StationFile` | `initStations` and `getStationList`, one file | one per line or row and per database event |
| `StationLine` | the lines of one station over calls | one per way to get a line |
| `...Proofs` | theorems about the module of that name | |
| `ListLemmas` | lemmas on lists filled line by line, for the proofs | |
| `MC...` | instances for TLC | |

`ParamMapping` is used by `ParameterFile`, which builds parameters with it, and
by `RowConversion`, which compares rows with them. `Roaddata` takes a
constructed list as its length and a call as its outcome: what is inside is
`StationFile`, `ParameterFile` and `RoadDataThread`; `GetDataCall` ties the
outcome to the pool. `RoadDataThread` takes a line as its kind: what is inside is `StationLine` and `RowConversion`.

`PROJECT.json` maps each definition to its lines.

### RoadDataThread

`main` is where `getData` is, `pc[w]` where the thread of worker `w` is.

| Source | Actions |
|---|---|
| deal, start, join, save (`diRoaddata.cc` 699-766) | `AddJob`, `Spawn`, `Join`, `WriteBack` |
| connection (`diRoaddatathread.cc` 117-149) | `Connect`, `ConnectRetry`, `ConnectFail` |
| main loop (150-169, 861-870) | `GetNextJob`, `Spin`, `Finish` |
| lookup (197-230) | `LookupHit`, `LookupMiss` |
| locked scopes (204, 361, 837/844, 856) | `AcquireLock`, then `ServeCached`, `Register`, `Answer`, `AnswerNotPlotted` |
| place ids (232-397) | `FindProvider`, `PlaceQuery`, `PlaceQueryFail` |
| rows (406-801) | `DataQueryRows`, `DataQueryNoRows`, `DataQueryFail`, `DataQueryTorn`, `ConvertRows`, `ConvertRowsFail` |

A line is one of four kinds: served from the cache, built from rows, built
without rows, not asked for. A data provider is absent, `"0"`, place ids, or
empty. Positions in the station list are the station ids (`initStations` and
`getStationList` number them so).

*Data races.* A locked write is two steps, so that another worker's lookup can
fall in between. By the C++ standard such a lookup is undefined. The model
allows the outcomes a search in a red-black tree that is being rebalanced
gives: the right answer, or a miss of a key that is there; `operator[]` then
inserts an empty value. A crash or a corrupted tree is not modelled. The
stations a race touched are in `torn`, a history variable.

*What earlier calls left* is chosen per station in `Init` (`Histories`):
nothing, place ids, `"0"`, the empty provider of a race, or a cached line.
`data_` is arbitrary.

*Thread creation* always succeeds, and the pool is not empty; the loops over
zero workers and the exception of `boost::thread` are not modelled.

### StationFetch and the refinement

`FetchSpec` says that `RoadDataThread` implements `StationFetch`, with
`lines`, `tmp_data` and `cache` under their own names and `returned` defined as
`main = "returned"`. Each worker's locked write is an `Answer`; `WriteBack` is
`Return`; all else stutters. It is the statement that the pool can be
understood as a loop: who does the work, in which order, and which worker
fails, is invisible except for stations without a line. What the abstract
specification leaves open (why a station has no line, when a cached line is
used) is stated by `UnansweredIsAbandoned` and `ServedFromCache`.

### GetDataCall

The pool and `Roaddata` describe the same function at two scales.
`GetDataCall` instantiates `Roaddata` with the one object of the call, already
constructed: the statics are constants of the mapping, the cache of the object
is `cache` with the four kinds of line seen as the two `Roaddata` has (lines of
observations, whether cached or new, and lines of undefined values), and the
result is there once `main = "returned"`. `CallIsGetData` says that the step
that returns is `GetData` for some set of answered stations and some set of
stations with rows, and that every other step of the caller and of the workers
changes nothing an object can see. It is stated for calls in which no lookup
that raced missed a cached line (`CacheNotMissed`): `Roaddata` has no race, and
such a miss makes the call query again what it should have served.

### RawFetch

The caller's thread goes through the station list. `pos` is `i + 1`. A call may
be made for any time and any set of WMO numbers, again and again, so that what
one call leaves in the cache, the providers and `data_` meets the next. The
null-pointer returns at the top are left out; the data providers are those of
this path alone.

### Roaddata

One thread uses the objects. A `getData` call is one step, with the outcomes
`RoadDataThread` gives a call that returns and in which no lookup races: any
set of stations may have been abandoned, any station to plot that is not cached
may have rows. That the pool gives no other outcome is `CallIsGetData`. A cached line remembers the file, time and parameter file it was
built for, which the code's string does not; the properties are about these
marks.

### ParamMapping and RowConversion

A number is abstracted to *the unit it is expressed in*: `"kelvin"` becomes
`"C"` by the calculation of `convertValue`, and anything else that calculation
is applied to becomes `Wrong`. That is what tells a conversion that is left
out, or applied twice, or applied to a number labelled alike, from a right one;
the arithmetic itself is one subtraction or multiplication. `Expressed` is the
"bug in mora" of `diParam.cc` 267: numbers labelled "degree celsius" are in
kelvin. Times are seconds, the texts of a `#roadobs` cell are the tokens it is
split into, altitudes are integers.

| Source | Definitions |
|---|---|
| `setParams`, `fixage`, `fixstat` (`diParam.cc` 136-315) | `Roadobs`, `ValidRoadobs`, `FixAge`, `FixStat` |
| `isMapped` (348-411) | `IsMapped` with `LevelMatches`, `TimesMatch` |
| `convertValue`, `toDianaUnit` (412-474) | `ConvertValue`, `ToDianaUnit` |
| loops over rows and parameters (`diRoaddatathread.cc` 494-767) | `ConvertRow`: `First` is the `break` of line 762 |
| `operator[]` of `toDianaUnit` (`diParam.cc` 473) | `InsertUnit`, `UnitInserted`, `ConvertRowTorn` |
| conversion in place (`diRoaddata.cc` 1146-1164) | `RawCopies` |

`unit_map` is indexed without a lock by all workers. For a unit it does not
know, `operator[]` inserts an empty one: two steps here, and a search between
them may miss (`ConvertRowTorn`, the worker is then in `torn`).

### ParameterFile

A line is its cells and whether it is longer than the buffer. `getline` then
keeps the beginning and sets failbit, which ends the loop as the end of the
file does: `GetLine`. Line 0 is skipped, line 1 fills `index_column_map`, which
all files share and `operator[]` extends (`Seen`). `Garbage` is what the memory
of a `diParam` holds: a line without a `#roadobs` cell leaves it there.

### StationFile

One station file, fixed or with a query, and for a query the connection of
`getStationList` with its retries, its rows and its failures. Where a position
or height comes from is kept (`"file"`, `"db"`, `"0"` or a constant), not its
number; a WMO number is a number because it is put together from block and
number and taken apart again (`AskedFor`). Names of stations are left out.

`lineno` is the number of lines read, `j` the code's own counter: the stations
`initStations` has added (`diStation.cc` 74, 110), or the row the loop of
`getStationList` is at, and the id of a station comes from it. That an id is
the place of the station in the list is therefore something to show: for a
fixed list it is part of `FixedListFollowsFile`, for a list from a query of
`QueriedListFollowsRows`. `ret` is what `getStationList` returned.
`initStations` publishes the list whatever it is, so a row that throws leaves a
list that looks complete; `QueriedListFollowsRows` says what is left to rely
on: such a list is a beginning of the rows, and if it is not empty the failure
was returned. (An empty list tells nothing: a query without rows returns 0, and
so does a connection that fails with an exception other than libpqxx's, line 184.)

### StationLine

One station over calls of `getData` and `initData` for several times, each one
step, because one worker does it from beginning to end. A line is a sequence of
fields. The column lists of the three queries and the index constants of
`diRoaddatathread.h` are written out, and `CRow` says which column each
attribute is read from. A row of a metar is valid at the time asked for and
refers to the next full hour, as its query has it. A worker that fails gives
no line (`GetNothing`, `GetRowsFail`); one whose row throws has set `data_`, and
behind the first row has stored the automation code and the position of a ship,
which the next call finds.

## Runs

| Run | Instance | Shows |
|---|---|---|
| `pool_safety` | 3 stations, 2 to plot, 2 workers, 1 retry, all histories | the safety properties, the refinement, and that the call is a `GetData` step |
| `pool_returns` | same, fresh or cached stations | every call returns |
| `pool_idle` | 2 stations, 3 workers | stations settle although a worker spins |
| `pool_idle_returns` | same | violation: the call does not return |
| `pool_race` | 2 stations, 2 workers | violation: lookup during a write |
| `raw_fetch` | 3 stations, two sharing a WMO number, 2 times, 1 retry | return value, cache, connection, termination |
| `roaddata` | 2 objects, 2 of each kind of file, 2 times, lists up to 2 stations | lists and cache over all orders of construction and calls (its types are proved) |
| `roaddata_parameters` | 2 objects, 2 parameter files | violation: columns of another parameter file |
| `row_conversion` | 2 workers, 3 parameter lists, up to 2 of 8 rows each | columns complete and in their unit, with the race on `unit_map` |
| `parameter_file` | 2 files, two headers, up to 4 lines | each list is what its own file says, its ids are those of its columns |
| `station_file` | files of up to 4 lines with sections of all types, results of up to 2 rows, 2 retries | ids, types, keys of the stations of a file and of the rows of a query; connection; the load ends |
| `station_line` | 3 types, 2 times, 2 positions, 2 parameters | the columns of lines, header time, position of ships |

The hazards in `PROJECT.json` name the properties that would catch them. Where
the code itself has the fault and no comment says otherwise (the offset column
of WMO and ICAO, the number shared by stations without one, the empty last line
of a station file, `data_` of a station without a line), the model has it too,
no property is counted as covering it, and the hazard's note says so.

The properties, with the code they are about, are stated in comments where they
are defined. The violated ones are what comments of the code say, and are
listed under `findings`.

*Why the bounds suffice.* Two workers give every pairwise interleaving, and the
properties relate two workers at most (one that writes, one that looks up).
With three stations one worker has a queue of two, so it can fail with a job
left behind, and with one station not to plot every path of the loop is taken.
One retry shows both the repeated and the last attempt. Three workers for two
stations is the smallest pool with an idle worker. The theorems show that what
was checked on these instances does not depend on the bounds. In `raw_fetch` a
station fails before and after others; two times are enough for one to lose
what the other saved. In `roaddata` two objects can differ in, or share, each
file; symmetry is used for objects, times, database and parameter files, over
which all definitions quantify, in a run with safety properties only.
In `row_conversion` a row can fit two parameters, one or none, two rows can go
to the same column, and both workers can meet a unit that is not in the map; a
third worker would race as one of the two does. In `parameter_file` a narrow
header follows a wide one and the reverse, which is what a shared map could
spoil, and every kind of line stands before and behind every other one of its
header. `station_file` has every sequence of three lines of nine kinds, so that
a section follows another and stations stand before, in and behind them; two
rows let the query fail at none, one or both. In `station_line` a ship reports
two positions at two times, of which one is not a full hour, so that lines of
one time are asked for again after those of the other.

*Fairness.* `RoadDataThread` assumes weak fairness of the caller and of each
worker: the operating system schedules every thread, a query ends (libpqxx
blocks until it does), and a thread that waits for the mutex while it is free
gets it. Weak fairness of the whole worker is enough although the mutex is
contended, because each worker enters a bounded number of locked scopes and so
the others cannot starve one for ever. A retry counts towards its bound, so
that retrying cannot go on for ever either. `RawFetch` assumes that a call in progress
goes on; nobody has to make another. `ParameterFile` and `StationFile` assume
that the reading of an opened file goes on: it is one thread that waits for
nothing but the database, which answers or throws. `Roaddata`, `RowConversion`
and `StationLine` have no liveness property.

## Proofs

`RoadDataThreadProofs` proves, for every number of stations and workers, every
set to plot and every retry bound:

| Theorem | Property |
|---|---|
| `TypeCorrect` | `TypeOK` |
| `JobsAccounted` | `NoJobLost` |
| `MissingLinesExplained` | `UnansweredIsAbandoned` |
| `NoConnectionLeaks` | `ConnectionsClosed` |
| `LinesFinal` | `LineFinal` |
| `CacheHoldsRowsOnly` | `OnlyRowsCached` |
| `CacheServed` | `ServedFromCache` |
| `DataFlagTruthful` | `DataMatchesLine` |
| `RefinesStationFetch` | `FetchSpec` |
| `RefinesGetData` | `CallIsGetData` |
| `InductiveInvariant` | `IInv` |

Assumptions: there is at least one station and one worker (`getData` returns
early without stations; the pool is `THREAD_POOL_SIZE` unless the environment
says zero), the stations to plot are stations of the list and not none (an
empty list is replaced by the whole list), the histories are among the five.

The argument. None of the properties is inductive: that a line is never
replaced rests on no station being pending at two workers, which rests on the
queues, which rests on how they were filled. `IInv` has four layers, each
proved to be preserved with the help of those before it:

1. `TypeInv`: the types, and that the caller's loops are within their bounds
   and a worker inside its loop has a job (`SlotIsWorker`: the round-robin
   position is a worker).
2. `Control`: which threads run at each place of the caller; the mutex is held
   by the worker inside a locked scope and by no other; a worker that ended
   with jobs left failed; a worker that found a cached line still finds it,
   because nothing is removed from `tmp_data`.
3. `Queues`: a pending station was dealt and has no line; no station is pending
   twice, in one queue or in two; and `NoJobLost`.
4. `Lines`: `tmp_data` differs from the cache exactly where this call had rows;
   what a worker knows at each place about the station it holds (`CacheAsked`,
   `DataOfHeld`); `ServedFromCache` and `DataMatchesLine`.

The layers have one lemma for the caller and one for a worker, with a step per
action. The refinement then needs only that an answered station was unanswered
(`HeldApart`), and that no worker is running when the caller returns.

`RefinesGetData` needs one more layer, `Sources`: until the call returns, a
line served from the cache is the cached line of that station, and a station
with a line of rows is one to plot. The witnesses of the `GetData` step are
then read off the state that returns: the answered stations are those with a
line, the stations with rows those whose line was built from rows.
`ServedFromCache` says that a station whose line was cached has it, unless a
raced lookup missed it, which is the case the property leaves out.

The other proofs each have an inductive invariant, `IInv`, of the module's
properties and what they need besides; the files and the lines have a second
one, about their contents:

| Module | Theorems | The strengthening |
|---|---|---|
| `RawFetchProofs` | `TypeCorrect`, `ReturnValue`, `RowsOnly`, `QueriesNeeded`, `NoConnectionLeaks`, `CacheNeverShrinks`, `FailedCallsCacheNothing` | `Answered`: the stations before the position are answered and no others; `Copied`: the call's copy differs from the cache by rows of stations already passed; `Connected` |
| `RoaddataProofs` | `TypeCorrect`, `CacheIsSound`, `FirstDatabaseOnly`, `ListsInUseStay`, `CacheNeverShrinks` | `Connected`: there is a connect string exactly when `initDone`; `Pointers`: objects point to loaded lists |
| `RowConversionProofs` | `NumbersInTheirUnit`, `ColumnsFilledAsAsked`, `RawCopiesConvertedOnce` | `UnitsStay`: what workers insert into `unit_map` is what `toDianaUnit` gives without it; then a row is mapped as `init_unit_map` has it |
| `ParameterFileProofs` | `QueriesAskForColumns` | `Collected`: while a file is read the ids are those of the list so far |
| | `ListsAreTheirFiles` | `FileInv`: the column names are those of the file's own header for every index, and the list is that of the lines so far, each at the position that counting them gives |
| `StationFileProofs` | `NoConnectionLeaks` | `Connected`: a connection is held between the attempt that succeeds and the disconnect only |
| | `FixedListIsItsFile`, `StationsAreAskedForAsListed` | `Counted`: the counter is the length of the list, because a query finds it empty and is asked once; `FileInv`: the type in force is that of the last obssource line, and the list has a station for each station line so far, at the position that counting them gives and with that id |
| | `QueriedListIsItsRows` | `RowInv`: the list has a station for each row so far, of the type in force at the query, and a list that is neither empty nor complete was reported |
| `StationLineProofs` | `ValuesAligned`, `OwnPosition`, `CacheAndPlacesStay` | the lines in the cache have the shape of the lines given, because they are given again |
| | `AttributesFromColumns`, `HeaderTimesNotLater` | `TimeInv`: the station keeps a type that has a query; so each index names the column the worker means, and the header time is the tick `RefTime` of the type, which its query bounds by the time asked for, less a natural |

*Files.* What a file's list should be is said by position: the station or
parameter of line `n` is at the position that is the number of such lines up to
`n`. A list that is built by `Append`, one line a step, is compared with it by
the lemmas of `ListLemmas`: the next line adds one to the count if it is one of
those that count (`CountNext`), and what was appended before stays where it was
(`KeptLine`). No induction over the file is needed, because the steps of the
program do the induction: the invariant speaks of the lines up to `j`, and
`GivenEnds` says that when no further line is given those are all there are.
A station is asked for by block and number: `AskedFor` takes the WMO number
apart again, and the proof is that division and remainder undo
`block * 1000 + number`.

*Copies of a row.* `RawCopies` is a recursive function over the parameter list,
so what it computes for every list is a matter of induction. The induction
theorems of the library cannot be used here, but the minimum of a well-founded
order can: `LeastExists` gives the least position at which a statement fails,
and the recursion equation contradicts it. `CopiesExist` names a function that
satisfies the equation, because a second calculation on a number leaves what a
third would; `CopiesCalculated` shows with the least position that there is no
other; and `CopiesFit` that the first copy is right and a later one only if
there was nothing to convert.

*Units.* `TimesMatchIsAgesFit` (the three cases of the time test are an
equality of durations or of the ages given), `MappedIsBelongs`, and
`ConvertedFits` (`convertValue` gives the unit `toDianaUnit` names, for every
unit) are the lemmas of `RowConversionProofs`.

The assumptions are the named `ASSUME`s of the modules: files are not empty
(`getline` always delivers a line), a line is a sequence of cells and may be
too long, a WMO number is a block and three digits, in a file and in a row of
a station list, the types with a query are
`WMO`, `ICAO` and `SHIP`, times, sampling times and offsets are naturals, a
parameter has integers where rows are compared with it, and a row of the
database is labelled with a unit of the database, not of Diana. TLC evaluates
them in every run.

Only model-checked: liveness (`CallReturns` of the pool and of the radiosonde
call, `StationsSettle`, `OpenedIsLoaded`, `LoadReturns`), which needs fairness
and `ENABLED` and is out of the prover's reach. Every other property of a
passing run is a theorem.

## Where comments and code disagree

Three disagreements are runs: see `findings`. The others were met while
modelling, and the models follow the code:

| Code | Says | Does |
|---|---|---|
| `diStation.cc` 98 | a failed query leaves "an empty station list" | a row that throws leaves the stations before it (`diRoaddata.cc` 266), and the return value that tells is not looked at; `QueryFail`, `QueriedListFollowsRows` |
| `diRoaddata.h` 84 | `getStationList` "must be called after initRoaddata has been done" | the constructor goes on to `initStations` when the database file did not open (`diRoaddata.cc` 385) |
| `diStation.cc` 104, 255 | duplicates are removed, there "must not be duplicates" | every line is a station; `equalStation` has no caller |
| `diParam.cc` 362 | level type 15 is "the widcard" | 1000 was added at line 210, so no type from a file is 15; `LevelMatches` |
| `diParam.cc` 115 | "if not correct, just skip it" | a line without a `#roadobs` cell is correct, its attributes uninitialised; `AttributesUnder` |
| `diRoaddatathread.cc` 706, 711 | the offset from the time tick is taken off the header time | for WMO and ICAO the index is that of the ship query, whose neighbour is the sampling time; `SecColumn` |

## Not modelled

- Undefined behaviour without a set of outcomes to choose from: the header
  buffer and query of `FLIGHT` stations, which are printed uninitialised
  (`diRoaddatathread.cc` 171); statistics with fewer than three tokens
  (`diParam.cc` 220); a query text used as a format string and columns that are
  NULL (`diRoaddata.cc` 205-259); `parameters` when there is no road parameter
  (635); `j % noWorkers` with `OMP_NUM_THREADS=0` (703); a thread that cannot
  be created, after which the threads that run refer to the locals of a call
  that has been left (719); a crash in a map that another thread rebalances.
- The heights -32767 and -23767 for the same missing cell (`diStation.cc` 354,
  456) are in the model as they are; nothing says which one is meant.
- Which of several rows comes first: the data queries have no ORDER BY, so the
  first row is any row (`FirstRows`), and a later row of a column is any other.
- A cached line is never refreshed (`diRoaddata.cc` 739): the models have it,
  and nothing says that it should be.
- The joins of the queries, the number format of values, station names.
- Two threads of the program using `Roaddata` at the same time: the statics are
  not protected and nothing says they may.
- `open`, `close`, `toSend`, `uniqueKey`, `equalStation` and the `setStation`
  of sixteen values (no effect, output only, or no caller), `getNoOfJobs` and
  `decNoOfJobs` (no caller).
- Build files. The repository has no tests.

## Plan

Done: all modules of the table above with their runs, and the proofs of all
their safety and action properties. Left:

1. `RoadDataThread` with a line built by `StationLine` and `RowConversion`, so
   that the race on `unit_map` and that on `dataproviders` meet in one run; the
   state spaces multiply, so it needs one parameter and one row per station.
2. The safety half of `CallReturns`: a measure of the work left that every step
   of the pool except `Spin` decreases, which says what fairness is needed for.
