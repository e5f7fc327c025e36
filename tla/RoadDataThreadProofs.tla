------------------------ MODULE RoadDataThreadProofs ------------------------
(***************************************************************************)
(* Proofs about RoadDataThread, for every number of stations and workers,  *)
(* every set of stations to plot and every history.                        *)
(***************************************************************************)
EXTENDS GetDataCall, SequenceTheorems, TLAPS

-----------------------------------------------------------------------------
(* Lemmas about the queues and the round-robin position. *)

(* The round-robin position always names a worker. *)
LEMMA SlotIsWorker ==
  ASSUME NEW x \in 0 .. PoolSize
  PROVE  Slot(x) + 1 \in Workers
<1>1. CASE x = PoolSize
  <2>1. PoolSize % PoolSize = 0
    BY PoolSizeAssumption, Z3
  <2> QED  BY <1>1, <2>1, PoolSizeAssumption DEF Slot, Workers
<1>2. CASE x # PoolSize
  BY <1>2, PoolSizeAssumption DEF Slot, Workers
<1> QED  BY <1>1, <1>2

(* Appending to a queue adds the new job to its elements. *)
LEMMA ElementsAppend ==
  ASSUME NEW S, NEW q \in Seq(S), NEW e \in S
  PROVE  Elements(Append(q, e)) = Elements(q) \cup {e}
<1>1. /\ Len(Append(q, e)) = Len(q) + 1 /\ Len(q) \in Nat
      /\ \A n \in 1 .. Len(q) : Append(q, e)[n] = q[n]
      /\ Append(q, e)[Len(q) + 1] = e
  OBVIOUS
<1>2. Elements(Append(q, e)) \subseteq Elements(q) \cup {e}
  BY <1>1 DEF Elements
<1>3. Elements(q) \subseteq Elements(Append(q, e))
  BY <1>1 DEF Elements
<1>4. e \in Elements(Append(q, e))
  BY <1>1 DEF Elements
<1> QED  BY <1>2, <1>3, <1>4

(* Taking the first job of a queue removes it from its elements. *)
LEMMA ElementsTail ==
  ASSUME NEW S, NEW q \in Seq(S), q # <<>>
  PROVE  /\ Head(q) \in S
         /\ Tail(q) \in Seq(S)
         /\ Elements(q) = {Head(q)} \cup Elements(Tail(q))
<1>1. Len(q) \in Nat \ {0} /\ Head(q) = q[1] /\ Len(Tail(q)) = Len(q) - 1
  OBVIOUS
<1>2. \A n \in 1 .. Len(q) - 1 : Tail(q)[n] = q[n + 1]
  OBVIOUS
<1>3. Elements(q) \subseteq {Head(q)} \cup Elements(Tail(q))
  <2> SUFFICES ASSUME NEW n \in 1 .. Len(q), n # 1
               PROVE  q[n] \in Elements(Tail(q))
    BY <1>1 DEF Elements
  <2>1. n - 1 \in 1 .. Len(Tail(q)) /\ Tail(q)[n - 1] = q[n]
    BY <1>1, <1>2
  <2> QED  BY <2>1 DEF Elements
<1>4. {Head(q)} \cup Elements(Tail(q)) \subseteq Elements(q)
  BY <1>1, <1>2 DEF Elements
<1>5. Head(q) \in S /\ Tail(q) \in Seq(S)
  OBVIOUS
<1> QED  BY <1>3, <1>4, <1>5

-----------------------------------------------------------------------------
(* Type correctness. *)

(* What the types of the next step rest on: the loops of the caller are     *)
(* within their bounds, and a worker inside its loop's body has a job.     *)
InBounds ==
  /\ main = "assign" => i < NumStations /\ k = 0
  /\ main # "assign" => i = NumStations
  /\ main \in {"spawn", "join"} => k < PoolSize
  /\ \A w \in Workers : pc[w] \in Busy => job[w] \in Stations

TypeInv == TypeOK /\ InBounds

(* The types hold when the call begins. *)
LEMMA TypeInvInit == Init => TypeInv
<1> SUFFICES ASSUME Init PROVE TypeInv
  OBVIOUS
<1>1. 0 \notin Workers /\ 1 \in Workers /\ 1 \in Stations
  BY NumStationsAssumption, PoolSizeAssumption DEF Workers, Stations
<1>2. tmp_data \in [Stations -> Line \cup {NoLine}]
  BY DEF Init, Line, NoLine
<1>3. dataproviders \in [Stations -> Provider]
  <2>1. \A x \in Histories : LeftProvider(x) \in Provider
    BY DEF LeftProvider, Provider, NoProvider, PlaceIds, NoPlace, EmptyProvider
  <2>2. PICK h \in [Stations -> Histories] :
          dataproviders = [s \in Stations |-> LeftProvider(h[s])]
    BY DEF Init
  <2> QED  BY <2>1, <2>2
<1>4. TypeOK
  BY <1>1, <1>2, <1>3, NumStationsAssumption, PoolSizeAssumption, MaxRetriesAssumption
  DEF Init, TypeOK, Callers, Places, NoLine, Line, NoProvider, Provider, Free
<1>5. InBounds
  BY NumStationsAssumption DEF Init, InBounds, Busy
<1> QED  BY <1>4, <1>5 DEF TypeInv

(* No step of getData itself breaks the types. *)
LEMMA TypeInvCaller == TypeInv /\ Caller => TypeInv'
<1> SUFFICES ASSUME TypeInv, Caller PROVE TypeInv'
  OBVIOUS
<1> USE NumStationsAssumption, PoolSizeAssumption, MaxRetriesAssumption
<1>1. CASE AddJob
  <2>1. Slot(j) + 1 \in Workers
    BY SlotIsWorker DEF TypeInv, TypeOK
  <2>2. i + 1 \in Stations /\ i + 1 \in 0 .. NumStations
    BY <1>1 DEF TypeInv, TypeOK, InBounds, AddJob, Stations
  <2>3. Append(jobs[Slot(j) + 1], i + 1) \in Seq(Stations)
    BY <2>1, <2>2 DEF TypeInv, TypeOK
  <2>4. jobs' \in [Workers -> Seq(Stations)]
    BY <1>1, <2>1, <2>3 DEF TypeInv, TypeOK, AddJob
  <2>5. j' \in 0 .. PoolSize
    BY <1>1, <2>1 DEF AddJob, Workers
  <2>6. TypeOK'
    BY <1>1, <2>2, <2>4, <2>5 DEF TypeInv, TypeOK, AddJob, Callers, sharedVars
  <2>7. InBounds'
    BY <1>1, <2>2 DEF TypeInv, TypeOK, InBounds, AddJob, Stations, Workers
  <2> QED  BY <2>6, <2>7 DEF TypeInv
<1>2. CASE Spawn
  <2>1. k + 1 \in Workers
    BY <1>2 DEF TypeInv, TypeOK, InBounds, Spawn, Workers
  <2>2. TypeOK'
    BY <1>2, <2>1 DEF TypeInv, TypeOK, Spawn, Goto, Callers, Places, Workers, sharedVars
  <2>3. InBounds'
    BY <1>2, <2>1 DEF TypeInv, TypeOK, InBounds, Spawn, Goto, Busy, Workers
  <2> QED  BY <2>2, <2>3 DEF TypeInv
<1>3. CASE Join
  <2>1. TypeOK'
    BY <1>3 DEF TypeInv, TypeOK, InBounds, Join, Callers, sharedVars, workerVars
  <2>2. InBounds'
    BY <1>3 DEF TypeInv, TypeOK, InBounds, Join, workerVars
  <2> QED  BY <2>1, <2>2 DEF TypeInv
<1>4. CASE WriteBack
  BY <1>4 DEF TypeInv, TypeOK, InBounds, WriteBack, Callers, sharedVars, workerVars
<1> QED  BY <1>1, <1>2, <1>3, <1>4 DEF Caller

(* No step of a worker thread breaks the types. *)
LEMMA TypeInvWorker == ASSUME NEW w \in Workers PROVE TypeInv /\ Worker(w) => TypeInv'
<1> SUFFICES ASSUME TypeInv, Worker(w) PROVE TypeInv'
  OBVIOUS
<1> USE DEF TypeInv, InBounds, At, Goto, callerVars, sharedVars, Busy
<1>1. CASE Connect(w)
  <2>1. TypeOK'
    BY <1>1, MaxRetriesAssumption DEF TypeOK, Connect, Places, Provider, Line
  <2>2. InBounds'
    BY <1>1 DEF TypeOK, Connect
  <2> QED  BY <2>1, <2>2
<1>2. CASE ConnectRetry(w)
  <2>1. TypeOK'
    BY <1>2, MaxRetriesAssumption DEF TypeOK, ConnectRetry, Places, Provider, Line
  <2>2. InBounds'
    BY <1>2 DEF TypeOK, ConnectRetry
  <2> QED  BY <2>1, <2>2
<1>3. CASE ConnectFail(w)
  <2>1. TypeOK'
    BY <1>3, MaxRetriesAssumption DEF TypeOK, ConnectFail, Places, Provider, Line
  <2>2. InBounds'
    BY <1>3 DEF TypeOK, ConnectFail
  <2> QED  BY <2>1, <2>2
<1>4. CASE GetNextJob(w)
  <2>1. Head(jobs[w]) \in Stations /\ Tail(jobs[w]) \in Seq(Stations)
    BY <1>4, ElementsTail DEF GetNextJob, TypeOK
  <2>2. TypeOK'
    BY <1>4, <2>1 DEF TypeOK, GetNextJob, Places, Provider
  <2>3. InBounds'
    BY <1>4, <2>1 DEF TypeOK, GetNextJob
  <2> QED  BY <2>2, <2>3
<1>5. CASE Spin(w)
  BY <1>5 DEF Spin, TypeOK, vars, workerVars
<1>6. CASE Finish(w)
  <2>1. TypeOK'
    BY <1>6, MaxRetriesAssumption DEF TypeOK, Finish, Places, Provider, Line
  <2>2. InBounds'
    BY <1>6 DEF TypeOK, Finish
  <2> QED  BY <2>1, <2>2
<1>7. CASE LookupHit(w)
  <2>1. TypeOK'
    BY <1>7, MaxRetriesAssumption DEF TypeOK, LookupHit, Places, Provider, Line
  <2>2. InBounds'
    BY <1>7 DEF TypeOK, LookupHit
  <2> QED  BY <2>1, <2>2
<1>8. CASE LookupMiss(w)
  <2>1. TypeOK'
    BY <1>8, MaxRetriesAssumption DEF TypeOK, LookupMiss, Places, Provider, Line
  <2>2. InBounds'
    BY <1>8 DEF TypeOK, LookupMiss
  <2> QED  BY <2>1, <2>2
<1>9. CASE AcquireLock(w)
  <2>1. TypeOK'
    BY <1>9, MaxRetriesAssumption DEF TypeOK, AcquireLock, TakeLock, Lock, Places, Provider, Line
  <2>2. InBounds'
    BY <1>9 DEF TypeOK, AcquireLock, TakeLock, Lock
  <2> QED  BY <2>1, <2>2
<1>10. CASE ServeCached(w)
  <2>1. TypeOK'
    BY <1>10, MaxRetriesAssumption DEF TypeOK, ServeCached, Unlock, Places, Provider, Line
  <2>2. InBounds'
    BY <1>10 DEF TypeOK, ServeCached, Unlock
  <2> QED  BY <2>1, <2>2
<1>11. CASE AnswerNotPlotted(w)
  <2>1. TypeOK'
    BY <1>11, MaxRetriesAssumption DEF TypeOK, AnswerNotPlotted, Unlock, Places, Provider, Line
  <2>2. InBounds'
    BY <1>11 DEF TypeOK, AnswerNotPlotted, Unlock
  <2> QED  BY <2>1, <2>2
<1>12. CASE FindProvider(w)
  <2>1. TypeOK'
    BY <1>12, MaxRetriesAssumption DEF TypeOK, FindProvider, Places, Provider, Line
  <2>2. InBounds'
    BY <1>12 DEF TypeOK, FindProvider
  <2> QED  BY <2>1, <2>2
<1>13. CASE PlaceQuery(w)
  <2>1. TypeOK'
    BY <1>13, MaxRetriesAssumption DEF TypeOK, PlaceQuery, Places, Provider, Line
  <2>2. InBounds'
    BY <1>13 DEF TypeOK, PlaceQuery
  <2> QED  BY <2>1, <2>2
<1>14. CASE PlaceQueryFail(w)
  <2>1. TypeOK'
    BY <1>14, MaxRetriesAssumption DEF TypeOK, PlaceQueryFail, Abort, Places, Provider, Line
  <2>2. InBounds'
    BY <1>14 DEF TypeOK, PlaceQueryFail, Abort
  <2> QED  BY <2>1, <2>2
<1>15. CASE Register(w)
  <2>1. TypeOK'
    BY <1>15, MaxRetriesAssumption DEF TypeOK, Register, Unlock, Places, Provider, Line
  <2>2. InBounds'
    BY <1>15 DEF TypeOK, Register, Unlock
  <2> QED  BY <2>1, <2>2
<1>16. CASE DataQueryRows(w)
  <2>1. TypeOK'
    BY <1>16, MaxRetriesAssumption DEF TypeOK, DataQueryRows, Places, Provider, Line
  <2>2. InBounds'
    BY <1>16 DEF TypeOK, DataQueryRows
  <2> QED  BY <2>1, <2>2
<1>17. CASE DataQueryNoRows(w)
  <2>1. TypeOK'
    BY <1>17, MaxRetriesAssumption DEF TypeOK, DataQueryNoRows, Places, Provider, Line
  <2>2. InBounds'
    BY <1>17 DEF TypeOK, DataQueryNoRows
  <2> QED  BY <2>1, <2>2
<1>18. CASE DataQueryFail(w)
  <2>1. TypeOK'
    BY <1>18, MaxRetriesAssumption DEF TypeOK, DataQueryFail, Abort, Places, Provider, Line
  <2>2. InBounds'
    BY <1>18 DEF TypeOK, DataQueryFail, Abort
  <2> QED  BY <2>1, <2>2
<1>19. CASE DataQueryTorn(w)
  <2>1. TypeOK'
    BY <1>19, MaxRetriesAssumption DEF TypeOK, DataQueryTorn, Abort, Places, Provider, Line
  <2>2. InBounds'
    BY <1>19 DEF TypeOK, DataQueryTorn, Abort
  <2> QED  BY <2>1, <2>2
<1>20. CASE ConvertRows(w)
  <2>1. TypeOK'
    BY <1>20, MaxRetriesAssumption DEF TypeOK, ConvertRows, Places, Provider, Line
  <2>2. InBounds'
    BY <1>20 DEF TypeOK, ConvertRows
  <2> QED  BY <2>1, <2>2
<1>21. CASE ConvertRowsFail(w)
  <2>1. TypeOK'
    BY <1>21, MaxRetriesAssumption DEF TypeOK, ConvertRowsFail, Abort, Places, Provider, Line
  <2>2. InBounds'
    BY <1>21 DEF TypeOK, ConvertRowsFail, Abort
  <2> QED  BY <2>1, <2>2
<1>22. CASE Answer(w)
  <2>1. TypeOK'
    BY <1>22, MaxRetriesAssumption DEF TypeOK, Answer, Unlock, Places, Provider, Line
  <2>2. InBounds'
    BY <1>22 DEF TypeOK, Answer, Unlock
  <2> QED  BY <2>1, <2>2
<1> QED
  BY <1>1, <1>2, <1>3, <1>4, <1>5, <1>6, <1>7, <1>8, <1>9, <1>10, <1>11, <1>12, <1>13, <1>14, <1>15, <1>16, <1>17, <1>18, <1>19, <1>20, <1>21, <1>22 DEF Worker

(* Hence no step of the system does. *)
LEMMA TypeInvStep == TypeInv /\ [Next]_vars => TypeInv'
<1>1. TypeInv /\ UNCHANGED vars => TypeInv'
  BY DEF TypeInv, TypeOK, InBounds, vars, callerVars, workerVars, sharedVars
<1> QED
  BY <1>1, TypeInvCaller, TypeInvWorker DEF Next, Returned

(* The types and the bounds of the loops always hold. *)
LEMMA TypeInvariant == Spec => []TypeInv
BY TypeInvInit, TypeInvStep, PTL DEF Spec

(* Every variable always holds what the code can put there: the round robin *)
(* never leaves the pool, every queue holds ids of stations, no worker      *)
(* retries more often than allowed.                                        *)
THEOREM TypeCorrect == Spec => []TypeOK
<1>1. TypeInv => TypeOK
  BY DEF TypeInv
<1> QED  BY <1>1, TypeInvariant, PTL

-----------------------------------------------------------------------------
(* Control: the threads' life, the mutex, and the connections. *)

(* How far the caller is tells which threads run. *)
Phases ==
  /\ main = "assign" => \A w \in Workers : At(w, "notStarted")
  /\ main = "spawn" => \A w \in Workers : At(w, "notStarted") <=> w > k
  /\ main \notin {"assign", "spawn"} => \A w \in Workers : ~At(w, "notStarted")
  /\ main = "join" => \A w \in Workers : w <= k => At(w, "exited")
  /\ main \in {"writeback", "returned"} => \A w \in Workers : At(w, "exited")

(* The mutex is held by the worker inside a locked scope. *)
MutexHeld == \A w \in Workers : pc[w] \in Locked <=> outMutex = w

(* A worker fails by ending, and ends with jobs left only by failing. *)
Ends ==
  \A w \in Workers :
    /\ w \in failed => At(w, "exited")
    /\ At(w, "exited") /\ w \notin failed => jobs[w] = <<>>
    /\ pc[w] \in {"notStarted", "connect", "exited"} => ~conn[w]

(* A worker that found a cached line still finds it. *)
HitIsCached ==
  \A w \in Workers : pc[w] \in {"hit", "hitLocked"} => tmp_data[job[w]] # NoLine

Control == Phases /\ MutexHeld /\ Ends /\ HitIsCached

(* No thread runs and the mutex is free when the call begins. *)
LEMMA ControlInit == Init => Control
<1> SUFFICES ASSUME Init PROVE Control
  OBVIOUS
<1>1. Phases
  BY DEF Init, Phases, At
<1>2. MutexHeld
  BY DEF Init, MutexHeld, Locked, Free, Workers
<1>3. Ends
  BY DEF Init, Ends, At
<1>4. HitIsCached
  BY DEF Init, HitIsCached
<1> QED  BY <1>1, <1>2, <1>3, <1>4 DEF Control

(* Starting and joining the threads keeps the control invariant. *)
LEMMA ControlCaller == TypeInv /\ Control /\ Caller => Control'
<1> SUFFICES ASSUME TypeInv, Control, Caller PROVE Control'
  OBVIOUS
<1> USE DEF Control, At, Goto
<1>1. CASE AddJob
  <2>1. Slot(j) + 1 \in Workers
    BY SlotIsWorker DEF TypeInv, TypeOK
  <2>2. Phases'
    BY <1>1, PoolSizeAssumption DEF TypeInv, TypeOK, InBounds, AddJob, Phases, Workers
  <2>3. MutexHeld'
    BY <1>1 DEF AddJob, MutexHeld, sharedVars
  <2>4. Ends'
    BY <1>1 DEF AddJob, Ends, Phases
  <2>5. HitIsCached'
    BY <1>1 DEF AddJob, HitIsCached, sharedVars
  <2> QED  BY <2>2, <2>3, <2>4, <2>5
<1>2. CASE Spawn
  <2>1. k + 1 \in Workers /\ pc[k + 1] = "notStarted"
    BY <1>2, PoolSizeAssumption DEF TypeInv, TypeOK, InBounds, Spawn, Workers, Phases
  <2>2. Phases'
    BY <1>2, <2>1, PoolSizeAssumption DEF TypeInv, TypeOK, InBounds, Spawn, Phases, Workers
  <2>3. MutexHeld'
    BY <1>2, <2>1 DEF TypeInv, TypeOK, Spawn, MutexHeld, Locked, sharedVars
  <2>4. Ends'
    BY <1>2, <2>1 DEF TypeInv, TypeOK, Spawn, Ends
  <2>5. HitIsCached'
    BY <1>2, <2>1 DEF TypeInv, TypeOK, Spawn, HitIsCached, sharedVars
  <2> QED  BY <2>2, <2>3, <2>4, <2>5
<1>3. CASE Join
  <2>1. Phases'
    BY <1>3, PoolSizeAssumption DEF TypeInv, TypeOK, InBounds, Join, Phases, Workers, workerVars
  <2>2. MutexHeld' /\ Ends' /\ HitIsCached'
    BY <1>3 DEF Join, MutexHeld, Ends, HitIsCached, workerVars, sharedVars
  <2> QED  BY <2>1, <2>2
<1>4. CASE WriteBack
  BY <1>4 DEF WriteBack, Phases, MutexHeld, Ends, HitIsCached, workerVars, sharedVars
<1> QED  BY <1>1, <1>2, <1>3, <1>4 DEF Caller

(* Every step of a worker keeps the control invariant. *)
LEMMA ControlWorker ==
  ASSUME NEW w \in Workers PROVE TypeInv /\ Control /\ Worker(w) => Control'
<1> SUFFICES ASSUME TypeInv, Control, Worker(w) PROVE Control'
  OBVIOUS
<1>1. pc \in [Workers -> Places] /\ Free \notin Workers
  BY DEF TypeInv, TypeOK, Free, Workers
<1> USE DEF Control, At, Goto, callerVars, sharedVars, workerVars
<1>2. CASE Connect(w)
  <2>1. Phases'
    BY <1>1, <1>2 DEF Connect, Phases
  <2>2. MutexHeld'
    BY <1>1, <1>2 DEF Connect, MutexHeld, Locked
  <2>3. Ends'
    BY <1>1, <1>2 DEF Connect, Ends, TypeInv, TypeOK
  <2>4. HitIsCached'
    BY <1>1, <1>2 DEF Connect, HitIsCached, TypeInv, TypeOK, NoLine
  <2> QED  BY <2>1, <2>2, <2>3, <2>4
<1>3. CASE ConnectRetry(w)
  <2>1. Phases'
    BY <1>1, <1>3 DEF ConnectRetry, Phases
  <2>2. MutexHeld'
    BY <1>1, <1>3 DEF ConnectRetry, MutexHeld, Locked
  <2>3. Ends'
    BY <1>1, <1>3 DEF ConnectRetry, Ends, TypeInv, TypeOK
  <2>4. HitIsCached'
    BY <1>1, <1>3 DEF ConnectRetry, HitIsCached, TypeInv, TypeOK, NoLine
  <2> QED  BY <2>1, <2>2, <2>3, <2>4
<1>4. CASE ConnectFail(w)
  <2>1. Phases'
    BY <1>1, <1>4 DEF ConnectFail, Phases
  <2>2. MutexHeld'
    BY <1>1, <1>4 DEF ConnectFail, MutexHeld, Locked
  <2>3. Ends'
    BY <1>1, <1>4 DEF ConnectFail, Ends, TypeInv, TypeOK
  <2>4. HitIsCached'
    BY <1>1, <1>4 DEF ConnectFail, HitIsCached, TypeInv, TypeOK, NoLine
  <2> QED  BY <2>1, <2>2, <2>3, <2>4
<1>5. CASE GetNextJob(w)
  <2>1. Phases'
    BY <1>1, <1>5 DEF GetNextJob, Phases
  <2>2. MutexHeld'
    BY <1>1, <1>5 DEF GetNextJob, MutexHeld, Locked
  <2>3. Ends'
    BY <1>1, <1>5 DEF GetNextJob, Ends, TypeInv, TypeOK
  <2>4. HitIsCached'
    BY <1>1, <1>5 DEF GetNextJob, HitIsCached, TypeInv, TypeOK, NoLine
  <2> QED  BY <2>1, <2>2, <2>3, <2>4
<1>6. CASE Spin(w)
  BY <1>6 DEF Spin, Phases, MutexHeld, Ends, HitIsCached, vars
<1>7. CASE Finish(w)
  <2>1. Phases'
    BY <1>1, <1>7 DEF Finish, Phases
  <2>2. MutexHeld'
    BY <1>1, <1>7 DEF Finish, MutexHeld, Locked
  <2>3. Ends'
    BY <1>1, <1>7 DEF Finish, Ends, TypeInv, TypeOK
  <2>4. HitIsCached'
    BY <1>1, <1>7 DEF Finish, HitIsCached, TypeInv, TypeOK, NoLine
  <2> QED  BY <2>1, <2>2, <2>3, <2>4
<1>8. CASE LookupHit(w)
  <2>1. Phases'
    BY <1>1, <1>8 DEF LookupHit, Phases
  <2>2. MutexHeld'
    BY <1>1, <1>8 DEF LookupHit, MutexHeld, Locked
  <2>3. Ends'
    BY <1>1, <1>8 DEF LookupHit, Ends, TypeInv, TypeOK
  <2>4. HitIsCached'
    BY <1>1, <1>8 DEF LookupHit, HitIsCached, TypeInv, TypeOK, NoLine
  <2> QED  BY <2>1, <2>2, <2>3, <2>4
<1>9. CASE LookupMiss(w)
  <2>1. Phases'
    BY <1>1, <1>9 DEF LookupMiss, Phases
  <2>2. MutexHeld'
    BY <1>1, <1>9 DEF LookupMiss, MutexHeld, Locked
  <2>3. Ends'
    BY <1>1, <1>9 DEF LookupMiss, Ends, TypeInv, TypeOK
  <2>4. HitIsCached'
    BY <1>1, <1>9 DEF LookupMiss, HitIsCached, TypeInv, TypeOK, NoLine
  <2> QED  BY <2>1, <2>2, <2>3, <2>4
<1>10. CASE AcquireLock(w)
  <2>1. Phases'
    BY <1>1, <1>10 DEF AcquireLock, TakeLock, Lock, Phases
  <2>2. MutexHeld'
    BY <1>1, <1>10 DEF AcquireLock, TakeLock, Lock, MutexHeld, Locked
  <2>3. Ends'
    BY <1>1, <1>10 DEF AcquireLock, TakeLock, Lock, Ends, TypeInv, TypeOK
  <2>4. HitIsCached'
    BY <1>1, <1>10 DEF AcquireLock, TakeLock, Lock, HitIsCached, TypeInv, TypeOK, NoLine
  <2> QED  BY <2>1, <2>2, <2>3, <2>4
<1>11. CASE ServeCached(w)
  <2>1. Phases'
    BY <1>1, <1>11 DEF ServeCached, Unlock, Phases
  <2>2. MutexHeld'
    BY <1>1, <1>11 DEF ServeCached, Unlock, MutexHeld, Locked
  <2>3. Ends'
    BY <1>1, <1>11 DEF ServeCached, Unlock, Ends, TypeInv, TypeOK
  <2>4. HitIsCached'
    BY <1>1, <1>11 DEF ServeCached, Unlock, HitIsCached, TypeInv, TypeOK, NoLine
  <2> QED  BY <2>1, <2>2, <2>3, <2>4
<1>12. CASE AnswerNotPlotted(w)
  <2>1. Phases'
    BY <1>1, <1>12 DEF AnswerNotPlotted, Unlock, Phases
  <2>2. MutexHeld'
    BY <1>1, <1>12 DEF AnswerNotPlotted, Unlock, MutexHeld, Locked
  <2>3. Ends'
    BY <1>1, <1>12 DEF AnswerNotPlotted, Unlock, Ends, TypeInv, TypeOK
  <2>4. HitIsCached'
    BY <1>1, <1>12 DEF AnswerNotPlotted, Unlock, HitIsCached, TypeInv, TypeOK, NoLine
  <2> QED  BY <2>1, <2>2, <2>3, <2>4
<1>13. CASE FindProvider(w)
  <2>1. Phases'
    BY <1>1, <1>13 DEF FindProvider, Phases
  <2>2. MutexHeld'
    BY <1>1, <1>13 DEF FindProvider, MutexHeld, Locked
  <2>3. Ends'
    BY <1>1, <1>13 DEF FindProvider, Ends, TypeInv, TypeOK
  <2>4. HitIsCached'
    BY <1>1, <1>13 DEF FindProvider, HitIsCached, TypeInv, TypeOK, NoLine
  <2> QED  BY <2>1, <2>2, <2>3, <2>4
<1>14. CASE PlaceQuery(w)
  <2>1. Phases'
    BY <1>1, <1>14 DEF PlaceQuery, Phases
  <2>2. MutexHeld'
    BY <1>1, <1>14 DEF PlaceQuery, MutexHeld, Locked
  <2>3. Ends'
    BY <1>1, <1>14 DEF PlaceQuery, Ends, TypeInv, TypeOK
  <2>4. HitIsCached'
    BY <1>1, <1>14 DEF PlaceQuery, HitIsCached, TypeInv, TypeOK, NoLine
  <2> QED  BY <2>1, <2>2, <2>3, <2>4
<1>15. CASE PlaceQueryFail(w)
  <2>1. Phases'
    BY <1>1, <1>15 DEF PlaceQueryFail, Abort, Phases
  <2>2. MutexHeld'
    BY <1>1, <1>15 DEF PlaceQueryFail, Abort, MutexHeld, Locked
  <2>3. Ends'
    BY <1>1, <1>15 DEF PlaceQueryFail, Abort, Ends, TypeInv, TypeOK
  <2>4. HitIsCached'
    BY <1>1, <1>15 DEF PlaceQueryFail, Abort, HitIsCached, TypeInv, TypeOK, NoLine
  <2> QED  BY <2>1, <2>2, <2>3, <2>4
<1>16. CASE Register(w)
  <2>1. Phases'
    BY <1>1, <1>16 DEF Register, Unlock, Phases
  <2>2. MutexHeld'
    BY <1>1, <1>16 DEF Register, Unlock, MutexHeld, Locked
  <2>3. Ends'
    BY <1>1, <1>16 DEF Register, Unlock, Ends, TypeInv, TypeOK
  <2>4. HitIsCached'
    BY <1>1, <1>16 DEF Register, Unlock, HitIsCached, TypeInv, TypeOK, NoLine
  <2> QED  BY <2>1, <2>2, <2>3, <2>4
<1>17. CASE DataQueryRows(w)
  <2>1. Phases'
    BY <1>1, <1>17 DEF DataQueryRows, Phases
  <2>2. MutexHeld'
    BY <1>1, <1>17 DEF DataQueryRows, MutexHeld, Locked
  <2>3. Ends'
    BY <1>1, <1>17 DEF DataQueryRows, Ends, TypeInv, TypeOK
  <2>4. HitIsCached'
    BY <1>1, <1>17 DEF DataQueryRows, HitIsCached, TypeInv, TypeOK, NoLine
  <2> QED  BY <2>1, <2>2, <2>3, <2>4
<1>18. CASE DataQueryNoRows(w)
  <2>1. Phases'
    BY <1>1, <1>18 DEF DataQueryNoRows, Phases
  <2>2. MutexHeld'
    BY <1>1, <1>18 DEF DataQueryNoRows, MutexHeld, Locked
  <2>3. Ends'
    BY <1>1, <1>18 DEF DataQueryNoRows, Ends, TypeInv, TypeOK
  <2>4. HitIsCached'
    BY <1>1, <1>18 DEF DataQueryNoRows, HitIsCached, TypeInv, TypeOK, NoLine
  <2> QED  BY <2>1, <2>2, <2>3, <2>4
<1>19. CASE DataQueryFail(w)
  <2>1. Phases'
    BY <1>1, <1>19 DEF DataQueryFail, Abort, Phases
  <2>2. MutexHeld'
    BY <1>1, <1>19 DEF DataQueryFail, Abort, MutexHeld, Locked
  <2>3. Ends'
    BY <1>1, <1>19 DEF DataQueryFail, Abort, Ends, TypeInv, TypeOK
  <2>4. HitIsCached'
    BY <1>1, <1>19 DEF DataQueryFail, Abort, HitIsCached, TypeInv, TypeOK, NoLine
  <2> QED  BY <2>1, <2>2, <2>3, <2>4
<1>20. CASE DataQueryTorn(w)
  <2>1. Phases'
    BY <1>1, <1>20 DEF DataQueryTorn, Abort, Phases
  <2>2. MutexHeld'
    BY <1>1, <1>20 DEF DataQueryTorn, Abort, MutexHeld, Locked
  <2>3. Ends'
    BY <1>1, <1>20 DEF DataQueryTorn, Abort, Ends, TypeInv, TypeOK
  <2>4. HitIsCached'
    BY <1>1, <1>20 DEF DataQueryTorn, Abort, HitIsCached, TypeInv, TypeOK, NoLine
  <2> QED  BY <2>1, <2>2, <2>3, <2>4
<1>21. CASE ConvertRows(w)
  <2>1. Phases'
    BY <1>1, <1>21 DEF ConvertRows, Phases
  <2>2. MutexHeld'
    BY <1>1, <1>21 DEF ConvertRows, MutexHeld, Locked
  <2>3. Ends'
    BY <1>1, <1>21 DEF ConvertRows, Ends, TypeInv, TypeOK
  <2>4. HitIsCached'
    BY <1>1, <1>21 DEF ConvertRows, HitIsCached, TypeInv, TypeOK, NoLine
  <2> QED  BY <2>1, <2>2, <2>3, <2>4
<1>22. CASE ConvertRowsFail(w)
  <2>1. Phases'
    BY <1>1, <1>22 DEF ConvertRowsFail, Abort, Phases
  <2>2. MutexHeld'
    BY <1>1, <1>22 DEF ConvertRowsFail, Abort, MutexHeld, Locked
  <2>3. Ends'
    BY <1>1, <1>22 DEF ConvertRowsFail, Abort, Ends, TypeInv, TypeOK
  <2>4. HitIsCached'
    BY <1>1, <1>22 DEF ConvertRowsFail, Abort, HitIsCached, TypeInv, TypeOK, NoLine
  <2> QED  BY <2>1, <2>2, <2>3, <2>4
<1>23. CASE Answer(w)
  <2>1. Phases'
    BY <1>1, <1>23 DEF Answer, Unlock, Phases
  <2>2. MutexHeld'
    BY <1>1, <1>23 DEF Answer, Unlock, MutexHeld, Locked
  <2>3. Ends'
    BY <1>1, <1>23 DEF Answer, Unlock, Ends, TypeInv, TypeOK
  <2>4. HitIsCached'
    <3>1. \A t \in Stations : tmp_data[t] # NoLine => tmp_data'[t] # NoLine
      BY <1>23 DEF Answer, NoLine, TypeInv, TypeOK
    <3>2. \A v \in Workers : pc'[v] \in {"hit", "hitLocked"} => pc[v] \in {"hit", "hitLocked"}
      BY <1>1, <1>23 DEF Answer
    <3>3. \A v \in Workers : pc[v] \in {"hit", "hitLocked"} => job[v] \in Stations
      BY DEF TypeInv, InBounds, Busy
    <3> QED  BY <1>23, <3>1, <3>2, <3>3 DEF Answer, HitIsCached
  <2> QED  BY <2>1, <2>2, <2>3, <2>4
<1> QED
  BY <1>2, <1>3, <1>4, <1>5, <1>6, <1>7, <1>8, <1>9, <1>10, <1>11, <1>12, <1>13, <1>14, <1>15, <1>16, <1>17, <1>18, <1>19, <1>20, <1>21, <1>22, <1>23 DEF Worker

-----------------------------------------------------------------------------
(* Jobs: every station is at one place at most, and unanswered there. *)

(* No job is twice in a queue. *)
NoDuplicates(q) == \A m, n \in 1 .. Len(q) : q[m] = q[n] => m = n

(* Appending a new job makes no duplicate. *)
LEMMA NoDuplicatesAppend ==
  ASSUME NEW S, NEW q \in Seq(S), NEW e \in S, NoDuplicates(q), e \notin Elements(q)
  PROVE  NoDuplicates(Append(q, e))
<1>1. /\ Len(Append(q, e)) = Len(q) + 1 /\ Len(q) \in Nat
      /\ \A n \in 1 .. Len(q) : Append(q, e)[n] = q[n]
      /\ Append(q, e)[Len(q) + 1] = e
  OBVIOUS
<1>2. \A n \in 1 .. Len(q) : q[n] # e
  BY DEF Elements
<1> SUFFICES ASSUME NEW m \in 1 .. Len(q) + 1, NEW n \in 1 .. Len(q) + 1,
                    Append(q, e)[m] = Append(q, e)[n]
             PROVE  m = n
  BY <1>1 DEF NoDuplicates
<1>3. CASE m = Len(q) + 1
  BY <1>1, <1>2, <1>3
<1>4. CASE n = Len(q) + 1
  BY <1>1, <1>2, <1>4
<1>5. CASE m # Len(q) + 1 /\ n # Len(q) + 1
  BY <1>1, <1>5 DEF NoDuplicates
<1> QED  BY <1>3, <1>4, <1>5

(* The first job of a queue is not in the rest of it. *)
LEMMA NoDuplicatesTail ==
  ASSUME NEW S, NEW q \in Seq(S), q # <<>>, NoDuplicates(q)
  PROVE  NoDuplicates(Tail(q)) /\ Head(q) \notin Elements(Tail(q))
<1>1. /\ Len(q) \in Nat \ {0} /\ Head(q) = q[1] /\ Len(Tail(q)) = Len(q) - 1
      /\ \A n \in 1 .. Len(q) - 1 : Tail(q)[n] = q[n + 1]
  OBVIOUS
<1>2. NoDuplicates(Tail(q))
  <2> SUFFICES ASSUME NEW m \in 1 .. Len(q) - 1, NEW n \in 1 .. Len(q) - 1,
                      q[m + 1] = q[n + 1]
               PROVE  m = n
    BY <1>1 DEF NoDuplicates
  <2>1. m + 1 = n + 1
    BY <1>1 DEF NoDuplicates
  <2> QED  BY <2>1
<1>3. Head(q) \notin Elements(Tail(q))
  <2> SUFFICES ASSUME NEW n \in 1 .. Len(q) - 1, q[n + 1] = q[1] PROVE FALSE
    BY <1>1 DEF Elements
  <2>1. n + 1 = 1
    BY <1>1 DEF NoDuplicates
  <2> QED  BY <2>1
<1> QED  BY <1>2, <1>3

(* A pending station was handed out and has no line yet. *)
PendingUnanswered ==
  /\ \A w \in Workers : \A s \in Pending(w) : s \in 1 .. i /\ lines[s] = NoLine
  /\ main = "assign" => \A s \in Stations : lines[s] = NoLine

(* No station is pending twice. *)
PendingOnce ==
  /\ \A w \in Workers : NoDuplicates(jobs[w]) /\ Held(w) \cap Elements(jobs[w]) = {}
  /\ \A v, w \in Workers : v # w => Pending(v) \cap Pending(w) = {}

Queues == PendingUnanswered /\ PendingOnce /\ NoJobLost

(* Nothing is handed out when the call begins. *)
LEMMA QueuesInit == Init => Queues
<1> SUFFICES ASSUME Init PROVE Queues
  OBVIOUS
<1>1. \A w \in Workers : Elements(jobs[w]) = {} /\ Held(w) = {}
  BY DEF Init, Elements, Held, Busy
<1>2. \A w \in Workers : NoDuplicates(jobs[w])
  BY DEF Init, NoDuplicates
<1>3. NoJobLost
  BY DEF Init, NoJobLost
<1>4. main = "assign" => \A s \in Stations : lines[s] = NoLine
  BY DEF Init
<1> QED
  BY <1>1, <1>2, <1>3, <1>4 DEF Queues, PendingUnanswered, PendingOnce, Pending

(* A step that moves no job and writes no line, and in which every held job *)
(* stays held or is abandoned, keeps the queues in order.                  *)
LEMMA QueuesQuiet ==
  ASSUME Queues, UNCHANGED <<i, jobs, job, lines>>,
         main' = "assign" => main = "assign",
         \A w \in Workers : Held(w)' \subseteq Held(w),
         \A w \in Workers : Held(w) \cup AbandonedBy(w)
                             \subseteq Pending(w)' \cup AbandonedBy(w)'
  PROVE  Queues'
<1>1. \A w \in Workers : Elements(jobs[w])' = Elements(jobs[w])
  OBVIOUS
<1>2. \A w \in Workers : Pending(w)' \subseteq Pending(w)
  BY <1>1 DEF Pending
<1>3. PendingUnanswered'
  BY <1>2 DEF Queues, PendingUnanswered
<1>4. PendingOnce'
  BY <1>1, <1>2 DEF Queues, PendingOnce
<1>5. \A w \in Workers : Pending(w) \cup AbandonedBy(w)
                          \subseteq Pending(w)' \cup AbandonedBy(w)'
  BY <1>1 DEF Pending
<1>6. NoJobLost'
  BY <1>5 DEF Queues, NoJobLost
<1> QED  BY <1>3, <1>4, <1>6 DEF Queues

(* The caller hands every station out once, before any worker runs. *)
LEMMA QueuesCaller == TypeInv /\ Control /\ Queues /\ Caller => Queues'
<1> SUFFICES ASSUME TypeInv, Control, Queues, Caller PROVE Queues'
  OBVIOUS
<1> USE DEF At, Goto
<1>1. CASE AddJob
  <2> DEFINE u == Slot(j) + 1
             s == i + 1
  <2>1. u \in Workers /\ s \in Stations /\ i \in Nat /\ jobs \in [Workers -> Seq(Stations)]
    BY <1>1, SlotIsWorker, NumStationsAssumption
    DEF AddJob, TypeInv, TypeOK, InBounds, Stations
  <2>2. /\ jobs' = [jobs EXCEPT ![u] = Append(@, s)] /\ i' = s
        /\ UNCHANGED <<pc, job, lines, failed>>
    BY <1>1 DEF AddJob, sharedVars
  <2>3. \A w \in Workers : Held(w) = {} /\ Held(w)' = {}
    BY <1>1, <2>2 DEF AddJob, Control, Phases, Held, Busy
  <2>4. \A w \in Workers : jobs'[w] = IF w = u THEN Append(jobs[u], s) ELSE jobs[w]
    BY <2>1, <2>2
  <2>5. Elements(jobs'[u]) = Elements(jobs[u]) \cup {s}
    BY <2>1, <2>4, ElementsAppend
  <2>6. \A w \in Workers : Pending(w) = Elements(jobs[w]) /\ Pending(w)' = Elements(jobs'[w])
    BY <2>3 DEF Pending
  <2>7. \A w \in Workers : s \notin Elements(jobs[w])
    BY <2>1, <2>6 DEF Queues, PendingUnanswered
  <2>8. \A x \in Stations : lines[x] = NoLine
    BY <1>1 DEF AddJob, Queues, PendingUnanswered
  <2>9. PendingUnanswered'
    <3>1. \A w \in Workers : \A x \in Elements(jobs'[w]) :
            x = s \/ (x \in 1 .. i /\ lines[x] = NoLine)
      BY <2>4, <2>5, <2>6 DEF Queues, PendingUnanswered
    <3> QED  BY <3>1, <2>1, <2>2, <2>6, <2>8 DEF PendingUnanswered
  <2>10. PendingOnce'
    <3>1. NoDuplicates(jobs'[u])
      BY <2>1, <2>4, <2>7, NoDuplicatesAppend DEF Queues, PendingOnce
    <3> QED  BY <3>1, <2>3, <2>4, <2>5, <2>6, <2>7 DEF Queues, PendingOnce
  <2>11. NoJobLost'
    <3> SUFFICES ASSUME NEW x \in 1 .. s
                 PROVE  \E w \in Workers : x \in Pending(w)'
      BY <2>1, <2>2 DEF NoJobLost
    <3>1. CASE x = s
      BY <3>1, <2>1, <2>5, <2>6
    <3>2. CASE x # s
      <4>1. x \in 1 .. i /\ x \in Stations
        BY <3>2, <2>1, NumStationsAssumption DEF Stations
      <4>2. \A w \in Workers : AbandonedBy(w) = {}
        BY <1>1 DEF AddJob, Control, Phases, Ends, AbandonedBy
      <4>3. PICK w \in Workers : x \in Pending(w)
        BY <4>1, <4>2, <2>8 DEF Queues, NoJobLost
      <4> QED  BY <4>3, <2>4, <2>5, <2>6
    <3> QED  BY <3>1, <3>2
  <2> QED  BY <2>9, <2>10, <2>11 DEF Queues
<1>2. CASE Spawn
  <2>1. k + 1 \in Workers /\ pc[k + 1] = "notStarted"
    BY <1>2, PoolSizeAssumption DEF TypeInv, TypeOK, InBounds, Spawn, Workers, Control, Phases
  <2>2. \A w \in Workers : Held(w)' = Held(w)
    BY <1>2, <2>1 DEF TypeInv, TypeOK, Spawn, Held, Busy
  <2> QED
    BY <1>2, <2>2, QueuesQuiet DEF Spawn, AbandonedBy, Pending, sharedVars
<1>3. CASE Join
  BY <1>3, QueuesQuiet DEF Join, Held, AbandonedBy, Pending, workerVars, sharedVars
<1>4. CASE WriteBack
  BY <1>4, QueuesQuiet DEF WriteBack, Held, AbandonedBy, Pending, workerVars, sharedVars
<1> QED  BY <1>1, <1>2, <1>3, <1>4 DEF Caller

(* Answering the held job keeps the queues in order. *)
LEMMA QueuesAnswer ==
  ASSUME NEW w \in Workers, NEW line, TypeInv, Control, Queues, pc[w] \in Busy,
         line # NoLine, lines' = [lines EXCEPT ![job[w]] = line],
         pc' = [pc EXCEPT ![w] = "tail"],
         UNCHANGED <<main, i, jobs, job, failed>>
  PROVE  Queues'
<1>1. /\ job[w] \in Stations /\ lines \in [Stations -> Line \cup {NoLine}]
      /\ pc \in [Workers -> Places]
  BY DEF TypeInv, TypeOK, InBounds
<1>2. \A v \in Workers : Elements(jobs[v])' = Elements(jobs[v])
  OBVIOUS
<1>3. \A v \in Workers : Held(v)' = IF v = w THEN {} ELSE Held(v)
  BY <1>1 DEF Held, Busy
<1>4. \A v \in Workers : Pending(v)' \subseteq Pending(v) /\ job[w] \notin Pending(v)'
  <2>1. Held(w) = {job[w]} /\ job[w] \notin Elements(jobs[w])
    BY DEF Held, Queues, PendingOnce
  <2> QED  BY <1>2, <1>3, <2>1 DEF Pending, Queues, PendingOnce
<1>5. PendingUnanswered'
  <2>1. \A v \in Workers : \A s \in Pending(v)' : s \in 1 .. i /\ lines'[s] = NoLine
    BY <1>1, <1>4 DEF Queues, PendingUnanswered
  <2>2. main # "assign"
    BY DEF Control, Phases, At, Busy
  <2> QED  BY <2>1, <2>2 DEF PendingUnanswered
<1>6. PendingOnce'
  BY <1>2, <1>3, <1>4 DEF Queues, PendingOnce
<1>7. NoJobLost'
  <2> SUFFICES ASSUME NEW s \in 1 .. i, s # job[w], lines[s] = NoLine
               PROVE  \E v \in Workers : s \in Pending(v)' \cup AbandonedBy(v)'
    BY <1>1 DEF NoJobLost
  <2>1. PICK v \in Workers : s \in Pending(v) \cup AbandonedBy(v)
    BY DEF Queues, NoJobLost
  <2>2. s \in Pending(v)' \cup AbandonedBy(v)'
    BY <1>2, <1>3, <2>1 DEF Pending, Held, AbandonedBy
  <2> QED  BY <2>2
<1> QED  BY <1>5, <1>6, <1>7 DEF Queues

(* Every step of a worker keeps the queues in order. *)
LEMMA QueuesWorker ==
  ASSUME NEW w \in Workers PROVE TypeInv /\ Control /\ Queues /\ Worker(w) => Queues'
<1> SUFFICES ASSUME TypeInv, Control, Queues, Worker(w) PROVE Queues'
  OBVIOUS
<1> USE DEF At, Goto, callerVars, sharedVars
<1>1. pc \in [Workers -> Places] /\ job[w] \in Stations \cup {0}
  BY DEF TypeInv, TypeOK
<1>2. CASE GetNextJob(w)
  <2> DEFINE q == jobs[w]
             s == Head(q)
  <2>1. /\ pc[w] = "loop" /\ q # <<>> /\ UNCHANGED <<main, i, lines, failed>>
        /\ pc' = [pc EXCEPT ![w] = "lookup"] /\ job' = [job EXCEPT ![w] = s]
        /\ jobs' = [jobs EXCEPT ![w] = Tail(q)]
        /\ jobs \in [Workers -> Seq(Stations)] /\ job \in [Workers -> Stations \cup {0}]
    BY <1>2 DEF GetNextJob, TypeInv, TypeOK
  <2>2. /\ Elements(q) = {s} \cup Elements(Tail(q))
        /\ NoDuplicates(Tail(q)) /\ s \notin Elements(Tail(q))
    BY <2>1, ElementsTail, NoDuplicatesTail DEF Queues, PendingOnce
  <2>3. /\ Held(w) = {} /\ Held(w)' = {s} /\ Elements(jobs[w])' = Elements(Tail(q))
        /\ \A v \in Workers \ {w} : /\ Held(v)' = Held(v)
                                   /\ Elements(jobs[v])' = Elements(jobs[v])
                                   /\ NoDuplicates(jobs[v])' = NoDuplicates(jobs[v])
    BY <1>1, <2>1 DEF Held, Busy
  <2>4. \A v \in Workers : Pending(v)' = Pending(v)
    BY <2>2, <2>3 DEF Pending
  <2>5. PendingUnanswered'
    BY <2>1, <2>4 DEF Queues, PendingUnanswered
  <2>6. PendingOnce'
    <3>1. NoDuplicates(jobs[w])' /\ Held(w)' \cap Elements(jobs[w])' = {}
      BY <2>1, <2>2, <2>3
    <3> QED  BY <2>3, <2>4, <3>1 DEF Queues, PendingOnce
  <2>7. \A v \in Workers : AbandonedBy(v) \subseteq AbandonedBy(v)'
    BY <1>1, <2>1, <2>3 DEF AbandonedBy, Control, Ends
  <2>8. NoJobLost'
    BY <2>1, <2>4, <2>7 DEF Queues, NoJobLost
  <2> QED  BY <2>5, <2>6, <2>8 DEF Queues
<1>3. CASE ServeCached(w)
  <2>1. tmp_data[job[w]] # NoLine
    BY <1>3 DEF ServeCached, Control, HitIsCached
  <2> QED  BY <1>3, <2>1, QueuesAnswer DEF ServeCached, Busy
<1>4. CASE AnswerNotPlotted(w)
  <2>1. "notplotted" # NoLine
    BY DEF NoLine
  <2> QED  BY <1>4, <2>1, QueuesAnswer DEF AnswerNotPlotted, Busy
<1>5. CASE Answer(w)
  <2>1. "rows" # NoLine /\ "norows" # NoLine
    BY DEF NoLine
  <2> QED  BY <1>5, <2>1, QueuesAnswer DEF Answer, Busy
<1>6. CASE Connect(w)
  BY <1>1, <1>6, QueuesQuiet DEF Connect, Held, Pending, AbandonedBy, Busy
<1>7. CASE ConnectRetry(w)
  BY <1>1, <1>7, QueuesQuiet DEF ConnectRetry, Held, Pending, AbandonedBy, Busy
<1>8. CASE ConnectFail(w)
  BY <1>1, <1>8, QueuesQuiet DEF ConnectFail, Held, Pending, AbandonedBy, Busy
<1>9. CASE Finish(w)
  BY <1>1, <1>9, QueuesQuiet DEF Finish, Held, Pending, AbandonedBy, Busy
<1>10. CASE LookupHit(w)
  BY <1>1, <1>10, QueuesQuiet DEF LookupHit, Held, Pending, AbandonedBy, Busy
<1>11. CASE LookupMiss(w)
  BY <1>1, <1>11, QueuesQuiet DEF LookupMiss, Held, Pending, AbandonedBy, Busy
<1>12. CASE AcquireLock(w)
  BY <1>1, <1>12, QueuesQuiet DEF AcquireLock, TakeLock, Held, Pending, AbandonedBy, Busy
<1>13. CASE FindProvider(w)
  BY <1>1, <1>13, QueuesQuiet DEF FindProvider, Held, Pending, AbandonedBy, Busy
<1>14. CASE PlaceQuery(w)
  BY <1>1, <1>14, QueuesQuiet DEF PlaceQuery, Held, Pending, AbandonedBy, Busy
<1>15. CASE PlaceQueryFail(w)
  BY <1>1, <1>15, QueuesQuiet DEF PlaceQueryFail, Abort, Held, Pending, AbandonedBy, Busy
<1>16. CASE Register(w)
  BY <1>1, <1>16, QueuesQuiet DEF Register, Held, Pending, AbandonedBy, Busy
<1>17. CASE DataQueryRows(w)
  BY <1>1, <1>17, QueuesQuiet DEF DataQueryRows, Held, Pending, AbandonedBy, Busy
<1>18. CASE DataQueryNoRows(w)
  BY <1>1, <1>18, QueuesQuiet DEF DataQueryNoRows, Held, Pending, AbandonedBy, Busy
<1>19. CASE DataQueryFail(w)
  BY <1>1, <1>19, QueuesQuiet DEF DataQueryFail, Abort, Held, Pending, AbandonedBy, Busy
<1>20. CASE DataQueryTorn(w)
  BY <1>1, <1>20, QueuesQuiet DEF DataQueryTorn, Abort, Held, Pending, AbandonedBy, Busy
<1>21. CASE ConvertRows(w)
  BY <1>1, <1>21, QueuesQuiet DEF ConvertRows, Held, Pending, AbandonedBy, Busy
<1>22. CASE ConvertRowsFail(w)
  BY <1>1, <1>22, QueuesQuiet DEF ConvertRowsFail, Abort, Held, Pending, AbandonedBy, Busy
<1>23. CASE Spin(w)
  BY <1>23, QueuesQuiet DEF Spin, vars, workerVars, Held, Pending, AbandonedBy
<1> QED
  BY <1>2, <1>3, <1>4, <1>5, <1>6, <1>7, <1>8, <1>9, <1>10, <1>11, <1>12, <1>13, <1>14, <1>15, <1>16, <1>17, <1>18, <1>19, <1>20, <1>21, <1>22, <1>23 DEF Worker

(* Control and queues are preserved together. *)
LEMMA StepInvariants == TypeInv /\ Control /\ Queues /\ [Next]_vars => (Control /\ Queues)'
<1>1. TypeInv /\ Control /\ Queues /\ UNCHANGED vars => (Control /\ Queues)'
  <2> SUFFICES ASSUME TypeInv, Control, Queues, UNCHANGED vars PROVE (Control /\ Queues)'
    OBVIOUS
  <2>1. Control'
    BY DEF Control, Phases, MutexHeld, Ends, HitIsCached, At, vars, callerVars, workerVars, sharedVars
  <2>2. Queues'
    BY QueuesQuiet DEF vars, callerVars, workerVars, sharedVars, Held, Pending, AbandonedBy
  <2> QED  BY <2>1, <2>2
<1> QED
  BY <1>1, ControlCaller, ControlWorker, QueuesCaller, QueuesWorker DEF Next, Returned

(* Types, control and queues always hold. *)
LEMMA Invariants == Spec => [](TypeInv /\ Control /\ Queues)
<1>1. Init => TypeInv /\ Control /\ Queues
  BY TypeInvInit, ControlInit, QueuesInit
<1>2. TypeInv /\ Control /\ Queues /\ [Next]_vars => (TypeInv /\ Control /\ Queues)'
  BY TypeInvStep, StepInvariants
<1> QED  BY <1>1, <1>2, PTL DEF Spec

(* No job is lost: at every moment a station handed out has its line, or is *)
(* in the queue or the hands of a worker, or was abandoned by one that      *)
(* failed.                                                                 *)
THEOREM JobsAccounted == Spec => []NoJobLost
<1>1. Queues => NoJobLost
  BY DEF Queues
<1> QED  BY <1>1, Invariants, PTL

(* After the call, a station without a line was abandoned by a worker that  *)
(* failed: no other reason exists for a line to be missing.                *)
THEOREM MissingLinesExplained == Spec => []UnansweredIsAbandoned
<1>1. TypeInv /\ Control /\ Queues => UnansweredIsAbandoned
  <2> SUFFICES ASSUME TypeInv, Control, Queues, main = "returned",
                      NEW s \in Stations, lines[s] = NoLine
               PROVE  \E w \in failed : s \in AbandonedBy(w)
    BY DEF UnansweredIsAbandoned
  <2>1. s \in 1 .. i
    BY DEF TypeInv, InBounds, Stations
  <2>2. PICK w \in Workers : s \in Pending(w) \cup AbandonedBy(w)
    BY <2>1 DEF Queues, NoJobLost
  <2>3. w \in failed
    <3> SUFFICES ASSUME w \notin failed PROVE FALSE
      OBVIOUS
    <3>1. At(w, "exited") /\ jobs[w] = <<>>
      BY DEF Control, Phases, Ends
    <3>2. Elements(jobs[w]) = {} /\ Held(w) = {}
      BY <3>1 DEF Elements, Held, At, Busy
    <3> QED  BY <2>2, <3>2 DEF Pending, AbandonedBy
  <2>4. s \in AbandonedBy(w)
    BY <2>2, <2>3 DEF Pending, AbandonedBy, Held, Control, Phases, At, Busy
  <2> QED  BY <2>3, <2>4
<1> QED  BY <1>1, Invariants, PTL

(* However a worker ends, it leaves no database connection behind. *)
THEOREM NoConnectionLeaks == Spec => []ConnectionsClosed
<1>1. Control => ConnectionsClosed
  BY DEF Control, Ends, ConnectionsClosed, At
<1> QED  BY <1>1, Invariants, PTL

(* A line given to the caller is final. *)
THEOREM LinesFinal == Spec => LineFinal
<1>1. TypeInv /\ Queues /\ [Next]_vars =>
        [\A s \in Stations : lines[s] # NoLine => lines'[s] = lines[s]]_vars
  <2> SUFFICES ASSUME TypeInv, Queues, Next, NEW s \in Stations, lines[s] # NoLine
               PROVE  lines'[s] = lines[s]
    OBVIOUS
  <2>1. CASE UNCHANGED lines
    BY <2>1
  <2>2. ASSUME NEW w \in Workers, Worker(w), lines' # lines
        PROVE  pc[w] \in Busy /\ \E x : lines' = [lines EXCEPT ![job[w]] = x]
    BY <2>2 DEF Worker, Connect, ConnectRetry, ConnectFail, GetNextJob, Spin, Finish,
       LookupHit, LookupMiss, AcquireLock, TakeLock, ServeCached, AnswerNotPlotted,
       FindProvider, PlaceQuery, PlaceQueryFail, Register, DataQueryRows,
       DataQueryNoRows, DataQueryFail, DataQueryTorn, ConvertRows, ConvertRowsFail,
       Answer, At, sharedVars, vars, Busy
  <2>3. ASSUME NEW w \in Workers, pc[w] \in Busy, NEW x, lines' = [lines EXCEPT ![job[w]] = x]
        PROVE  lines'[s] = lines[s]
    <3>1. lines[job[w]] = NoLine
      BY <2>3 DEF Queues, PendingUnanswered, Pending, Held
    <3> QED  BY <2>3, <3>1 DEF TypeInv, TypeOK
  <2>4. Caller \/ Returned => UNCHANGED lines
    BY DEF Caller, AddJob, Spawn, Join, WriteBack, Returned, sharedVars, vars
  <2> QED  BY <2>1, <2>2, <2>3, <2>4 DEF Next
<1> QED  BY <1>1, Invariants, PTL DEF Spec, LineFinal

-----------------------------------------------------------------------------
(* Lines: the cache, data_, and what a worker knows of the job it holds. *)

(* Two workers never hold the same station, nor one that has its line. *)
LEMMA HeldApart ==
  ASSUME Queues
  PROVE  /\ \A w \in Workers : pc[w] \in Busy => lines[job[w]] = NoLine
         /\ \A v, w \in Workers : v # w /\ pc[v] \in Busy /\ pc[w] \in Busy => job[v] # job[w]
BY DEF Queues, PendingUnanswered, PendingOnce, Pending, Held

(* The first job of a queue is held by nobody, and has no line. *)
LEMMA NextJobApart ==
  ASSUME TypeInv, Queues, NEW w \in Workers, jobs[w] # <<>>
  PROVE  /\ Head(jobs[w]) \in Stations /\ lines[Head(jobs[w])] = NoLine
         /\ \A v \in Workers : pc[v] \in Busy => job[v] # Head(jobs[w])
<1>1. Head(jobs[w]) \in Elements(jobs[w]) /\ Head(jobs[w]) \in Stations
  BY ElementsTail DEF TypeInv, TypeOK
<1> QED
  BY <1>1 DEF Queues, PendingUnanswered, PendingOnce, Pending, Held

NotAsked == {"lookup", "hit", "hitLocked"}
Skipped  == {"skip", "skipLocked"}
Asking   == {"provider", "placeQuery", "register", "registerLocked", "dataQuery"}
Asked    == {"convert", "answer", "answerLocked"}

(* tmp_data differs from the cache only where this call had rows. *)
CacheCopy ==
  /\ main # "returned" =>
       \A s \in Stations : cache[s] \in {NoLine, "cached"} /\ tmp_data[s] \in {cache[s], "rows"}
  /\ main = "returned" => cache = tmp_data
  /\ \A s \in Stations : /\ tmp_data[s] \in {NoLine, "cached", "rows"}
                         /\ tmp_data[s] = "rows" <=> lines[s] = "rows"

(* A held station that is not answered from the cache has no cached line or *)
(* its lookup raced; it goes to the database if it is to plot.             *)
CacheAsked ==
  \A w \in Workers :
    /\ pc[w] \in Skipped \cup Asking \cup Asked => job[w] \in torn \/ cache[job[w]] = NoLine
    /\ pc[w] \in Skipped => job[w] \notin ToPlot
    /\ pc[w] \in Asking \cup Asked => job[w] \in ToPlot

(* data_ and nTmpRows of a held station agree. *)
DataOfHeld ==
  \A w \in Workers :
    /\ pc[w] \in NotAsked \cup Skipped \cup Asking => ~data[job[w]] /\ ~nRows[w]
    /\ pc[w] \in Asked => (data[job[w]] <=> nRows[w])

Lines == CacheCopy /\ CacheAsked /\ DataOfHeld /\ ServedFromCache /\ DataMatchesLine

(* The lines and the cache when the call begins. *)
LEMMA LinesInit == Init => Lines
<1> SUFFICES ASSUME Init PROVE Lines
  OBVIOUS
<1> USE DEF Init
<1>1. CacheCopy
  BY DEF CacheCopy, NoLine
<1>2. CacheAsked /\ DataOfHeld
  BY DEF CacheAsked, DataOfHeld, NotAsked, Skipped, Asking, Asked
<1>3. ServedFromCache /\ DataMatchesLine
  BY DEF ServedFromCache, DataMatchesLine
<1> QED  BY <1>1, <1>2, <1>3 DEF Lines

(* The caller touches no line; at the end it saves tmp_data. *)
LEMMA LinesCaller == TypeInv /\ Control /\ Queues /\ Lines /\ Caller => Lines'
<1> SUFFICES ASSUME TypeInv, Control, Queues, Lines, Caller PROVE Lines'
  OBVIOUS
<1> USE DEF Lines, At, Goto, sharedVars, workerVars
<1>1. CASE AddJob
  <2>1. CacheCopy' /\ ServedFromCache' /\ DataMatchesLine'
    BY <1>1 DEF AddJob, CacheCopy, ServedFromCache, DataMatchesLine
  <2>2. CacheAsked' /\ DataOfHeld'
    BY <1>1 DEF AddJob, CacheAsked, DataOfHeld
  <2> QED  BY <2>1, <2>2
<1>2. CASE Spawn
  <2>1. CacheCopy' /\ ServedFromCache' /\ DataMatchesLine'
    BY <1>2 DEF Spawn, CacheCopy, ServedFromCache, DataMatchesLine
  <2>2. CacheAsked' /\ DataOfHeld'
    BY <1>2 DEF Spawn, CacheAsked, DataOfHeld, NotAsked, Skipped, Asking, Asked, TypeInv, TypeOK
  <2> QED  BY <2>1, <2>2
<1>3. CASE Join
  BY <1>3 DEF Join, CacheCopy, ServedFromCache, DataMatchesLine, CacheAsked, DataOfHeld
<1>4. CASE WriteBack
  <2>1. \A w \in Workers : pc'[w] = "exited"
    BY <1>4 DEF WriteBack, Control, Phases
  <2>2. CacheAsked' /\ DataOfHeld'
    BY <2>1 DEF CacheAsked, DataOfHeld, NotAsked, Skipped, Asking, Asked
  <2>3. CacheCopy' /\ DataMatchesLine'
    BY <1>4 DEF WriteBack, CacheCopy, DataMatchesLine
  <2>4. ServedFromCache'
    BY <1>4 DEF WriteBack, CacheCopy, ServedFromCache, NoLine
  <2> QED  BY <2>2, <2>3, <2>4
<1> QED  BY <1>1, <1>2, <1>3, <1>4 DEF Caller

(* A step that writes no line and touches data_ of unanswered stations only *)
(* keeps what is said of the answered ones.                                *)
LEMMA LinesKept ==
  ASSUME Lines, UNCHANGED <<main, cache, tmp_data, lines>>, torn \subseteq torn',
         \A s \in Stations : lines[s] # NoLine => data'[s] = data[s]
  PROVE  CacheCopy' /\ ServedFromCache' /\ DataMatchesLine'
BY DEF Lines, CacheCopy, ServedFromCache, DataMatchesLine

(* Every step of a worker keeps lines, cache and data_ in agreement. *)
LEMMA LinesWorker ==
  ASSUME NEW w \in Workers
  PROVE  TypeInv /\ Control /\ Queues /\ Lines /\ Worker(w) => Lines'
<1> SUFFICES ASSUME TypeInv, Control, Queues, Lines, Worker(w) PROVE Lines'
  OBVIOUS
<1>1. /\ pc \in [Workers -> Places] /\ nRows \in [Workers -> BOOLEAN]
      /\ job \in [Workers -> Stations \cup {0}] /\ data \in [Stations -> BOOLEAN]
      /\ lines \in [Stations -> Line \cup {NoLine}] /\ tmp_data \in [Stations -> Line \cup {NoLine}]
      /\ cache \in [Stations -> Line \cup {NoLine}]
      /\ \A v \in Workers : pc[v] \in Busy => job[v] \in Stations
  BY DEF TypeInv, TypeOK, InBounds
<1>2. \A v \in Workers : pc[v] \in Busy => lines[job[v]] = NoLine
  BY HeldApart
<1>3. \A v \in Workers : v # w /\ pc[v] \in Busy /\ pc[w] \in Busy => job[v] # job[w]
  BY HeldApart
<1>4. At(w, "lookup") \/ pc[w] \in Busy \/ At(w, "loop") => main # "returned"
  BY DEF Control, Phases, At, Busy
<1> USE DEF Lines, At, Goto, callerVars, sharedVars
<1>5. CASE Connect(w)
  <2>1. CacheCopy' /\ ServedFromCache' /\ DataMatchesLine'
    BY <1>5, LinesKept DEF Connect
  <2>2. CacheAsked'
    BY <1>1, <1>5 DEF Connect, CacheAsked, NotAsked, Skipped, Asking, Asked, Busy
  <2>3. DataOfHeld'
    BY <1>1, <1>5 DEF Connect, DataOfHeld, NotAsked, Skipped, Asking, Asked, Busy
  <2> QED  BY <2>1, <2>2, <2>3
<1>6. CASE ConnectRetry(w)
  <2>1. CacheCopy' /\ ServedFromCache' /\ DataMatchesLine'
    BY <1>6, LinesKept DEF ConnectRetry
  <2>2. CacheAsked'
    BY <1>1, <1>6 DEF ConnectRetry, CacheAsked, NotAsked, Skipped, Asking, Asked, Busy
  <2>3. DataOfHeld'
    BY <1>1, <1>6 DEF ConnectRetry, DataOfHeld, NotAsked, Skipped, Asking, Asked, Busy
  <2> QED  BY <2>1, <2>2, <2>3
<1>7. CASE ConnectFail(w)
  <2>1. CacheCopy' /\ ServedFromCache' /\ DataMatchesLine'
    BY <1>7, LinesKept DEF ConnectFail
  <2>2. CacheAsked'
    BY <1>1, <1>7 DEF ConnectFail, CacheAsked, NotAsked, Skipped, Asking, Asked, Busy
  <2>3. DataOfHeld'
    BY <1>1, <1>7 DEF ConnectFail, DataOfHeld, NotAsked, Skipped, Asking, Asked, Busy
  <2> QED  BY <2>1, <2>2, <2>3
<1>8. CASE GetNextJob(w)
  <2>0. /\ Head(jobs[w]) \in Stations /\ lines[Head(jobs[w])] = NoLine
        /\ \A v \in Workers : pc[v] \in Busy => job[v] # Head(jobs[w])
    BY <1>8, NextJobApart DEF GetNextJob
  <2>1. CacheCopy' /\ ServedFromCache' /\ DataMatchesLine'
    BY <1>8, LinesKept, <1>1, <2>0 DEF GetNextJob
  <2>2. CacheAsked'
    BY <1>1, <1>8 DEF GetNextJob, CacheAsked, NotAsked, Skipped, Asking, Asked, Busy
  <2>3. DataOfHeld'
    BY <1>1, <1>8, <2>0 DEF GetNextJob, DataOfHeld, NotAsked, Skipped, Asking, Asked, Busy
  <2> QED  BY <2>1, <2>2, <2>3
<1>9. CASE Spin(w)
  BY <1>9 DEF Spin, vars, workerVars, CacheCopy, CacheAsked, DataOfHeld, ServedFromCache, DataMatchesLine
<1>10. CASE Finish(w)
  <2>1. CacheCopy' /\ ServedFromCache' /\ DataMatchesLine'
    BY <1>10, LinesKept DEF Finish
  <2>2. CacheAsked'
    BY <1>1, <1>10 DEF Finish, CacheAsked, NotAsked, Skipped, Asking, Asked, Busy
  <2>3. DataOfHeld'
    BY <1>1, <1>10 DEF Finish, DataOfHeld, NotAsked, Skipped, Asking, Asked, Busy
  <2> QED  BY <2>1, <2>2, <2>3
<1>11. CASE LookupHit(w)
  <2>1. CacheCopy' /\ ServedFromCache' /\ DataMatchesLine'
    BY <1>11, LinesKept DEF LookupHit
  <2>2. CacheAsked'
    BY <1>1, <1>11 DEF LookupHit, CacheAsked, NotAsked, Skipped, Asking, Asked, Busy
  <2>3. DataOfHeld'
    BY <1>1, <1>11 DEF LookupHit, DataOfHeld, NotAsked, Skipped, Asking, Asked, Busy
  <2> QED  BY <2>1, <2>2, <2>3
<1>12. CASE LookupMiss(w)
  <2>1. CacheCopy' /\ ServedFromCache' /\ DataMatchesLine'
    BY <1>12, LinesKept DEF LookupMiss
  <2>2. CacheAsked'
    BY <1>1, <1>12, <1>4 DEF LookupMiss, CacheAsked, CacheCopy, NoLine, NotAsked, Skipped, Asking, Asked, Busy
  <2>3. DataOfHeld'
    BY <1>1, <1>12 DEF LookupMiss, DataOfHeld, NotAsked, Skipped, Asking, Asked, Busy
  <2> QED  BY <2>1, <2>2, <2>3
<1>13. CASE AcquireLock(w)
  <2>1. CacheCopy' /\ ServedFromCache' /\ DataMatchesLine'
    BY <1>13, LinesKept DEF AcquireLock, TakeLock
  <2>2. CacheAsked'
    BY <1>1, <1>13 DEF AcquireLock, TakeLock, CacheAsked, NotAsked, Skipped, Asking, Asked, Busy
  <2>3. DataOfHeld'
    BY <1>1, <1>13 DEF AcquireLock, TakeLock, DataOfHeld, NotAsked, Skipped, Asking, Asked, Busy
  <2> QED  BY <2>1, <2>2, <2>3
<1>14. CASE ServeCached(w)
  <2>1. CacheCopy'
    BY <1>1, <1>2, <1>4, <1>14 DEF ServeCached, CacheCopy, NoLine, Busy
  <2>2. CacheAsked'
    BY <1>1, <1>14 DEF ServeCached, CacheAsked, NotAsked, Skipped, Asking, Asked, Busy
  <2>3. DataOfHeld'
    BY <1>1, <1>3, <1>14 DEF ServeCached, DataOfHeld, NotAsked, Skipped, Asking, Asked, Busy
  <2>4. ServedFromCache'
    BY <1>1, <1>4, <1>14
    DEF ServeCached, ServedFromCache, CacheAsked, CacheCopy, Skipped, Asked, Busy, NoLine
  <2>5. DataMatchesLine'
    BY <1>1, <1>14
    DEF ServeCached, DataMatchesLine, DataOfHeld, CacheCopy, Skipped, Asked, Busy, NoLine
  <2> QED  BY <2>1, <2>2, <2>3, <2>4, <2>5
<1>15. CASE AnswerNotPlotted(w)
  <2>1. CacheCopy'
    BY <1>1, <1>2, <1>4, <1>15 DEF AnswerNotPlotted, CacheCopy, NoLine, Busy
  <2>2. CacheAsked'
    BY <1>1, <1>15 DEF AnswerNotPlotted, CacheAsked, NotAsked, Skipped, Asking, Asked, Busy
  <2>3. DataOfHeld'
    BY <1>1, <1>3, <1>15 DEF AnswerNotPlotted, DataOfHeld, NotAsked, Skipped, Asking, Asked, Busy
  <2>4. ServedFromCache'
    BY <1>1, <1>4, <1>15
    DEF AnswerNotPlotted, ServedFromCache, CacheAsked, CacheCopy, Skipped, Asked, Busy, NoLine
  <2>5. DataMatchesLine'
    BY <1>1, <1>15
    DEF AnswerNotPlotted, DataMatchesLine, DataOfHeld, CacheCopy, Skipped, Asked, Busy, NoLine
  <2> QED  BY <2>1, <2>2, <2>3, <2>4, <2>5
<1>16. CASE FindProvider(w)
  <2>1. CacheCopy' /\ ServedFromCache' /\ DataMatchesLine'
    BY <1>16, LinesKept DEF FindProvider
  <2>2. CacheAsked'
    BY <1>1, <1>16 DEF FindProvider, CacheAsked, NotAsked, Skipped, Asking, Asked, Busy
  <2>3. DataOfHeld'
    BY <1>1, <1>16 DEF FindProvider, DataOfHeld, NotAsked, Skipped, Asking, Asked, Busy
  <2> QED  BY <2>1, <2>2, <2>3
<1>17. CASE PlaceQuery(w)
  <2>1. CacheCopy' /\ ServedFromCache' /\ DataMatchesLine'
    BY <1>17, LinesKept DEF PlaceQuery
  <2>2. CacheAsked'
    BY <1>1, <1>17 DEF PlaceQuery, CacheAsked, NotAsked, Skipped, Asking, Asked, Busy
  <2>3. DataOfHeld'
    BY <1>1, <1>17 DEF PlaceQuery, DataOfHeld, NotAsked, Skipped, Asking, Asked, Busy
  <2> QED  BY <2>1, <2>2, <2>3
<1>18. CASE PlaceQueryFail(w)
  <2>1. CacheCopy' /\ ServedFromCache' /\ DataMatchesLine'
    BY <1>18, LinesKept DEF PlaceQueryFail, Abort
  <2>2. CacheAsked'
    BY <1>1, <1>18 DEF PlaceQueryFail, Abort, CacheAsked, NotAsked, Skipped, Asking, Asked, Busy
  <2>3. DataOfHeld'
    BY <1>1, <1>18 DEF PlaceQueryFail, Abort, DataOfHeld, NotAsked, Skipped, Asking, Asked, Busy
  <2> QED  BY <2>1, <2>2, <2>3
<1>19. CASE Register(w)
  <2>1. CacheCopy' /\ ServedFromCache' /\ DataMatchesLine'
    BY <1>19, LinesKept DEF Register, Unlock
  <2>2. CacheAsked'
    BY <1>1, <1>19 DEF Register, Unlock, CacheAsked, NotAsked, Skipped, Asking, Asked, Busy
  <2>3. DataOfHeld'
    BY <1>1, <1>19 DEF Register, Unlock, DataOfHeld, NotAsked, Skipped, Asking, Asked, Busy
  <2> QED  BY <2>1, <2>2, <2>3
<1>20. CASE DataQueryRows(w)
  <2>1. CacheCopy' /\ ServedFromCache' /\ DataMatchesLine'
    BY <1>20, LinesKept, <1>1, <1>2 DEF DataQueryRows, Busy
  <2>2. CacheAsked'
    BY <1>1, <1>20 DEF DataQueryRows, CacheAsked, NotAsked, Skipped, Asking, Asked, Busy
  <2>3. DataOfHeld'
    BY <1>1, <1>20, <1>3 DEF DataQueryRows, DataOfHeld, NotAsked, Skipped, Asking, Asked, Busy
  <2> QED  BY <2>1, <2>2, <2>3
<1>21. CASE DataQueryNoRows(w)
  <2>1. CacheCopy' /\ ServedFromCache' /\ DataMatchesLine'
    BY <1>21, LinesKept DEF DataQueryNoRows
  <2>2. CacheAsked'
    BY <1>1, <1>21 DEF DataQueryNoRows, CacheAsked, NotAsked, Skipped, Asking, Asked, Busy
  <2>3. DataOfHeld'
    BY <1>1, <1>21 DEF DataQueryNoRows, DataOfHeld, NotAsked, Skipped, Asking, Asked, Busy
  <2> QED  BY <2>1, <2>2, <2>3
<1>22. CASE DataQueryFail(w)
  <2>1. CacheCopy' /\ ServedFromCache' /\ DataMatchesLine'
    BY <1>22, LinesKept DEF DataQueryFail, Abort
  <2>2. CacheAsked'
    BY <1>1, <1>22 DEF DataQueryFail, Abort, CacheAsked, NotAsked, Skipped, Asking, Asked, Busy
  <2>3. DataOfHeld'
    BY <1>1, <1>22 DEF DataQueryFail, Abort, DataOfHeld, NotAsked, Skipped, Asking, Asked, Busy
  <2> QED  BY <2>1, <2>2, <2>3
<1>23. CASE DataQueryTorn(w)
  <2>1. CacheCopy' /\ ServedFromCache' /\ DataMatchesLine'
    BY <1>23, LinesKept DEF DataQueryTorn, Abort
  <2>2. CacheAsked'
    BY <1>1, <1>23 DEF DataQueryTorn, Abort, CacheAsked, NotAsked, Skipped, Asking, Asked, Busy
  <2>3. DataOfHeld'
    BY <1>1, <1>23 DEF DataQueryTorn, Abort, DataOfHeld, NotAsked, Skipped, Asking, Asked, Busy
  <2> QED  BY <2>1, <2>2, <2>3
<1>24. CASE ConvertRows(w)
  <2>1. CacheCopy' /\ ServedFromCache' /\ DataMatchesLine'
    BY <1>24, LinesKept DEF ConvertRows
  <2>2. CacheAsked'
    BY <1>1, <1>24 DEF ConvertRows, CacheAsked, NotAsked, Skipped, Asking, Asked, Busy
  <2>3. DataOfHeld'
    BY <1>1, <1>24 DEF ConvertRows, DataOfHeld, NotAsked, Skipped, Asking, Asked, Busy
  <2> QED  BY <2>1, <2>2, <2>3
<1>25. CASE ConvertRowsFail(w)
  <2>1. CacheCopy' /\ ServedFromCache' /\ DataMatchesLine'
    BY <1>25, LinesKept DEF ConvertRowsFail, Abort
  <2>2. CacheAsked'
    BY <1>1, <1>25 DEF ConvertRowsFail, Abort, CacheAsked, NotAsked, Skipped, Asking, Asked, Busy
  <2>3. DataOfHeld'
    BY <1>1, <1>25 DEF ConvertRowsFail, Abort, DataOfHeld, NotAsked, Skipped, Asking, Asked, Busy
  <2> QED  BY <2>1, <2>2, <2>3
<1>26. CASE Answer(w)
  <2>1. CacheCopy'
    BY <1>1, <1>2, <1>4, <1>26 DEF Answer, CacheCopy, NoLine, Busy
  <2>2. CacheAsked'
    BY <1>1, <1>26 DEF Answer, CacheAsked, NotAsked, Skipped, Asking, Asked, Busy
  <2>3. DataOfHeld'
    BY <1>1, <1>3, <1>26 DEF Answer, DataOfHeld, NotAsked, Skipped, Asking, Asked, Busy
  <2>4. ServedFromCache'
    BY <1>1, <1>4, <1>26
    DEF Answer, ServedFromCache, CacheAsked, CacheCopy, Skipped, Asked, Busy, NoLine
  <2>5. DataMatchesLine'
    BY <1>1, <1>26
    DEF Answer, DataMatchesLine, DataOfHeld, CacheCopy, Skipped, Asked, Busy, NoLine
  <2> QED  BY <2>1, <2>2, <2>3, <2>4, <2>5
<1> QED
  BY <1>5, <1>6, <1>7, <1>8, <1>9, <1>10, <1>11, <1>12, <1>13, <1>14, <1>15, <1>16, <1>17, <1>18, <1>19, <1>20, <1>21, <1>22, <1>23, <1>24, <1>25, <1>26 DEF Worker

(* The inductive invariant of the call. *)
IInv == TypeInv /\ Control /\ Queues /\ Lines

(* Hence every step of the system does. *)
LEMMA LinesStep == IInv /\ [Next]_vars => Lines'
<1>1. IInv /\ UNCHANGED vars => Lines'
  BY DEF IInv, vars, callerVars, workerVars, sharedVars, Lines, CacheCopy, CacheAsked,
     DataOfHeld, ServedFromCache, DataMatchesLine
<1> QED
  BY <1>1, LinesCaller, LinesWorker DEF IInv, Next, Returned

(* The inductive invariant holds in every reachable state of getData. *)
THEOREM InductiveInvariant == Spec => []IInv
<1>1. Init => IInv
  BY TypeInvInit, ControlInit, QueuesInit, LinesInit DEF IInv
<1>2. IInv /\ [Next]_vars => IInv'
  BY TypeInvStep, StepInvariants, LinesStep DEF IInv
<1> QED  BY <1>1, <1>2, PTL DEF Spec

(* Only lines built from rows are cached, and none of them is forgotten. *)
THEOREM CacheHoldsRowsOnly == Spec => []OnlyRowsCached
<1>1. IInv => OnlyRowsCached
  BY DEF IInv, Lines, CacheCopy, OnlyRowsCached
<1> QED  BY <1>1, InductiveInvariant, PTL

(* A cached line is served, unless the unlocked lookup raced with a write. *)
THEOREM CacheServed == Spec => []ServedFromCache
<1>1. IInv => ServedFromCache
  BY DEF IInv, Lines
<1> QED  BY <1>1, InductiveInvariant, PTL

(* data_ tells the answered stations with observations from the others. *)
THEOREM DataFlagTruthful == Spec => []DataMatchesLine
<1>1. IInv => DataMatchesLine
  BY DEF IInv, Lines
<1> QED  BY <1>1, InductiveInvariant, PTL

-----------------------------------------------------------------------------
(* Refinement. *)

(* A step of a worker answers the station it holds or changes nothing the   *)
(* caller of getData can see.                                              *)
LEMMA WorkerRefines ==
  ASSUME NEW w \in Workers, IInv, Worker(w)
  PROVE  UNCHANGED Fetch!vars \/ \E s \in Stations : Fetch!Answer(s)
<1> USE DEF At, Goto, callerVars, sharedVars
<1>1. ASSUME pc[w] \in Busy
      PROVE  job[w] \in Stations /\ lines[job[w]] = NoLine /\ main # "returned"
  BY <1>1, HeldApart DEF IInv, TypeInv, InBounds, Control, Phases, Busy
<1>2. CASE ServeCached(w)
  <2>1. tmp_data[job[w]] # NoLine
    BY <1>2 DEF ServeCached, IInv, Control, HitIsCached
  <2>2. Fetch!Answer(job[w])
    BY <1>1, <1>2, <2>1
    DEF ServeCached, Busy, NoLine, Fetch!Answer, Fetch!AnswerFromCache, Fetch!NoLine
  <2> QED  BY <1>1, <1>2, <2>2 DEF ServeCached, Busy
<1>3. CASE AnswerNotPlotted(w)
  <2>1. job[w] \notin ToPlot
    BY <1>3 DEF AnswerNotPlotted, IInv, Lines, CacheAsked, Skipped
  <2>2. Fetch!Answer(job[w])
    BY <1>1, <1>3, <2>1
    DEF AnswerNotPlotted, Busy, NoLine, Fetch!Answer, Fetch!AnswerUndefined, Fetch!NoLine
  <2> QED  BY <1>1, <1>3, <2>2 DEF AnswerNotPlotted, Busy
<1>4. CASE Answer(w)
  <2>1. job[w] \in ToPlot
    BY <1>4 DEF Answer, IInv, Lines, CacheAsked, Asked
  <2>2. Fetch!Answer(job[w])
    BY <1>1, <1>4, <2>1
    DEF Answer, Busy, NoLine, Fetch!Answer, Fetch!AnswerFromRows, Fetch!AnswerUndefined,
        Fetch!NoLine
  <2> QED  BY <1>1, <1>4, <2>2 DEF Answer, Busy
<1>5. CASE ~(ServeCached(w) \/ AnswerNotPlotted(w) \/ Answer(w))
  <2>1. UNCHANGED <<main, cache, lines, tmp_data>>
    BY <1>5 DEF Worker, Connect, ConnectRetry, ConnectFail, GetNextJob, Spin, Finish,
       LookupHit, LookupMiss, AcquireLock, TakeLock, FindProvider, PlaceQuery,
       PlaceQueryFail, Register, DataQueryRows, DataQueryNoRows, DataQueryFail,
       DataQueryTorn, ConvertRows, ConvertRowsFail, vars
  <2> QED  BY <2>1 DEF Fetch!vars
<1> QED  BY <1>2, <1>3, <1>4, <1>5

(* Whatever the number of workers, one call of getData is one fetch: each   *)
(* station is answered at most once, from the cache, from rows or with      *)
(* undefined values, and the cache changes when the call returns.          *)
THEOREM RefinesStationFetch == Spec => FetchSpec
<1>1. Init => Fetch!Init
  <2> SUFFICES ASSUME Init PROVE Fetch!Init
    OBVIOUS
  <2>1. tmp_data \in [Stations -> {Fetch!NoLine, "cached"}]
    BY DEF Init, NoLine, Fetch!NoLine
  <2> QED  BY <2>1 DEF Init, NoLine, Fetch!Init, Fetch!NoLine
<1>2. IInv /\ [Next]_vars => [Fetch!Next]_Fetch!vars
  <2> SUFFICES ASSUME IInv, [Next]_vars PROVE [Fetch!Next]_Fetch!vars
    OBVIOUS
  <2>1. CASE AddJob \/ Spawn \/ Join
    <3>1. UNCHANGED <<lines, tmp_data, cache>> /\ main # "returned" /\ main' # "returned"
      BY <2>1 DEF AddJob, Spawn, Join, sharedVars
    <3> QED  BY <3>1 DEF Fetch!vars
  <2>2. CASE WriteBack
    BY <2>2 DEF WriteBack, sharedVars, Fetch!Next, Fetch!Return
  <2>3. ASSUME NEW w \in Workers, Worker(w)
        PROVE  [Fetch!Next]_Fetch!vars
    BY <2>3, WorkerRefines DEF Fetch!Next
  <2>4. CASE UNCHANGED vars
    BY <2>4 DEF vars, callerVars, sharedVars, Fetch!vars
  <2> QED  BY <2>1, <2>2, <2>3, <2>4 DEF Next, Caller, Returned
<1> QED  BY <1>1, <1>2, InductiveInvariant, PTL DEF Spec, FetchSpec, Fetch!Spec

-----------------------------------------------------------------------------
(* The call as one step of a Roaddata object. *)

(* Where a line came from, as long as the cache is as the call found it. *)
Sources ==
  main # "returned" =>
    \A s \in Stations : /\ lines[s] = "cached" => cache[s] = "cached"
                        /\ lines[s] = "rows" => s \in ToPlot

LEMMA SourcesInit == Init => Sources
  BY DEF Init, Sources, NoLine

LEMMA SourcesStep == IInv /\ Sources /\ [Next]_vars => Sources'
<1> SUFFICES ASSUME IInv, Sources, [Next]_vars PROVE Sources'
  OBVIOUS
<1>1. CASE UNCHANGED <<main, lines, cache>>
  BY <1>1 DEF Sources
<1>2. CASE AddJob \/ Spawn \/ Join
  <2>1. main # "returned" /\ UNCHANGED <<lines, cache>>
    BY <1>2 DEF AddJob, Spawn, Join, sharedVars
  <2> QED  BY <2>1 DEF Sources
<1>3. CASE WriteBack
  BY <1>3 DEF WriteBack, Sources
<1>4. ASSUME NEW w \in Workers, Worker(w) PROVE Sources'
  <2>1. CASE UNCHANGED Fetch!vars
    <3>1. UNCHANGED <<lines, cache>> /\ (main = "returned" <=> main' = "returned")
      BY <2>1 DEF Fetch!vars
    <3> QED  BY <3>1 DEF Sources
  <2>2. ASSUME NEW s \in Stations, Fetch!Answer(s) PROVE Sources'
    <3>1. main # "returned" /\ cache' = cache /\ lines[s] = NoLine
      BY <2>2 DEF Fetch!Answer, Fetch!NoLine, NoLine
    <3>2. tmp_data[s] \in {NoLine, "cached"} /\ (tmp_data[s] = "cached" => cache[s] = "cached")
      BY <3>1 DEF IInv, Lines, CacheCopy, NoLine
    <3>3. PICK line \in {"cached", "rows", "norows", "notplotted"} :
            /\ lines' = [lines EXCEPT ![s] = line]
            /\ line = "cached" => cache[s] = "cached"
            /\ line = "rows" => s \in ToPlot
      BY <2>2, <3>2
      DEF Fetch!Answer, Fetch!AnswerFromCache, Fetch!AnswerFromRows, Fetch!AnswerUndefined,
          Fetch!NoLine, NoLine
    <3>4. \A r \in Stations : lines'[r] = IF r = s THEN line ELSE lines[r]
      BY <3>3 DEF IInv, TypeInv, TypeOK
    <3> QED  BY <3>1, <3>3, <3>4 DEF Sources
  <2> QED  BY <1>4, <2>1, <2>2, WorkerRefines
<1>5. CASE UNCHANGED vars
  BY <1>1, <1>5 DEF vars, callerVars, sharedVars
<1> QED  BY <1>2, <1>3, <1>4, <1>5 DEF Next, Caller, Returned

(* A call that returns has the lines and leaves the cache of a GetData step. *)
LEMMA ReturnIsGetData ==
  ASSUME IInv, Sources, WriteBack, CacheNotMissed
  PROVE  \E answered, rows \in SUBSET Stations : Call!GetData(ThisObject, answered, ToPlot, rows)
<1> DEFINE answered == {s \in Stations : lines[s] # NoLine}
           rows == {s \in Stations : lines[s] = "rows"}
           wanted == IF ToPlot = {} THEN Call!StationsOf(ThisObject) ELSE ToPlot
           fetched == ((answered \cap wanted) \cap rows)
                        \ {s \in Call!Stations : Call!Cached(ThisObject)[s] # Call!NoLine}
           line(s) == IF s \notin answered THEN Call!NoLine
                      ELSE IF s \in fetched THEN Call!LineFor(ThisObject, "rows")
                      ELSE IF Call!Cached(ThisObject)[s] # Call!NoLine THEN Call!Cached(ThisObject)[s]
                      ELSE Call!LineFor(ThisObject, "undefined")
<1>1. /\ main = "writeback" /\ main' = "returned" /\ cache' = tmp_data /\ lines' = lines
  BY DEF WriteBack, sharedVars
<1>2. ASSUME NEW s \in Stations
      PROVE  /\ lines[s] \in {NoLine, "cached", "rows", "norows", "notplotted"}
             /\ cache[s] \in {NoLine, "cached"}
             /\ lines[s] = "rows" => tmp_data[s] = "rows" /\ s \in ToPlot
             /\ lines[s] # "rows" => tmp_data[s] = cache[s]
             /\ cache[s] # NoLine => lines[s] \in {NoLine, "cached"}
             /\ lines[s] = "cached" => cache[s] = "cached"
  <2>1. /\ lines[s] \in Line \cup {NoLine} /\ cache[s] \in {NoLine, "cached"}
        /\ tmp_data[s] \in {cache[s], "rows"} /\ (tmp_data[s] = "rows" <=> lines[s] = "rows")
    BY <1>1 DEF IInv, TypeInv, TypeOK, Lines, CacheCopy
  <2>2. cache[s] # NoLine => s \notin torn
    BY DEF CacheNotMissed
  <2>3. cache[s] # NoLine => lines[s] \in {NoLine, "cached"}
    BY <2>1, <2>2 DEF IInv, Lines, ServedFromCache
  <2>4. /\ lines[s] = "cached" => cache[s] = "cached"
        /\ lines[s] = "rows" => s \in ToPlot
    BY <1>1 DEF Sources
  <2>5. lines[s] \in {NoLine, "cached", "rows", "norows", "notplotted"}
    BY <2>1 DEF Line
  <2> QED  BY <2>1, <2>3, <2>4, <2>5
<1>3. /\ Call!Stations = Stations /\ Call!StationsOf(ThisObject) = Stations /\ Stations # {}
  BY NumStationsAssumption
  DEF Call!Stations, Call!StationsOf, Stations, Constructed
<1>4. \A s \in Stations : Call!Cached(ThisObject)[s] = LineSeen(cache[s])
  BY DEF Call!Cached, Constructed, Seen
<1>5. /\ Call!NoLine = LineSeen(NoLine)
      /\ \A x \in {"cached", "rows"} : Call!LineFor(ThisObject, "rows") = LineSeen(x)
      /\ \A x \in {"norows", "notplotted"} : Call!LineFor(ThisObject, "undefined") = LineSeen(x)
      /\ \A x \in {"cached", "rows", "norows", "notplotted"} : LineSeen(x) # Call!NoLine
  BY DEF Call!NoLine, Call!LineFor, LineSeen, NoLine, Constructed
<1>6. wanted = ToPlot
  BY ToPlotAssumption
<1>7. \A s \in Stations : s \in fetched <=> lines[s] = "rows"
  BY <1>2, <1>3, <1>4, <1>5, <1>6 DEF NoLine
<1>8. \A s \in Stations : s \in answered <=> lines[s] # NoLine
  OBVIOUS
<1> HIDE DEF answered, fetched, wanted
<1>9. ASSUME NEW s \in Stations
      PROVE  /\ line(s) = LineSeen(lines[s])
             /\ (IF s \in fetched THEN line(s) ELSE Call!Cached(ThisObject)[s]) = LineSeen(tmp_data[s])
  BY <1>2, <1>4, <1>5, <1>7, <1>8 DEF NoLine
<1>10. [s \in Call!Stations |-> line(s)] = Seen(lines')
  BY <1>1, <1>3, <1>9 DEF Seen
<1>11. [s \in Call!Stations |-> IF s \in fetched THEN line(s) ELSE Call!Cached(ThisObject)[s]] = Seen(cache')
  BY <1>1, <1>3, <1>9 DEF Seen
<1>12. Call!Return(ThisObject, "getData", 0, [s \in Call!Stations |-> line(s)])
  BY <1>1, <1>10 DEF Call!Return
<1>13. Call!SaveCache(StationFile, ObsTime,
         [s \in Call!Stations |-> IF s \in fetched THEN line(s) ELSE Call!Cached(ThisObject)[s]])
  BY <1>11 DEF Call!SaveCache
<1>14. Constructed.params /\ Constructed.stations
       /\ Constructed.stationfile = StationFile /\ Constructed.obstime = ObsTime
  BY DEF Constructed
<1>15. Call!GetData(ThisObject, answered, ToPlot, rows)
  BY <1>3, <1>12, <1>13, <1>14 DEF Call!GetData, Call!statics, line, fetched, wanted
<1> QED  BY <1>15 DEF answered

(* Whatever the number of workers, and however they fail, a call of getData *)
(* in which no race hid a cached line has the outcome of a GetData step of  *)
(* Roaddata, and nothing of it can be seen before it returns.              *)
THEOREM RefinesGetData == Spec => CallIsGetData
<1>1. Spec => []Sources
  BY SourcesInit, SourcesStep, InductiveInvariant, PTL DEF Spec
<1>2. IInv /\ Sources /\ [Next]_vars =>
        [IF Returns
         THEN CacheNotMissed => \E answered, rows \in SUBSET Stations :
                                  Call!GetData(ThisObject, answered, ToPlot, rows)
         ELSE UNCHANGED Call!vars]_vars
  <2> SUFFICES ASSUME IInv, Sources, Next
               PROVE  /\ Returns /\ CacheNotMissed =>
                           \E answered, rows \in SUBSET Stations :
                             Call!GetData(ThisObject, answered, ToPlot, rows)
                      /\ ~Returns => UNCHANGED Call!vars
    OBVIOUS
  <2>1. CASE WriteBack
    <3>1. Returns
      BY <2>1 DEF WriteBack, Returns
    <3> QED  BY <2>1, <3>1, ReturnIsGetData
  <2>2. CASE ~WriteBack
    <3> DEFINE Unseen == /\ cache' = cache
                         /\ main = "returned" <=> main' = "returned"
                         /\ main = "returned" => lines' = lines
    <3>1. Unseen
      <4>1. CASE AddJob \/ Spawn \/ Join
        BY <4>1 DEF AddJob, Spawn, Join
      <4>2. CASE Returned
        BY <4>2 DEF Returned, vars, callerVars, sharedVars
      <4>3. ASSUME NEW w \in Workers, Worker(w)
            PROVE  UNCHANGED Fetch!vars \/ \E s \in Stations : Fetch!Answer(s)
        BY <4>3, WorkerRefines
      <4>4. UNCHANGED Fetch!vars => Unseen
        BY DEF Fetch!vars
      <4>5. (\E s \in Stations : Fetch!Answer(s)) => Unseen
        BY DEF Fetch!Answer
      <4> HIDE DEF Unseen
      <4> QED  BY <2>2, <4>1, <4>2, <4>3, <4>4, <4>5 DEF Next, Caller
    <3>2. ~Returns
      BY <3>1 DEF Returns
    <3>3. UNCHANGED Call!vars
      BY <3>1 DEF Call!vars, Call!statics, Seen
    <3> QED  BY <3>2, <3>3
  <2> QED  BY <2>1, <2>2
<1> QED  BY <1>1, <1>2, InductiveInvariant, PTL DEF Spec, CallIsGetData
=============================================================================
