--------------------------- MODULE RowConversion ---------------------------
(***************************************************************************)
(* The workers of a call turn the rows of their data queries into columns: *)
(* for each row the first parameter that is mapped takes the value, and a  *)
(* later row replaces it.  Each worker has one line to fill.               *)
(*                                                                         *)
(* The workers share diParam::unit_map and use it without a lock.          *)
(* toDianaUnit indexes it, and for an unknown unit operator[] inserts an   *)
(* entry: that takes two steps here, and a search by another worker in     *)
(* between is a data race that may give the right answer or miss the unit. *)
(***************************************************************************)
EXTENDS ParamMapping, FiniteSets

CONSTANTS
  Workers,
  ParamLists,  \* the parameter lists a file can give
  Rows         \* the lists of rows a query can return

Undef == "undef"        \* undef_string

ParamType ==
  [unit : STRING, parameter : Int, srid : Int, from : Int, to : Int,
   stat : STRING, fromdelta : Int, todelta : Int]

RowType ==
  [parameter : Int, srid : Int, from : Int, to : Int, unit : STRING, stat : STRING,
   validfrom : Int, validto : Int, reftime : Int, value : STRING]

(* The units of the database are words, and none of those of diana that a   *)
(* value is calculated for.                                                *)
DatabaseRow ==
  {row \in RowType :
     /\ row.unit \notin {"C", "%", "hPa", Wrong, Undef}
     /\ row.value = Expressed(row.unit)}

ASSUME WorkersAssumption == Workers # {}
ASSUME ParamListsAssumption == \A list \in ParamLists : list \in Seq(ParamType)
ASSUME RowsAssumption == \A list \in Rows : list \in Seq(DatabaseRow)

VARIABLES
  unit_map,    \* diParam::unit_map
  params,      \* the parameter list of the call
  rows,        \* the result of each worker's query
  m,           \* the rows a worker has converted
  tmpresult,   \* the columns of each worker's line
  inserting,   \* the unit a worker is inserting into unit_map
  torn         \* history: the workers a search failed for in a race

vars == <<unit_map, params, rows, m, tmpresult, inserting, torn>>

NotInserting == "none"

Init ==
  /\ unit_map = InitUnitMap
  /\ params \in ParamLists
  /\ rows \in [Workers -> Rows]
  /\ m = [w \in Workers |-> 0]
  /\ tmpresult = [w \in Workers |-> [k \in 1 .. Len(params) |-> Undef]]
  /\ inserting = [w \in Workers |-> NotInserting]
  /\ torn = {}

-----------------------------------------------------------------------------
Row(w) == rows[w][m[w] + 1]

(* The worker has a row to convert and is not inside unit_map. *)
Converting(w) == m[w] < Len(rows[w]) /\ inserting[w] = NotInserting

Race(w) == \E v \in Workers \ {w} : inserting[v] # NotInserting

(* Another unit is inserted when a row reaches the comparison of units. *)
Unknown(w) ==
  /\ Row(w).unit \notin DOMAIN unit_map
  /\ \E k \in 1 .. Len(params) : ReachesUnit(params[k], Row(w))

InsertUnit(w) ==
  /\ Converting(w) /\ Unknown(w)
  /\ inserting' = [inserting EXCEPT ![w] = Row(w).unit]
  /\ UNCHANGED <<unit_map, params, rows, m, tmpresult, torn>>

UnitInserted(w) ==
  /\ inserting[w] # NotInserting
  /\ unit_map' = [u \in DOMAIN unit_map \cup {inserting[w]} |-> ToDianaUnit(unit_map, u)]
  /\ inserting' = [inserting EXCEPT ![w] = NotInserting]
  /\ UNCHANGED <<params, rows, m, tmpresult, torn>>

(* The parameters of ps a row is mapped to, given its unit for diana. *)
MappedTo(ps, row, dianaunit) == {k \in 1 .. Len(ps) : IsMapped(ps[k], row, dianaunit)}

(* Mutant of First: the last parameter takes the row. *)
FirstFromBehind(K) == IF K = {} THEN {} ELSE {k \in K : \A l \in K : l <= k}

(* break behind the first parameter: at most one takes the row. *)
First(K) == {k \in K : \A l \in K : k <= l}

(* Column k gets the value; no column if K is empty. *)
Fill(w, K, value) ==
  tmpresult' = [tmpresult EXCEPT ![w] =
                  [k \in 1 .. Len(params) |-> IF k \in K THEN value ELSE @[k]]]

ConvertRow(w) ==
  /\ Converting(w) /\ ~Unknown(w)
  /\ LET dianaunit == ToDianaUnit(unit_map, Row(w).unit) IN
       Fill(w, First(MappedTo(params, Row(w), dianaunit)), ConvertValue(dianaunit, Row(w)).value)
  /\ m' = [m EXCEPT ![w] = @ + 1]
  /\ UNCHANGED <<unit_map, params, rows, inserting, torn>>

(* Every search of unit_map can miss: the row is mapped to any parameter    *)
(* that is found with the unit or without, or to none, and the searches of *)
(* convertValue can leave the value as it is.                              *)
ConvertRowTorn(w) ==
  /\ Converting(w) /\ Race(w)
  /\ \E k \in 1 .. Len(params) : ReachesUnit(params[k], Row(w))
  /\ \E dianaunit \in {NoUnit, ToDianaUnit(unit_map, Row(w).unit)},
        K \in {{}} \cup {{k} : k \in MappedTo(params, Row(w), NoUnit)
                                      \cup MappedTo(params, Row(w), ToDianaUnit(unit_map, Row(w).unit))} :
       Fill(w, K, ConvertValue(dianaunit, Row(w)).value)
  /\ m' = [m EXCEPT ![w] = @ + 1]
  /\ torn' = torn \cup {w}
  /\ UNCHANGED <<unit_map, params, rows, inserting>>

AllConverted == \A w \in Workers : m[w] = Len(rows[w]) /\ inserting[w] = NotInserting

Done == AllConverted /\ UNCHANGED vars

Next ==
  \/ \E w \in Workers : InsertUnit(w) \/ UnitInserted(w) \/ ConvertRow(w) \/ ConvertRowTorn(w)
  \/ Done

Spec == Init /\ [][Next]_vars

-----------------------------------------------------------------------------
(* The radiosonde path: the row is converted in place for each parameter    *)
(* that is mapped, and a copy pushed back each time.  The copies are those  *)
(* of the parameters of MappedTo in their order.                           *)

(* Mutant of RawCopies: a copy is pushed before the value is converted. *)
RawCopiesUnconverted(ps, row) ==
  LET dianaunit == ToDianaUnit(InitUnitMap, row.unit)
      copy[n \in 1 .. Cardinality(MappedTo(ps, row, dianaunit))] ==
        IF n = 1 THEN row ELSE ConvertValue(dianaunit, copy[n - 1])
  IN copy

RawCopies(ps, row) ==
  LET dianaunit == ToDianaUnit(InitUnitMap, row.unit)
      copy[n \in 1 .. Cardinality(MappedTo(ps, row, dianaunit))] ==
        ConvertValue(dianaunit, IF n = 1 THEN row ELSE copy[n - 1])
  IN copy

-----------------------------------------------------------------------------
(* A number in a column is in the unit of its parameter: converted once if  *)
(* the database has another unit, and left alone if not (values that are in *)
(* percent already).  A worker whose search raced is excepted.             *)
ColumnsInTheirUnit ==
  \A w \in Workers \ torn : \A k \in 1 .. Len(params) :
    tmpresult[w][k] # Undef => Fits(tmpresult[w][k], params[k].unit)

(* When a row belongs to a parameter, said plainly: with both ages given    *)
(* only the length of the interval counts ("the observation is too late or  *)
(* to early"), one age given is that of the row.                           *)
AgesFit(p, row) ==
  IF p.fromdelta # AnyAge /\ p.todelta # AnyAge
  THEN row.validto - row.validfrom = p.todelta - p.fromdelta
  ELSE /\ p.fromdelta # AnyAge => row.validfrom - row.reftime = p.fromdelta
       /\ p.todelta # AnyAge => row.validto - row.reftime = p.todelta

Belongs(p, row) ==
  /\ row.parameter = p.parameter /\ row.stat = p.stat
  /\ LevelMatches(p, row) /\ AgesFit(p, row)
  /\ p.unit = ToDianaUnit(InitUnitMap, row.unit)

(* The rows column k is for: they belong to no earlier parameter. *)
RowsFor(w, k) ==
  {n \in 1 .. m[w] :
     /\ Belongs(params[k], rows[w][n])
     /\ \A l \in 1 .. k - 1 : ~Belongs(params[l], rows[w][n])}

(* A column is filled if and only if a row was for it, whatever the workers *)
(* put into unit_map meanwhile: no value is lost or put into two columns.  *)
ColumnsComplete ==
  \A w \in Workers \ torn : \A k \in 1 .. Len(params) :
    tmpresult[w][k] # Undef <=> RowsFor(w, k) # {}

(* Of the copies the radiosonde path makes of a row the first one is in the *)
(* unit of its parameters, and the others are as well if and only if there  *)
(* was nothing to convert.                                                 *)
RawCopiesInTheirUnit ==
  \A w \in Workers : \A n \in 1 .. Len(rows[w]) :
    LET row == rows[w][n]
        copies == RawCopies(params, row)
        dianaunit == ToDianaUnit(InitUnitMap, row.unit)
    IN \A c \in DOMAIN copies :
         Fits(copies[c].value, dianaunit) <=> c = 1 \/ copies[1].value = row.value
=============================================================================
