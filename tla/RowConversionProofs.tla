------------------------ MODULE RowConversionProofs ------------------------
(***************************************************************************)
(* Theorems about RowConversion, for any number of workers, every parameter *)
(* list and every result of the queries.                                   *)
(***************************************************************************)
EXTENDS RowConversion, ListLemmas, TLAPS

-----------------------------------------------------------------------------
(* The operators of ParamMapping. *)

(* With both ages given, the happy case and the observation that is too     *)
(* late or too early together leave only the length of the interval.       *)
LEMMA TimesMatchIsAgesFit ==
  ASSUME NEW p \in ParamType, NEW row \in RowType
  PROVE  TimesMatch(p, row) <=> AgesFit(p, row)
<1> DEFINE from == row.validfrom - row.reftime
           to   == row.validto - row.reftime
<1>1. /\ p.fromdelta \in Int /\ p.todelta \in Int
      /\ row.validfrom \in Int /\ row.validto \in Int /\ row.reftime \in Int
  BY DEF ParamType, RowType
<1>2. to - from = row.validto - row.validfrom
  BY <1>1
<1>3. ASSUME to - from = p.todelta - p.fromdelta
      PROVE  (from = p.fromdelta /\ to = p.todelta) \/ (from # p.fromdelta /\ to # p.todelta)
  BY <1>1, <1>3
<1>4. CASE p.fromdelta # AnyAge /\ p.todelta # AnyAge
  BY <1>2, <1>3, <1>4 DEF TimesMatch, AgesFit
<1>5. CASE ~(p.fromdelta # AnyAge /\ p.todelta # AnyAge)
  BY <1>5 DEF TimesMatch, AgesFit
<1> QED
  BY <1>4, <1>5

(* isMapped with the entries init_unit_map makes. *)
LEMMA MappedIsBelongs ==
  ASSUME NEW p \in ParamType, NEW row \in RowType
  PROVE  IsMapped(p, row, ToDianaUnit(InitUnitMap, row.unit)) <=> Belongs(p, row)
BY TimesMatchIsAgesFit DEF IsMapped, ReachesUnit, Belongs

(* The pairs init_unit_map inserts. *)
LEMMA UnitPair ==
  ASSUME NEW u, NEW d
  PROVE  <<u, d>> \in UnitPairs <=>
           \/ u = "kelvin" /\ d = "C"
           \/ u = "degree celsius" /\ d = "C"
           \/ u = "metre" /\ d = "m"
           \/ u = "metre per second" /\ d = "m/s"
           \/ u = "knot" /\ d = "knot"
           \/ u = "proportion" /\ d = "%"
           \/ u = "kilogram per square metre" /\ d = "mm"
           \/ u = "percent" /\ d = "%"
           \/ u = "degree true" /\ d = "degree"
           \/ u = "pascal" /\ d = "hPa"
           \/ u = "code" /\ d = "code"
           \/ u = "feet" /\ d = "feet"
BY DEF UnitPairs

(* Each unit of the map is mapped to the unit it is paired with. *)
LEMMA UnitMapPairs ==
  /\ \A u, d : <<u, d>> \in UnitPairs => u \in DOMAIN InitUnitMap
  /\ \A u \in DOMAIN InitUnitMap : <<u, InitUnitMap[u]>> \in UnitPairs
<1>1. ASSUME NEW u, NEW d, <<u, d>> \in UnitPairs
      PROVE  u \in DOMAIN InitUnitMap
  <2>1. <<u, d>>[1] = u
    OBVIOUS
  <2> QED
    BY <1>1, <2>1 DEF InitUnitMap
<1>2. ASSUME NEW u \in DOMAIN InitUnitMap
      PROVE  <<u, InitUnitMap[u]>> \in UnitPairs
  <2> DEFINE pair == CHOOSE q \in UnitPairs : q[1] = u
  <2>1. \E q \in UnitPairs : q[1] = u
    BY DEF InitUnitMap
  <2>2. pair \in UnitPairs /\ pair[1] = u
    BY <2>1
  <2>3. InitUnitMap[u] = pair[2]
    BY DEF InitUnitMap
  <2>4. \A q \in UnitPairs : \E a, b : q = <<a, b>>
    BY Zenon DEF UnitPairs
  <2>5. PICK a, b : pair = <<a, b>>
    BY <2>2, <2>4
  <2>6. <<a, b>>[1] = a /\ <<a, b>>[2] = b
    OBVIOUS
  <2> HIDE DEF pair
  <2> QED
    BY <2>2, <2>3, <2>5, <2>6
<1> QED
  BY <1>1, <1>2

LEMMA UnitMapDomain ==
  ASSUME NEW u
  PROVE  u \in DOMAIN InitUnitMap <=>
           u \in {"kelvin", "degree celsius", "metre", "metre per second", "knot", "proportion",
                 "kilogram per square metre", "percent", "degree true", "pascal", "code", "feet"}
<1>1. ASSUME u \in DOMAIN InitUnitMap
      PROVE  u \in {"kelvin", "degree celsius", "metre", "metre per second", "knot", "proportion",
                 "kilogram per square metre", "percent", "degree true", "pascal", "code", "feet"}
  BY <1>1, UnitMapPairs, UnitPair
<1>2. ASSUME NEW d, <<u, d>> \in UnitPairs
      PROVE  u \in DOMAIN InitUnitMap
  BY <1>2, UnitMapPairs
<1> QED
  BY <1>1, <1>2, UnitPair

LEMMA UnitMapValues ==
  ASSUME NEW u \in DOMAIN InitUnitMap
  PROVE  /\ u \in {"kelvin", "degree celsius"} => InitUnitMap[u] = "C"
         /\ u \in {"proportion", "percent"} => InitUnitMap[u] = "%"
         /\ u = "pascal" => InitUnitMap[u] = "hPa"
         /\ u \in {"metre", "metre per second", "knot", "kilogram per square metre",
                   "degree true", "code", "feet"} => InitUnitMap[u] \notin {"C", "%", "hPa"}
<1> DEFINE d == InitUnitMap[u]
<1>1. <<u, d>> \in UnitPairs
  BY UnitMapPairs
<1> HIDE DEF d
<1>2. /\ u \in {"kelvin", "degree celsius"} => d = "C"
      /\ u \in {"proportion", "percent"} => d = "%"
      /\ u = "pascal" => d = "hPa"
      /\ u \in {"metre", "metre per second", "knot", "kilogram per square metre",
                "degree true", "code", "feet"} => d \notin {"C", "%", "hPa"}
  BY <1>1, UnitPair
<1> QED
  BY <1>2 DEF d

(* convertValue leaves the number of a row of the database in the unit     *)
(* toDianaUnit names, whether there is something to convert or not.        *)
LEMMA ConvertedFits ==
  ASSUME NEW row \in DatabaseRow
  PROVE  LET dianaunit == ToDianaUnit(InitUnitMap, row.unit) IN
           Fits(ConvertValue(dianaunit, row).value, dianaunit)
<1> DEFINE dianaunit == ToDianaUnit(InitUnitMap, row.unit)
           converted == ConvertValue(dianaunit, row).value
<1> HIDE DEF dianaunit, converted
<1> SUFFICES Fits(converted, dianaunit)
  BY DEF dianaunit, converted
<1>1. row \in RowType /\ row.value = Expressed(row.unit) /\ row.unit \notin {"C", "%", "hPa", Wrong, Undef}
  BY DEF DatabaseRow
<1>2. \A v : [row EXCEPT !.value = v].value = v
  BY <1>1 DEF RowType
<1>3. CASE row.unit \in {"kelvin", "degree celsius"}
  <2>1. dianaunit = "C" /\ row.value = "kelvin"
    BY <1>1, <1>3, UnitMapDomain, UnitMapValues DEF dianaunit, ToDianaUnit, Expressed
  <2>2. converted = "C"
    BY <1>2, <2>1 DEF converted, ConvertValue, MinusZeroCelsius
  <2> QED
    BY <2>1, <2>2, UnitMapDomain, UnitMapValues DEF Fits, Wrong, NoUnit
<1>4. CASE row.unit = "proportion"
  <2>1. dianaunit = "%" /\ row.value = "proportion"
    BY <1>1, <1>4, UnitMapDomain, UnitMapValues DEF dianaunit, ToDianaUnit, Expressed
  <2>2. converted = "%"
    BY <1>2, <1>4, <2>1 DEF converted, ConvertValue, TimesHundred
  <2> QED
    BY <2>1, <2>2, UnitMapDomain, UnitMapValues DEF Fits, Wrong, NoUnit
<1>5. CASE row.unit = "percent"
  <2>1. dianaunit = "%" /\ row.value = "percent"
    BY <1>1, <1>5, UnitMapDomain, UnitMapValues DEF dianaunit, ToDianaUnit, Expressed
  <2>2. converted = "percent"
    BY <1>5, <2>1 DEF converted, ConvertValue
  <2> QED
    BY <2>1, <2>2, UnitMapDomain, UnitMapValues DEF Fits, Wrong, NoUnit
<1>6. CASE row.unit = "pascal"
  <2>1. dianaunit = "hPa" /\ row.value = "pascal"
    BY <1>1, <1>6, UnitMapDomain, UnitMapValues DEF dianaunit, ToDianaUnit, Expressed
  <2>2. converted = "hPa"
    BY <1>2, <2>1 DEF converted, ConvertValue, ByHundred
  <2> QED
    BY <2>1, <2>2, UnitMapDomain, UnitMapValues DEF Fits, Wrong, NoUnit
<1>7. CASE row.unit \in {"metre", "metre per second", "knot", "kilogram per square metre",
                         "degree true", "code", "feet"}
  <2>1. dianaunit = InitUnitMap[row.unit] /\ row.value = row.unit
    BY <1>1, <1>7, UnitMapDomain DEF dianaunit, ToDianaUnit, Expressed
  <2>2. dianaunit \notin {"C", "%", "hPa"}
    BY <1>7, <2>1, UnitMapDomain, UnitMapValues
  <2>3. converted = row.unit
    BY <2>1, <2>2 DEF converted, ConvertValue
  <2> QED
    BY <1>7, <2>1, <2>3, UnitMapDomain DEF Fits, Wrong, NoUnit
<1>8. CASE row.unit \notin DOMAIN InitUnitMap
  <2>1. dianaunit = NoUnit /\ row.value = row.unit
    BY <1>1, <1>8, UnitMapDomain, UnitMapValues DEF dianaunit, ToDianaUnit, Expressed
  <2>2. converted = row.unit
    BY <2>1 DEF converted, ConvertValue, NoUnit
  <2> QED
    BY <1>1, <1>8, <2>1, <2>2 DEF Fits, Wrong, NoUnit
<1> QED
  BY <1>3, <1>4, <1>5, <1>6, <1>7, <1>8, UnitMapDomain DEF dianaunit

(* The undefined value of a column is no number. *)
LEMMA ConvertedIsDefined ==
  ASSUME NEW row \in DatabaseRow, NEW dianaunit
  PROVE  ConvertValue(dianaunit, row).value # Undef
<1>1. row \in RowType /\ row.value = Expressed(row.unit) /\ row.unit # Undef
  BY DEF DatabaseRow
<1>2. row.value # Undef
  BY <1>1 DEF Expressed, Undef
<1>3. \A v : [row EXCEPT !.value = v].value = v
  BY <1>1 DEF RowType
<1>4. ConvertValue(dianaunit, row).value \in {"C", "%", "hPa", Wrong, row.value}
  BY <1>3 DEF ConvertValue, MinusZeroCelsius, TimesHundred, ByHundred
<1>5. Undef \notin {"C", "%", "hPa", Wrong}
  BY DEF Undef, Wrong
<1> QED
  BY <1>2, <1>4, <1>5

-----------------------------------------------------------------------------
(* The inductive invariant.  What the properties need besides themselves is *)
(* that the entries workers put into unit_map are those it would give      *)
(* anyway: then every worker has the units of init_unit_map.               *)

TypeInv ==
  /\ params \in Seq(ParamType)
  /\ rows \in [Workers -> Rows]
  /\ m \in [Workers -> Nat]
  /\ \A w \in Workers : m[w] <= Len(rows[w])
  /\ tmpresult = [w \in Workers |-> tmpresult[w]]

UnitsStay == \A u : ToDianaUnit(unit_map, u) = ToDianaUnit(InitUnitMap, u)

IInv == TypeInv /\ UnitsStay /\ ColumnsInTheirUnit /\ ColumnsComplete

LEMMA RowsAreRows ==
  ASSUME TypeInv, NEW w \in Workers
  PROVE  /\ Len(rows[w]) \in Nat
         /\ \A n \in 1 .. Len(rows[w]) : rows[w][n] \in DatabaseRow
         /\ \A n \in 1 .. Len(rows[w]) : rows[w][n] \in RowType
<1>1. rows[w] \in Seq(DatabaseRow)
  BY RowsAssumption DEF TypeInv
<1>2. DatabaseRow \subseteq RowType
  BY DEF DatabaseRow
<1> QED
  BY <1>1, <1>2

LEMMA Initially == Init => IInv
<1> SUFFICES ASSUME Init PROVE IInv
  OBVIOUS
<1>1. TypeInv
  <2>1. \A w \in Workers : rows[w] \in Seq(DatabaseRow)
    BY RowsAssumption DEF Init
  <2>2. \A w \in Workers : Len(rows[w]) \in Nat
    BY <2>1
  <2> QED
    BY <2>2, ParamListsAssumption DEF Init, TypeInv
<1>2. UnitsStay
  BY DEF Init, UnitsStay
<1>3. \A w \in Workers : \A k \in 1 .. Len(params) : tmpresult[w][k] = Undef
  BY DEF Init
<1>4. ColumnsInTheirUnit
  BY <1>3 DEF ColumnsInTheirUnit
<1>5. \A w \in Workers : \A k \in 1 .. Len(params) : RowsFor(w, k) = {}
  BY DEF Init, RowsFor
<1>6. ColumnsComplete
  BY <1>3, <1>5 DEF ColumnsComplete
<1> QED
  BY <1>1, <1>2, <1>4, <1>6 DEF IInv

(* The properties of a worker whose line, rows and place do not change. *)
Same(w) ==
  /\ params' = params /\ rows' = rows
  /\ m'[w] = m[w] /\ tmpresult'[w] = tmpresult[w]

LEMMA SameKeeps ==
  ASSUME IInv, NEW w \in Workers \ torn, Same(w), NEW k \in 1 .. Len(params)
  PROVE  /\ (tmpresult[w][k])' # Undef => Fits((tmpresult[w][k])', (params[k].unit)')
         /\ (tmpresult[w][k])' # Undef <=> RowsFor(w, k)' # {}
<1>1. tmpresult'[w][k] = tmpresult[w][k] /\ params'[k].unit = params[k].unit
  BY DEF Same
<1>2. RowsFor(w, k)' = RowsFor(w, k)
  BY DEF Same, RowsFor, Belongs, LevelMatches, AgesFit
<1> QED
  BY <1>1, <1>2 DEF IInv, ColumnsInTheirUnit, ColumnsComplete

(* Each row fills the first of the parameters it belongs to, in its unit. *)
LEMMA ConvertedRow ==
  ASSUME IInv, NEW w \in Workers, ConvertRow(w), NEW k \in 1 .. Len(params), w \notin torn
  PROVE  /\ tmpresult'[w][k] # Undef => Fits(tmpresult'[w][k], params[k].unit)
         /\ tmpresult'[w][k] # Undef <=> RowsFor(w, k)' # {}
<1> DEFINE row == Row(w)
           dianaunit == ToDianaUnit(unit_map, row.unit)
           value == ConvertValue(dianaunit, row).value
           K == First(MappedTo(params, row, dianaunit))
<1>1. /\ m[w] \in Nat /\ m[w] < Len(rows[w]) /\ Len(rows[w]) \in Nat
      /\ m'[w] = m[w] + 1 /\ params' = params /\ rows' = rows
  BY RowsAreRows DEF IInv, TypeInv, ConvertRow, Converting
<1>2. row \in DatabaseRow /\ row \in RowType
  BY <1>1, RowsAreRows DEF IInv, Row
<1>3. dianaunit = ToDianaUnit(InitUnitMap, row.unit)
  BY DEF IInv, UnitsStay
<1>4. tmpresult'[w] = [l \in 1 .. Len(params) |-> IF l \in K THEN value ELSE tmpresult[w][l]]
  BY DEF IInv, TypeInv, ConvertRow, Fill
<1>5. tmpresult'[w][k] = IF k \in K THEN value ELSE tmpresult[w][k]
  BY <1>4
<1>6. value # Undef /\ Fits(value, dianaunit)
  BY <1>2, <1>3, ConvertedIsDefined, ConvertedFits
<1>7. \A l \in 1 .. Len(params) : params[l] \in ParamType
  BY DEF IInv, TypeInv
<1>8. \A l \in 1 .. Len(params) : IsMapped(params[l], row, dianaunit) <=> Belongs(params[l], row)
  BY <1>2, <1>3, <1>7, MappedIsBelongs
<1>9. Len(params) \in Nat
  BY DEF IInv, TypeInv
<1>10. k \in K <=> Belongs(params[k], row) /\ \A l \in 1 .. k - 1 : ~Belongs(params[l], row)
  <2>1. k \in K <=> /\ IsMapped(params[k], row, dianaunit)
                    /\ \A l \in 1 .. Len(params) : IsMapped(params[l], row, dianaunit) => k <= l
    BY DEF First, MappedTo
  <2>2. \A l \in 1 .. k - 1 : l \in 1 .. Len(params) /\ ~(k <= l)
    BY <1>9
  <2>3. \A l \in 1 .. Len(params) : k <= l \/ l \in 1 .. k - 1
    BY <1>9
  <2> QED
    BY <1>8, <2>1, <2>2, <2>3
<1>11. RowsFor(w, k)' = RowsFor(w, k) \cup (IF k \in K THEN {m[w] + 1} ELSE {})
  <2>1. RowsFor(w, k)' = {n \in 1 .. m[w] + 1 : Belongs(params[k], rows[w][n])
                            /\ \A l \in 1 .. k - 1 : ~Belongs(params[l], rows[w][n])}
    BY <1>1 DEF RowsFor, Belongs, LevelMatches, AgesFit
  <2>2. 1 .. m[w] + 1 = (1 .. m[w]) \cup {m[w] + 1}
    BY <1>1
  <2>3. row = rows[w][m[w] + 1]
    BY DEF Row
  <2> HIDE DEF K, row
  <2> QED
    BY <1>10, <2>1, <2>2, <2>3 DEF RowsFor
<1>12. /\ tmpresult[w][k] # Undef => Fits(tmpresult[w][k], params[k].unit)
       /\ tmpresult[w][k] # Undef <=> RowsFor(w, k) # {}
  BY DEF IInv, ColumnsInTheirUnit, ColumnsComplete
<1>13. k \in K => dianaunit = params[k].unit
  BY DEF First, MappedTo, IsMapped
<1> HIDE DEF K, value, dianaunit
<1> QED
  BY <1>5, <1>6, <1>11, <1>12, <1>13

LEMMA Preserved == IInv /\ [Next]_vars => IInv'
<1> SUFFICES ASSUME IInv, [Next]_vars PROVE IInv'
  OBVIOUS
<1>1. ASSUME UNCHANGED <<params, rows, m, tmpresult, torn>>
      PROVE  TypeInv' /\ ColumnsInTheirUnit' /\ ColumnsComplete'
  <2>1. TypeInv'
    BY <1>1 DEF IInv, TypeInv
  <2>2. \A w \in Workers : Same(w)
    BY <1>1 DEF Same
  <2> QED
    BY <1>1, <2>1, <2>2, SameKeeps DEF ColumnsInTheirUnit, ColumnsComplete
<1>2. ASSUME NEW w \in Workers, InsertUnit(w)
      PROVE  IInv'
  <2>1. UnitsStay'
    BY <1>2 DEF InsertUnit, IInv, UnitsStay
  <2> QED
    BY <1>1, <1>2, <2>1 DEF InsertUnit, IInv
<1>3. ASSUME NEW w \in Workers, UnitInserted(w)
      PROVE  IInv'
  <2>1. ASSUME NEW u PROVE ToDianaUnit(unit_map', u) = ToDianaUnit(unit_map, u)
    BY <1>3 DEF UnitInserted, ToDianaUnit
  <2>2. UnitsStay'
    BY <2>1 DEF IInv, UnitsStay
  <2> QED
    BY <1>1, <1>3, <2>2 DEF UnitInserted, IInv
<1>4. ASSUME NEW w \in Workers, ConvertRow(w) \/ ConvertRowTorn(w)
      PROVE  TypeInv' /\ UnitsStay' /\ \A v \in Workers \ {w} : Same(v)
  <2>1. /\ params' = params /\ rows' = rows /\ unit_map' = unit_map
        /\ m' = [m EXCEPT ![w] = @ + 1]
        /\ m[w] < Len(rows[w])
    BY <1>4 DEF ConvertRow, ConvertRowTorn, Converting
  <2>2. PICK line : tmpresult' = [tmpresult EXCEPT ![w] = line]
    BY <1>4 DEF ConvertRow, ConvertRowTorn, Fill
  <2>3. m[w] \in Nat /\ Len(rows[w]) \in Nat
    BY RowsAreRows DEF IInv, TypeInv
  <2>4. TypeInv'
    <3>1. m' \in [Workers -> Nat] /\ \A v \in Workers : m'[v] <= Len(rows'[v])
      BY <2>1, <2>3 DEF IInv, TypeInv
    <3>2. tmpresult' = [v \in Workers |-> tmpresult'[v]]
      BY <2>2 DEF IInv, TypeInv
    <3> QED
      BY <2>1, <3>1, <3>2 DEF IInv, TypeInv
  <2>5. UnitsStay'
    BY <2>1 DEF IInv, UnitsStay
  <2>6. \A v \in Workers \ {w} : Same(v)
    BY <2>1, <2>2 DEF IInv, TypeInv, Same
  <2> QED
    BY <2>4, <2>5, <2>6
<1>5. ASSUME NEW w \in Workers, ConvertRow(w)
      PROVE  IInv'
  <2>1. torn' = torn /\ params' = params
    BY <1>5 DEF ConvertRow
  <2>2. ColumnsInTheirUnit'
    BY <1>4, <1>5, <2>1, SameKeeps, ConvertedRow DEF ColumnsInTheirUnit
  <2>3. ColumnsComplete'
    BY <1>4, <1>5, <2>1, SameKeeps, ConvertedRow DEF ColumnsComplete
  <2> QED
    BY <1>4, <1>5, <2>2, <2>3 DEF IInv
<1>6. ASSUME NEW w \in Workers, ConvertRowTorn(w)
      PROVE  IInv'
  <2>1. torn' = torn \cup {w} /\ params' = params
    BY <1>6 DEF ConvertRowTorn
  <2>2. ColumnsInTheirUnit'
    BY <1>4, <1>6, <2>1, SameKeeps DEF ColumnsInTheirUnit
  <2>3. ColumnsComplete'
    BY <1>4, <1>6, <2>1, SameKeeps DEF ColumnsComplete
  <2> QED
    BY <1>4, <1>6, <2>2, <2>3 DEF IInv
<1>7. CASE UNCHANGED vars
  <2>1. UnitsStay'
    BY <1>7 DEF vars, IInv, UnitsStay
  <2> QED
    BY <1>1, <1>7, <2>1 DEF vars, IInv
<1> QED
  BY <1>2, <1>3, <1>5, <1>6, <1>7 DEF Next, Done

(* The inductive invariant of the conversion of rows. *)
THEOREM InductiveInvariant == Spec => []IInv
  BY Initially, Preserved, PTL DEF Spec

(* Numbers are converted exactly when the database has another unit than    *)
(* the parameter file, for every parameter list and all rows.              *)
THEOREM NumbersInTheirUnit == Spec => []ColumnsInTheirUnit
<1>1. IInv => ColumnsInTheirUnit
  BY DEF IInv
<1> QED
  BY <1>1, InductiveInvariant, PTL

(* The loop of the worker over rows and parameters fills the columns that   *)
(* a plain reading of the parameters asks for, and no others.              *)
THEOREM ColumnsFilledAsAsked == Spec => []ColumnsComplete
<1>1. IInv => ColumnsComplete
  BY DEF IInv
<1> QED
  BY <1>1, InductiveInvariant, PTL

-----------------------------------------------------------------------------
(* The radiosonde path. *)

(* The value replaced, in any row. *)
LEMMA ValueReplaced ==
  ASSUME NEW row \in RowType, NEW v, NEW w
  PROVE  /\ [row EXCEPT !.value = v].value = v
         /\ [row EXCEPT !.value = v].unit = row.unit
         /\ [[row EXCEPT !.value = v] EXCEPT !.value = w] = [row EXCEPT !.value = w]
         /\ [row EXCEPT !.value = row.value] = row
  BY DEF RowType

(* What convertValue does to a row, as the value it puts into it. *)
Calculated(d, row, v) ==
  IF d = "C" THEN MinusZeroCelsius(v)
  ELSE IF d = "%" /\ row.unit # "percent" THEN TimesHundred(v)
  ELSE IF d = "hPa" THEN ByHundred(v)
  ELSE v

LEMMA ConvertValueCalculates ==
  ASSUME NEW row \in RowType, NEW d, NEW v
  PROVE  /\ ConvertValue(d, row) = [row EXCEPT !.value = Calculated(d, row, row.value)]
         /\ ConvertValue(d, [row EXCEPT !.value = v]) = [row EXCEPT !.value = Calculated(d, row, v)]
<1> DEFINE r == [row EXCEPT !.value = v]
<1>1. /\ r.value = v /\ r.unit = row.unit
      /\ \A w : [r EXCEPT !.value = w] = [row EXCEPT !.value = w]
      /\ [row EXCEPT !.value = row.value] = row
      /\ [row EXCEPT !.value = v] = r
  BY ValueReplaced
<1>2. ConvertValue(d, row) = [row EXCEPT !.value = Calculated(d, row, row.value)]
  BY <1>1 DEF ConvertValue, Calculated
<1> HIDE DEF r
<1>3. ConvertValue(d, r) = [row EXCEPT !.value = Calculated(d, row, v)]
  BY <1>1 DEF ConvertValue, Calculated
<1> QED
  BY <1>2, <1>3 DEF r

(* A value is calculated once; what is calculated again is wrong, or was     *)
(* never calculated.                                                       *)
LEMMA CalculatedAgain ==
  ASSUME NEW row, NEW d, NEW v
  PROVE  LET once == Calculated(d, row, v) twice == Calculated(d, row, once) IN
           /\ Calculated(d, row, twice) = twice
           /\ once = v \/ twice = Wrong
           /\ once = v => twice = once
BY DEF Calculated, MinusZeroCelsius, TimesHundred, ByHundred, Wrong

(* The copies of a row for K parameters. *)
AreCopies(d, row, K, copy) ==
  copy = [n \in 1 .. K |-> ConvertValue(d, IF n = 1 THEN row ELSE copy[n - 1])]

LEMMA RawCopiesAreCopies ==
  ASSUME NEW ps, NEW row
  PROVE  LET d == ToDianaUnit(InitUnitMap, row.unit) K == Cardinality(MappedTo(ps, row, d)) IN
           RawCopies(ps, row) = CHOOSE copy : AreCopies(d, row, K, copy)
BY DEF RawCopies, AreCopies

(* There are such copies: the first is converted once, the others twice.    *)
LEMMA CopiesExist ==
  ASSUME NEW row \in RowType, NEW d, NEW K \in Nat
  PROVE  \E copy : AreCopies(d, row, K, copy)
<1> DEFINE once == Calculated(d, row, row.value)
           twice == Calculated(d, row, once)
           first == [row EXCEPT !.value = once]
           again == [row EXCEPT !.value = twice]
           copy == [n \in 1 .. K |-> IF n = 1 THEN first ELSE again]
<1>1. /\ ConvertValue(d, row) = first
      /\ ConvertValue(d, first) = again
      /\ ConvertValue(d, again) = [row EXCEPT !.value = Calculated(d, row, twice)]
  BY ConvertValueCalculates
<1>2. Calculated(d, row, twice) = twice
  BY CalculatedAgain
<1>3. ConvertValue(d, again) = again
  BY <1>1, <1>2
<1> HIDE DEF once, twice, first, again
<1>4. ASSUME NEW n \in 1 .. K
      PROVE  ConvertValue(d, IF n = 1 THEN row ELSE copy[n - 1]) = IF n = 1 THEN first ELSE again
  <2>1. CASE n = 1
    BY <1>1, <2>1
  <2>2. CASE n # 1
    <3>1. n - 1 \in 1 .. K
      BY <2>2
    <3>2. copy[n - 1] = IF n - 1 = 1 THEN first ELSE again
      BY <3>1
    <3> HIDE DEF copy
    <3> QED
      BY <1>1, <1>3, <2>2, <3>2
  <2> QED
    BY <2>1, <2>2
<1>5. AreCopies(d, row, K, copy)
  BY <1>4 DEF AreCopies
<1> QED
  BY <1>5

(* And no others. *)
LEMMA CopiesCalculated ==
  ASSUME NEW row \in RowType, NEW d, NEW K \in Nat, NEW copy, AreCopies(d, row, K, copy),
         NEW c \in DOMAIN copy
  PROVE  LET once == Calculated(d, row, row.value) IN
           copy[c].value = IF c = 1 THEN once ELSE Calculated(d, row, once)
<1> DEFINE once == Calculated(d, row, row.value)
           twice == Calculated(d, row, once)
           first == [row EXCEPT !.value = once]
           again == [row EXCEPT !.value = twice]
           T == {n \in 1 .. K : copy[n] # (IF n = 1 THEN first ELSE again)}
<1>1. /\ ConvertValue(d, row) = first
      /\ ConvertValue(d, first) = again
      /\ ConvertValue(d, again) = [row EXCEPT !.value = Calculated(d, row, twice)]
  BY ConvertValueCalculates
<1>2. Calculated(d, row, twice) = twice
  BY CalculatedAgain
<1>3. ConvertValue(d, again) = again
  BY <1>1, <1>2
<1>4. first.value = once /\ again.value = twice
  BY ValueReplaced
<1>5. /\ DOMAIN copy = 1 .. K
      /\ \A n \in 1 .. K : copy[n] = ConvertValue(d, IF n = 1 THEN row ELSE copy[n - 1])
  BY DEF AreCopies
<1> HIDE DEF once, twice, first, again
<1>6. T = {}
  <2> SUFFICES ASSUME T # {} PROVE FALSE
    OBVIOUS
  <2>1. T \in SUBSET Nat
    OBVIOUS
  <2>2. PICK n \in T : \A l \in T : n <= l
    BY <2>1, LeastExists
  <2>3. n \in 1 .. K /\ copy[n] # (IF n = 1 THEN first ELSE again)
    OBVIOUS
  <2>4. CASE n = 1
    BY <1>1, <1>5, <2>3, <2>4
  <2>5. CASE n # 1
    <3>1. n - 1 \in 1 .. K /\ ~(n <= n - 1)
      BY <2>3, <2>5
    <3>2. copy[n - 1] = IF n - 1 = 1 THEN first ELSE again
      BY <2>2, <3>1
    <3>3. copy[n] = ConvertValue(d, copy[n - 1])
      BY <1>5, <2>3, <2>5
    <3> HIDE DEF T
    <3> QED
      BY <1>1, <1>3, <2>3, <2>5, <3>2, <3>3
  <2> QED
    BY <2>4, <2>5
<1>7. copy[c] = IF c = 1 THEN first ELSE again
  BY <1>5, <1>6
<1>8. copy[c].value = IF c = 1 THEN once ELSE twice
  BY <1>4, <1>7
<1> QED
  BY <1>8 DEF once, twice

(* As many as parameters of the list. *)
LEMMA MappedToIsFinite ==
  ASSUME NEW ps \in Seq(ParamType), NEW row, NEW d
  PROVE  Cardinality(MappedTo(ps, row, d)) \in Nat
<1>1. Len(ps) \in Nat /\ IsFiniteSet(1 .. Len(ps))
  BY FS_Interval
<1>2. MappedTo(ps, row, d) \in SUBSET (1 .. Len(ps))
  BY DEF MappedTo
<1> QED
  BY <1>1, <1>2, FS_Subset, FS_CardinalityType

(* A wrong number is in no unit of diana. *)
LEMMA WrongDoesNotFit == ASSUME NEW d PROVE ~Fits(Wrong, d)
<1>1. Wrong \notin {"C", "%", "hPa"}
  BY DEF Wrong
<1>2. Wrong \notin {"kelvin", "degree celsius", "metre", "metre per second", "knot", "proportion",
                   "kilogram per square metre", "percent", "degree true", "pascal", "code", "feet"}
  BY DEF Wrong
<1>3. Wrong \notin DOMAIN InitUnitMap
  BY <1>2, UnitMapDomain
<1> QED
  BY <1>1, <1>3 DEF Fits

LEMMA CopiesFit ==
  ASSUME NEW ps \in Seq(ParamType), NEW row \in DatabaseRow,
         NEW c \in DOMAIN RawCopies(ps, row)
  PROVE  LET copies == RawCopies(ps, row)
             d == ToDianaUnit(InitUnitMap, row.unit)
         IN  Fits(copies[c].value, d) <=> c = 1 \/ copies[1].value = row.value
<1> DEFINE copies == RawCopies(ps, row)
           d == ToDianaUnit(InitUnitMap, row.unit)
           K == Cardinality(MappedTo(ps, row, d))
           once == Calculated(d, row, row.value)
           twice == Calculated(d, row, once)
<1>1. row \in RowType
  BY DEF DatabaseRow
<1>2. K \in Nat
  BY MappedToIsFinite
<1>3. copies = CHOOSE copy : AreCopies(d, row, K, copy)
  BY RawCopiesAreCopies
<1>4. Fits(once, d)
  <2>1. Fits(ConvertValue(d, row).value, d)
    BY ConvertedFits
  <2>2. ConvertValue(d, row) = [row EXCEPT !.value = once]
    BY <1>1, ConvertValueCalculates
  <2>3. [row EXCEPT !.value = once].value = once
    BY <1>1, ValueReplaced
  <2> QED
    BY <2>1, <2>2, <2>3
<1>5. (once = row.value \/ twice = Wrong) /\ (once = row.value => twice = once)
  BY CalculatedAgain
<1>6. c \in DOMAIN copies
  OBVIOUS
<1> HIDE DEF copies, d, K
<1>7. AreCopies(d, row, K, copies)
  BY <1>1, <1>2, <1>3, CopiesExist
<1>8. \A n \in DOMAIN copies : copies[n].value = IF n = 1 THEN once ELSE twice
  BY <1>1, <1>2, <1>7, CopiesCalculated
<1> HIDE DEF once, twice
<1>9. DOMAIN copies = 1 .. K
  BY <1>7 DEF AreCopies
<1>10. 1 \in DOMAIN copies
  BY <1>2, <1>6, <1>9
<1>11. Fits(copies[c].value, d) <=> c = 1 \/ copies[1].value = row.value
  <2>1. CASE once = row.value
    BY <1>4, <1>5, <1>6, <1>8, <1>10, <2>1
  <2>2. CASE once # row.value
    BY <1>4, <1>5, <1>6, <1>8, <1>10, <2>2, WrongDoesNotFit
  <2> QED
    BY <2>1, <2>2
<1> QED
  BY <1>11 DEF copies, d

(* Of the copies of a row on the radiosonde path the first is converted as  *)
(* it should be, and every later one is wrong if there was something to    *)
(* convert: for every parameter list and every row of the database.        *)
THEOREM RawCopiesConvertedOnce == Spec => []RawCopiesInTheirUnit
<1>1. IInv => RawCopiesInTheirUnit
  <2> SUFFICES ASSUME IInv, NEW w \in Workers, NEW n \in 1 .. Len(rows[w])
               PROVE  LET row == rows[w][n]
                          copies == RawCopies(params, row)
                          dianaunit == ToDianaUnit(InitUnitMap, row.unit)
                      IN \A c \in DOMAIN copies :
                           Fits(copies[c].value, dianaunit) <=> c = 1 \/ copies[1].value = row.value
    BY DEF RawCopiesInTheirUnit
  <2>1. params \in Seq(ParamType) /\ rows[w][n] \in DatabaseRow
    BY RowsAreRows DEF IInv, TypeInv
  <2> QED
    BY <2>1, CopiesFit
<1> QED
  BY <1>1, InductiveInvariant, PTL
=============================================================================
