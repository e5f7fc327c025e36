------------------------- MODULE StationLineProofs -------------------------
(***************************************************************************)
(* Theorems about StationLine, for every set of types, times, intervals    *)
(* and positions and any number of parameters.                             *)
(***************************************************************************)
EXTENDS StationLine, ListLemmas

-----------------------------------------------------------------------------
(* The parts of a line. *)

(* A line whose values begin behind column n. *)
IsLine(line, n) ==
  /\ Len(line) = n + NumParams
  /\ \A i \in 1 .. Len(line) : line[i].field \in {"value", "undef"} <=> i > n

HeaderLength == IF type = "SHIP" THEN 3 ELSE 5

(* Fields that are no values, the position behind the third of them. *)
IsHeader(header, place) ==
  /\ IsList(header)
  /\ Len(header) = HeaderLength
  /\ \A n \in 1 .. HeaderLength : \E f, o : header[n] = Field(f, o) /\ f \notin {"value", "undef"}
  /\ type # "SHIP" => header[4].of = place /\ header[5].of = place

LEMMA ListsGrow ==
  ASSUME NEW A, NEW B, NEW list \in Seq(A)
  PROVE  list \in Seq(A \cup B) /\ list \in Seq(B \cup A)
<1>1. list \in [1 .. Len(list) -> A] /\ Len(list) \in Nat
  OBVIOUS
<1>2. list \in [1 .. Len(list) -> A \cup B] /\ list \in [1 .. Len(list) -> B \cup A]
  BY <1>1
<1> QED
  BY <1>1, <1>2, SeqDef

LEMMA Concatenated ==
  ASSUME NEW s, NEW t, IsList(s), IsList(t)
  PROVE  /\ IsList(s \o t)
         /\ Len(s) \in Nat /\ Len(t) \in Nat
         /\ Len(s \o t) = Len(s) + Len(t)
         /\ \A n \in 1 .. Len(s) : (s \o t)[n] = s[n]
         /\ \A n \in 1 .. Len(t) : (s \o t)[Len(s) + n] = t[n]
<1>1. PICK A : s \in Seq(A)
  BY DEF IsList
<1>2. PICK B : t \in Seq(B)
  BY DEF IsList
<1> DEFINE C == A \cup B
<1>3. s \in Seq(C) /\ t \in Seq(C)
  BY <1>1, <1>2, ListsGrow
<1> HIDE DEF C
<1> QED
  BY <1>3 DEF IsList

LEMMA HeaderIsHeader ==
  ASSUME NEW time, NEW place
  PROVE  IsHeader(Header(time, place), place)
<1> DEFINE start == <<Field("key", "station"), Field("date", time), Field("clock", time)>>
           pos == At(place)
<1>1. IsList(start) /\ Len(start) = 3
  <2>1. start \in Seq({start[1], start[2], start[3]})
    OBVIOUS
  <2> QED
    BY <2>1 DEF IsList
<1>2. start[1] = Field("key", "station") /\ start[2] = Field("date", time) /\ start[3] = Field("clock", time)
  OBVIOUS
<1>3. IsList(pos) /\ Len(pos) = 2
  <2>1. pos \in Seq({pos[1], pos[2]})
    BY DEF At
  <2> QED
    BY <2>1 DEF IsList, At
<1>4. pos[1] = Field("lat", place) /\ pos[2] = Field("lon", place)
  BY DEF At
<1>5. Field("lat", place).of = place /\ Field("lon", place).of = place
  BY DEF Field
<1>6. IsList(<<>>) /\ Len(<<>>) = 0
  <2>1. <<>> \in Seq({})
    OBVIOUS
  <2> QED
    BY <2>1 DEF IsList
<1> HIDE DEF start, pos
<1>7. CASE type = "SHIP"
  <2>1. Header(time, place) = start \o <<>>
    BY <1>7 DEF Header, start
  <2>2. /\ IsList(start \o <<>>) /\ Len(start \o <<>>) = 3
        /\ \A n \in 1 .. 3 : (start \o <<>>)[n] = start[n]
    BY <1>1, <1>6, Concatenated
  <2> QED
    BY <1>2, <1>7, <2>1, <2>2 DEF IsHeader, HeaderLength
<1>8. CASE type # "SHIP"
  <2>1. Header(time, place) = start \o pos
    BY <1>8 DEF Header, start, pos
  <2>2. /\ IsList(start \o pos) /\ Len(start \o pos) = 5
        /\ \A n \in 1 .. 3 : (start \o pos)[n] = start[n]
        /\ \A n \in 1 .. 2 : (start \o pos)[3 + n] = pos[n]
    <3>0. IsList(start) /\ IsList(pos)
      BY <1>1, <1>3
    <3>1. /\ IsList(start \o pos) /\ Len(start \o pos) = Len(start) + Len(pos)
          /\ \A n \in 1 .. Len(start) : (start \o pos)[n] = start[n]
          /\ \A n \in 1 .. Len(pos) : (start \o pos)[Len(start) + n] = pos[n]
      BY <3>0, Concatenated
    <3> QED
      BY <1>1, <1>3, <3>1
  <2>3. (start \o pos)[4] = pos[1] /\ (start \o pos)[5] = pos[2]
    BY <2>2
  <2> QED
    BY <1>2, <1>4, <1>5, <1>8, <2>1, <2>2, <2>3 DEF IsHeader, HeaderLength
<1> QED
  BY <1>7, <1>8

(* The time of a header replaced leaves it a header. *)
LEMMA WithTimeIsHeader ==
  ASSUME NEW header, NEW place, IsHeader(header, place), NEW time
  PROVE  IsHeader(WithTime(header, time), place) /\ WithTime(header, time)[2].of = time
<1> DEFINE new == WithTime(header, time)
<1>1. Len(header) = HeaderLength /\ HeaderLength \in Nat
  BY DEF IsHeader, HeaderLength
<1>2. new = [n \in 1 .. HeaderLength |->
               IF n \in {2, 3} THEN [header[n] EXCEPT !.of = time] ELSE header[n]]
  BY <1>1 DEF WithTime
<1>3. IsList(new) /\ Len(new) = HeaderLength
  <2>1. new \in [1 .. HeaderLength -> {new[n] : n \in 1 .. HeaderLength}]
    BY <1>2
  <2>2. new \in Seq({new[n] : n \in 1 .. HeaderLength})
    BY <1>1, <2>1, SeqDef
  <2>3. DOMAIN new = 1 .. HeaderLength
    BY <1>2
  <2> HIDE DEF new
  <2>4. Len(new) = HeaderLength
    BY <1>1, <2>2, <2>3
  <2> QED
    BY <2>2, <2>4 DEF IsList
<1>4. ASSUME NEW n \in 1 .. HeaderLength
      PROVE  \E f, o : new[n] = Field(f, o) /\ f \notin {"value", "undef"}
  <2>1. PICK f, o : header[n] = Field(f, o) /\ f \notin {"value", "undef"}
    BY DEF IsHeader
  <2>2. [header[n] EXCEPT !.of = time] = Field(f, time)
    BY <2>1 DEF Field
  <2>3. new[n] = Field(f, time) \/ new[n] = Field(f, o)
    BY <1>2, <2>1, <2>2
  <2> QED
    BY <2>1, <2>3
<1>5. type # "SHIP" => new[4] = header[4] /\ new[5] = header[5]
  BY <1>2 DEF HeaderLength
<1>6. new[2].of = time
  <2>1. 2 \in 1 .. HeaderLength
    BY DEF HeaderLength
  <2>2. PICK f, o : header[2] = Field(f, o)
    BY <2>1 DEF IsHeader
  <2>3. new[2] = [Field(f, o) EXCEPT !.of = time]
    BY <1>2, <2>1, <2>2
  <2> QED
    BY <2>3 DEF Field
<1> HIDE DEF new
<1>7. IsHeader(new, place)
  BY <1>3, <1>4, <1>5 DEF IsHeader
<1> QED
  BY <1>6, <1>7 DEF new

LEMMA ValuesAreValues ==
  ASSUME NEW kind \in {"value", "undef"}
  PROVE  /\ IsList(Values(kind)) /\ Len(Values(kind)) = NumParams
         /\ \A n \in 1 .. NumParams : Values(kind)[n].field \in {"value", "undef"}
<1> DEFINE values == Values(kind)
<1>1. NumParams \in Nat
  BY NumParamsAssumption
<1>2. values = [n \in 1 .. NumParams |-> Field(kind, "parameter")]
  BY DEF Values
<1>3. values \in [1 .. NumParams -> {Field(kind, "parameter")}]
  BY <1>2
<1>4. values \in Seq({Field(kind, "parameter")}) /\ DOMAIN values = 1 .. NumParams
  BY <1>1, <1>2, <1>3, SeqDef
<1>5. \A n \in 1 .. NumParams : values[n].field = kind
  BY <1>2 DEF Field
<1> HIDE DEF values
<1>6. Len(values) = NumParams
  BY <1>1, <1>4
<1>7. IsList(values) /\ \A n \in 1 .. NumParams : values[n].field \in {"value", "undef"}
  BY <1>4, <1>5 DEF IsList
<1> QED
  BY <1>6, <1>7 DEF values

(* A header, the position of a ship and the values make a line whose values *)
(* begin behind column 5, and whose columns 4 and 5 are the position.       *)
LEMMA FullLine ==
  ASSUME NEW header, NEW place, IsHeader(header, place), NEW kind \in {"value", "undef"}
  PROVE  LET line == header \o ShipPosition(place) \o Values(kind) IN
           IsLine(line, 5) /\ line[4].of = place /\ line[5].of = place
<1> DEFINE pos == ShipPosition(place)
           front == header \o pos
           values == Values(kind)
           line == front \o values
<1>1. /\ IsList(pos) /\ Len(pos) = 5 - HeaderLength
      /\ type = "SHIP" => /\ pos[1] = Field("lat", place)
                          /\ pos[2] = Field("lon", place)
  <2>1. CASE type = "SHIP"
    <3>1. pos = <<Field("lat", place), Field("lon", place)>>
      BY <2>1 DEF ShipPosition, At
    <3>2. pos \in Seq({Field("lat", place), Field("lon", place)})
      BY <3>1
    <3>3. Len(pos) = 2 /\ pos[1] = Field("lat", place) /\ pos[2] = Field("lon", place)
      BY <3>1
    <3>4. HeaderLength = 3
      BY <2>1 DEF HeaderLength
    <3> HIDE DEF pos
    <3> QED
      BY <3>2, <3>3, <3>4 DEF IsList
  <2>2. CASE type # "SHIP"
    <3>1. pos = <<>>
      BY <2>2 DEF ShipPosition
    <3>2. pos \in Seq({})
      BY <3>1
    <3> QED
      BY <2>2, <3>1, <3>2 DEF IsList, HeaderLength
  <2> QED
    BY <2>1, <2>2
<1>2. IsList(values) /\ Len(values) = NumParams
      /\ \A n \in 1 .. NumParams : values[n].field \in {"value", "undef"}
  BY ValuesAreValues
<1>3. IsList(header) /\ Len(header) = HeaderLength
  BY DEF IsHeader
<1>4. HeaderLength \in {3, 5}
  BY DEF HeaderLength
<1> HIDE DEF pos, values
<1>5. /\ IsList(front) /\ Len(front) = 5
      /\ \A n \in 1 .. HeaderLength : front[n] = header[n]
      /\ \A n \in 1 .. 5 - HeaderLength : front[HeaderLength + n] = pos[n]
  BY <1>1, <1>3, <1>4, Concatenated
<1>6. /\ front[4].of = place /\ front[5].of = place
      /\ \A n \in 1 .. 5 : front[n].field \notin {"value", "undef"}
  <2>1. \A n \in 1 .. HeaderLength : header[n].field \notin {"value", "undef"}
    BY DEF IsHeader, Field
  <2>2. CASE type = "SHIP"
    <3>1. HeaderLength = 3
      BY <2>2 DEF HeaderLength
    <3>2. front[4] = Field("lat", place) /\ front[5] = Field("lon", place)
      BY <1>1, <1>5, <2>2, <3>1
    <3>3. \A n \in 1 .. 5 : n \in 1 .. 3 \/ n = 4 \/ n = 5
      OBVIOUS
    <3> QED
      BY <1>5, <2>1, <3>1, <3>2, <3>3 DEF Field
  <2>3. CASE type # "SHIP"
    <3>1. HeaderLength = 5
      BY <2>3 DEF HeaderLength
    <3> QED
      BY <1>5, <2>1, <2>3, <3>1 DEF IsHeader
  <2> QED
    BY <2>2, <2>3
<1> HIDE DEF front
<1>7. /\ Len(line) = 5 + NumParams
      /\ \A n \in 1 .. 5 : line[n] = front[n]
      /\ \A n \in 1 .. NumParams : line[5 + n] = values[n]
  <2>0. IsList(front) /\ IsList(values)
    BY <1>2, <1>5
  <2>1. /\ Len(front \o values) = Len(front) + Len(values)
        /\ \A n \in 1 .. Len(front) : (front \o values)[n] = front[n]
        /\ \A n \in 1 .. Len(values) : (front \o values)[Len(front) + n] = values[n]
    BY <2>0, Concatenated
  <2> QED
    BY <1>2, <1>5, <2>1
<1> HIDE DEF line
<1>8. IsLine(line, 5)
  <2>1. NumParams \in Nat
    BY NumParamsAssumption
  <2>2. ASSUME NEW i \in 1 .. Len(line)
        PROVE  line[i].field \in {"value", "undef"} <=> i > 5
    <3>1. CASE i \in 1 .. 5
      BY <1>6, <1>7, <3>1
    <3>2. CASE i \notin 1 .. 5
      <4>1. i - 5 \in 1 .. NumParams /\ i = 5 + (i - 5) /\ i > 5
        BY <1>7, <2>1, <3>2
      <4> QED
        BY <1>2, <1>7, <4>1
    <3> QED
      BY <3>1, <3>2
  <2> QED
    BY <1>7, <2>2 DEF IsLine
<1>9. line[4].of = place /\ line[5].of = place
  BY <1>6, <1>7
<1> QED
  BY <1>8, <1>9 DEF line, front, pos, values

(* The line of a station not to plot ends its header at once. *)
LEMMA ShortLine ==
  ASSUME NEW header, NEW place, IsHeader(header, place), NEW kind \in {"value", "undef"}
  PROVE  IsLine(header \o Values(kind), HeaderLength)
<1> DEFINE values == Values(kind)
           line == header \o values
<1>1. IsList(values) /\ Len(values) = NumParams
      /\ \A n \in 1 .. NumParams : values[n].field \in {"value", "undef"}
  BY ValuesAreValues
<1>2. IsList(header) /\ Len(header) = HeaderLength
  BY DEF IsHeader
<1>3. \A n \in 1 .. HeaderLength : header[n].field \notin {"value", "undef"}
  BY DEF IsHeader, Field
<1>4. HeaderLength \in Nat /\ NumParams \in Nat
  BY NumParamsAssumption DEF HeaderLength
<1> HIDE DEF values
<1>5. /\ Len(line) = HeaderLength + NumParams
      /\ \A n \in 1 .. HeaderLength : line[n] = header[n]
      /\ \A n \in 1 .. NumParams : line[HeaderLength + n] = values[n]
  BY <1>1, <1>2, Concatenated
<1> HIDE DEF line
<1>6. ASSUME NEW i \in 1 .. Len(line)
      PROVE  line[i].field \in {"value", "undef"} <=> i > HeaderLength
  <2>1. CASE i \in 1 .. HeaderLength
    BY <1>3, <1>4, <1>5, <2>1
  <2>2. CASE i \notin 1 .. HeaderLength
    <3>1. i - HeaderLength \in 1 .. NumParams /\ i = HeaderLength + (i - HeaderLength) /\ i > HeaderLength
      BY <1>4, <1>5, <2>2
    <3> QED
      BY <1>1, <1>5, <3>1
  <2> QED
    BY <2>1, <2>2
<1> QED
  BY <1>5, <1>6 DEF IsLine, line, values

-----------------------------------------------------------------------------
(* The inductive invariant: besides the last line, the lines in the cache   *)
(* have their values where all lines have them, because they are given     *)
(* again.                                                                  *)

LastStart == IF type = "SHIP" /\ last.kind = "notplotted" THEN 3 ELSE 5

IInv ==
  /\ cached = [t \in Times |-> cached[t]]
  /\ \A t \in Times : cached[t] # NoLine => IsLine(cached[t], 5)
  /\ last.line # NoLine => IsLine(last.line, LastStart)
  /\ ShipLineHasOwnPosition

LEMMA Initially == Init => IInv
<1> SUFFICES ASSUME Init PROVE IInv
  OBVIOUS
<1> QED
  BY DEF Init, IInv, ShipLineHasOwnPosition

(* A call that gives a line of the cache. *)
LEMMA GivenAgain ==
  ASSUME IInv, NEW time \in Times, cached[time] # NoLine, Give("cached", time, cached[time]),
         type' = type, cached' = cached
  PROVE  IInv'
<1>1. last'.kind = "cached" /\ last'.line = cached[time]
  BY DEF Give
<1>2. LastStart' = 5
  BY <1>1 DEF LastStart
<1>3. IsLine(cached[time], 5)
  BY DEF IInv
<1>4. IsLine(last'.line, 5)
  BY <1>1, <1>3
<1>5. \A t \in Times : cached'[t] # NoLine => IsLine(cached'[t], 5)
  BY DEF IInv
<1> QED
  BY <1>1, <1>2, <1>4, <1>5 DEF IInv, ShipLineHasOwnPosition

LEMMA Preserved == IInv /\ [Next]_vars => IInv'
<1> SUFFICES ASSUME IInv, [Next]_vars PROVE IInv'
  OBVIOUS
<1>1. ASSUME cached' = cached
      PROVE  /\ cached' = [t \in Times |-> cached'[t]]
             /\ \A t \in Times : cached'[t] # NoLine => IsLine(cached'[t], 5)
  BY <1>1 DEF IInv
<1>2. ASSUME NEW time \in Times, GetCached(time) PROVE IInv'
  BY <1>2, GivenAgain DEF GetCached
<1>3. ASSUME NEW time \in Times, GetRows(time) PROVE IInv'
  <2>1. PICK row, here :
          LET line == WithTime(Header(time, position), HeaderTime(type, row))
                         \o ShipPosition(here) \o Values("value")
          IN /\ here = position \/ type = "SHIP"
             /\ position' = here
             /\ cached' = [cached EXCEPT ![time] = line]
             /\ Give("rows", time, line)
    BY <1>3 DEF GetRows
  <2> DEFINE header == WithTime(Header(time, position), HeaderTime(type, row))
             line == header \o ShipPosition(here) \o Values("value")
  <2>2. IsHeader(header, position)
    BY HeaderIsHeader, WithTimeIsHeader
  <2>3. IsHeader(header, here)
    BY <2>1, <2>2 DEF IsHeader
  <2>4. IsLine(line, 5) /\ line[4].of = here /\ line[5].of = here
    BY <2>3, FullLine
  <2> HIDE DEF line, header
  <2>5. /\ position' = here
        /\ cached' = [cached EXCEPT ![time] = line]
        /\ last'.kind = "rows" /\ last'.line = line
        /\ type' = type
    BY <1>3, <2>1 DEF Give, line, header, GetRows
  <2>6. \A t \in Times : cached'[t] # NoLine => IsLine(cached'[t], 5)
    BY <2>4, <2>5 DEF IInv
  <2>7. cached' = [t \in Times |-> cached'[t]]
    BY <2>5 DEF IInv
  <2>8. LastStart' = 5
    BY <2>5 DEF LastStart
  <2> QED
    BY <2>4, <2>5, <2>6, <2>7, <2>8 DEF IInv, IsLine, ShipLineHasOwnPosition
<1>4. ASSUME NEW time \in Times, GetNoRows(time) PROVE IInv'
  <2> DEFINE line == Header(time, position) \o ShipPosition(position) \o Values("undef")
  <2>1. IsLine(line, 5)
    BY HeaderIsHeader, FullLine
  <2> HIDE DEF line
  <2>2. cached' = cached /\ type' = type /\ last'.kind = "norows" /\ last'.line = line
    BY <1>4 DEF GetNoRows, Give, line
  <2>3. LastStart' = 5
    BY <2>2 DEF LastStart
  <2> QED
    BY <1>1, <2>1, <2>2, <2>3 DEF IInv, IsLine, ShipLineHasOwnPosition
<1>5. ASSUME NEW time \in Times, GetNotPlotted(time) PROVE IInv'
  <2> DEFINE line == Header(time, position) \o Values("undef")
  <2>1. IsLine(line, HeaderLength)
    BY HeaderIsHeader, ShortLine
  <2> HIDE DEF line
  <2>2. cached' = cached /\ type' = type /\ last'.kind = "notplotted" /\ last'.line = line
    BY <1>5 DEF GetNotPlotted, Give, line
  <2>3. LastStart' = HeaderLength
    BY <2>2 DEF LastStart, HeaderLength
  <2> QED
    BY <1>1, <2>1, <2>2, <2>3 DEF IInv, IsLine, ShipLineHasOwnPosition
<1>6. ASSUME NEW time \in Times, InitData(time) PROVE IInv'
  <2>1. CASE cached[time] # NoLine
    BY <1>6, <2>1, GivenAgain DEF InitData
  <2>2. CASE cached[time] = NoLine
    <3> DEFINE line == Header(time, position) \o ShipPosition(position) \o Values("undef")
    <3>1. IsLine(line, 5)
      BY HeaderIsHeader, FullLine
    <3> HIDE DEF line
    <3>2. cached' = cached /\ type' = type /\ last'.kind = "dummy" /\ last'.line = line
      BY <1>6, <2>2 DEF InitData, Give, line
    <3>3. LastStart' = 5
      BY <3>2 DEF LastStart
    <3> QED
      BY <1>1, <3>1, <3>2, <3>3 DEF IInv, IsLine, ShipLineHasOwnPosition
  <2> QED
    BY <2>1, <2>2
<1>7. ASSUME NEW time \in Times, GetNothing(time) \/ GetRowsFail(time) PROVE IInv'
  <2>1. cached' = cached /\ last'.kind = "failed" /\ last'.line = NoLine
    BY <1>7 DEF GetNothing, GetRowsFail, Give
  <2> QED
    BY <1>1, <2>1 DEF IInv, IsLine, ShipLineHasOwnPosition
<1>8. CASE UNCHANGED vars
  BY <1>8 DEF vars, IInv, IsLine, LastStart, ShipLineHasOwnPosition
<1> QED
  BY <1>2, <1>3, <1>4, <1>5, <1>6, <1>7, <1>8 DEF Next

(* The inductive invariant of the lines of a station. *)
THEOREM InductiveInvariant == Spec => []IInv
  BY Initially, Preserved, PTL DEF Spec

(* The values of a line stand where those of every other line stand, for    *)
(* any number of parameters and whichever calls gave it, except in the line *)
(* of a ship not to plot.                                                  *)
THEOREM ValuesAligned == Spec => []ValuesStartAtTheSameColumn
<1>1. ASSUME IInv PROVE ValuesStartAtTheSameColumn
  <2> SUFFICES ASSUME last.line # NoLine
               PROVE  /\ Len(last.line) = LastStart + NumParams
                      /\ \A n \in 1 .. Len(last.line) :
                           last.line[n].field \in {"value", "undef"} <=> n > Len(last.line) - NumParams
    BY DEF ValuesStartAtTheSameColumn, LastStart
  <2>1. IsLine(last.line, LastStart)
    BY <1>1 DEF IInv
  <2>2. LastStart \in Nat /\ NumParams \in Nat
    BY NumParamsAssumption DEF LastStart
  <2>3. Len(last.line) - NumParams = LastStart
    BY <2>1, <2>2 DEF IsLine
  <2> QED
    BY <2>1, <2>3 DEF IsLine
<1> QED
  BY <1>1, InductiveInvariant, PTL

(* The line of a ship has the position of the rows it was built from. *)
THEOREM OwnPosition == Spec => []ShipLineHasOwnPosition
<1>1. IInv => ShipLineHasOwnPosition
  BY DEF IInv
<1> QED
  BY <1>1, InductiveInvariant, PTL

(* No call changes a line in the cache or moves a station on land. *)
THEOREM CacheAndPlacesStay == Spec => CachedLinesAndPlacesStay
<1> DEFINE Stay == /\ \A t \in Times : cached[t] # NoLine => cached'[t] = cached[t]
                   /\ type # "SHIP" => position' = position
<1>1. ASSUME IInv, [Next]_vars PROVE Stay \/ UNCHANGED vars
  <2>1. ASSUME NEW time \in Times, GetRows(time) PROVE Stay
    <3>1. cached[time] = NoLine
      BY <2>1 DEF GetRows
    <3>2. PICK line : cached' = [cached EXCEPT ![time] = line]
      BY <2>1 DEF GetRows
    <3>3. type # "SHIP" => position' = position
      BY <2>1 DEF GetRows
    <3> QED
      BY <1>1, <3>1, <3>2, <3>3 DEF IInv
  <2>2. ASSUME NEW time \in Times, ~GetRows(time),
               \/ GetCached(time) \/ GetNoRows(time) \/ GetNotPlotted(time)
               \/ GetNothing(time) \/ GetRowsFail(time) \/ InitData(time)
        PROVE  Stay
    BY <2>2 DEF GetCached, GetNoRows, GetNotPlotted, GetNothing, GetRowsFail, InitData
  <2> QED
    BY <1>1, <2>1, <2>2 DEF Next
<1> QED
  BY <1>1, InductiveInvariant, PTL DEF Spec, CachedLinesAndPlacesStay

-----------------------------------------------------------------------------
(* The columns of the queries. *)

LEMMA TailFields ==
  /\ IsList(Tail15) /\ Len(Tail15) = 18
  /\ Tail15[1] = "parameter_id" /\ Tail15[2] = "level_parameter_id" /\ Tail15[3] = "level_from"
  /\ Tail15[4] = "level_to" /\ Tail15[6] = "statistics_type" /\ Tail15[7] = "value"
  /\ Tail15[8] = "parameter_unit" /\ Tail15[9] = "quality" /\ Tail15[10] = "automation_code"
  /\ Tail15[11] = "reference_time" /\ Tail15[12] = "valid_from" /\ Tail15[13] = "valid_to"
  /\ Tail15[16] = "observation_sampling_time_seconds"
  /\ Tail15[17] = "offset_from_time_tick_seconds" /\ Tail15[18] = "value_version_number"
<1> DEFINE S == {Tail15[n] : n \in 1 .. 18}
<1>1. DOMAIN Tail15 = 1 .. 18 /\ Len(Tail15) = 18
  BY DEF Tail15
<1>2. Tail15 = [n \in 1 .. 18 |-> Tail15[n]]
  BY DEF Tail15
<1>3. Tail15 \in [1 .. 18 -> S]
  BY <1>2
<1>4. Tail15 \in Seq(S)
  BY <1>3, SeqDef
<1>5. IsList(Tail15)
  BY <1>4 DEF IsList
<1> QED
  BY <1>1, <1>5 DEF Tail15

(* The columns of a query behind those that identify the station. *)
LEMMA BehindFront ==
  ASSUME NEW front, IsList(front), NEW columns, columns = front \o Tail15
  PROVE  /\ \A n \in 1 .. Len(front) : columns[n] = front[n]
         /\ \A n \in 1 .. 18 : columns[Len(front) + n] = Tail15[n]
<1>1. /\ \A n \in 1 .. Len(front) : (front \o Tail15)[n] = front[n]
      /\ \A n \in 1 .. Len(Tail15) : (front \o Tail15)[Len(front) + n] = Tail15[n]
  <2>1. IsList(Tail15)
    BY TailFields
  <2> QED
    BY <2>1, Concatenated
<1> QED
  BY <1>1, TailFields

LEMMA WmoFields ==
  /\ WmoColumns[3] = "position_id" /\ WmoColumns[4] = "lat" /\ WmoColumns[5] = "lon"
  /\ \A n \in 1 .. 18 : WmoColumns[5 + n] = Tail15[n]
<1> DEFINE front == <<"wmo_block", "wmo_number", "position_id", "lat", "lon">>
<1>1. front \in Seq({"wmo_block", "wmo_number", "position_id", "lat", "lon"}) /\ Len(front) = 5
  OBVIOUS
<1>2. front[3] = "position_id" /\ front[4] = "lat" /\ front[5] = "lon"
  OBVIOUS
<1>3. WmoColumns = front \o Tail15
  BY DEF WmoColumns
<1>4. IsList(front)
  BY <1>1 DEF IsList
<1> HIDE DEF front
<1>5. /\ \A n \in 1 .. Len(front) : WmoColumns[n] = front[n]
      /\ \A n \in 1 .. 18 : WmoColumns[Len(front) + n] = Tail15[n]
  BY <1>3, <1>4, BehindFront
<1> QED
  BY <1>1, <1>2, <1>5

LEMMA IcaoFields ==
  /\ IcaoColumns[2] = "position_id" /\ IcaoColumns[3] = "lat" /\ IcaoColumns[4] = "lon"
  /\ \A n \in 1 .. 18 : IcaoColumns[4 + n] = Tail15[n]
<1> DEFINE front == <<"icao_code", "position_id", "lat", "lon">>
<1>1. front \in Seq({"icao_code", "position_id", "lat", "lon"}) /\ Len(front) = 4
  OBVIOUS
<1>2. front[2] = "position_id" /\ front[3] = "lat" /\ front[4] = "lon"
  OBVIOUS
<1>3. IcaoColumns = front \o Tail15
  BY DEF IcaoColumns
<1>4. IsList(front)
  BY <1>1 DEF IsList
<1> HIDE DEF front
<1>5. /\ \A n \in 1 .. Len(front) : IcaoColumns[n] = front[n]
      /\ \A n \in 1 .. 18 : IcaoColumns[Len(front) + n] = Tail15[n]
  BY <1>3, <1>4, BehindFront
<1> QED
  BY <1>1, <1>2, <1>5

LEMMA ShipFields ==
  /\ ShipColumns[2] = "sender_id" /\ ShipColumns[3] = "lat" /\ ShipColumns[4] = "lon"
  /\ \A n \in 1 .. 18 : ShipColumns[4 + n] = Tail15[n]
<1> DEFINE front == <<"ship_id", "sender_id", "lat", "lon">>
<1>1. front \in Seq({"ship_id", "sender_id", "lat", "lon"}) /\ Len(front) = 4
  OBVIOUS
<1>2. front[2] = "sender_id" /\ front[3] = "lat" /\ front[4] = "lon"
  OBVIOUS
<1>3. ShipColumns = front \o Tail15
  BY DEF ShipColumns
<1>4. IsList(front)
  BY <1>1 DEF IsList
<1> HIDE DEF front
<1>5. /\ \A n \in 1 .. Len(front) : ShipColumns[n] = front[n]
      /\ \A n \in 1 .. 18 : ShipColumns[Len(front) + n] = Tail15[n]
  BY <1>3, <1>4, BehindFront
<1> QED
  BY <1>1, <1>2, <1>5

(* An index of the header file finds the column of its name in the query of *)
(* each type.                                                              *)
LEMMA ColumnsFound ==
  ASSUME NEW t \in {"WMO", "ICAO", "SHIP"}
  PROVE  /\ t = "SHIP" => Column(t, "sender_id") = "sender_id"
         /\ t # "SHIP" => Column(t, "position_id") = "position_id"
         /\ Column(t, "lat") = "lat" /\ Column(t, "lon") = "lon"
         /\ Column(t, "level_from") = "level_from" /\ Column(t, "level_to") = "level_to"
         /\ Column(t, "valid_from") = "valid_from" /\ Column(t, "valid_to") = "valid_to"
         /\ Column(t, "level_parameter_id") = "level_parameter_id"
         /\ Column(t, "quality") = "quality" /\ Column(t, "parameter_id") = "parameter_id"
         /\ Column(t, "value") = "value" /\ Column(t, "unit") = "parameter_unit"
         /\ Column(t, "reference_time") = "reference_time"
         /\ Column(t, "value_version_number") = "value_version_number"
         /\ Column(t, "automation_code") = "automation_code"
         /\ Column(t, "statistics_type") = "statistics_type"
<1>1. CASE t = "WMO"
  <2>1. \A i : Column(t, i) = WmoColumns[WmoIndex[i] + 1]
    BY <1>1 DEF Column
  <2> QED
    BY <1>1, <2>1, WmoFields, TailFields DEF WmoIndex
<1>2. CASE t = "ICAO"
  <2>1. \A i : Column(t, i) = IcaoColumns[WmoIndex[i] - 1 + 1]
    BY <1>2 DEF Column
  <2> QED
    BY <1>2, <2>1, IcaoFields, TailFields DEF WmoIndex
<1>3. CASE t = "SHIP"
  <2>1. \A i : Column(t, i) = ShipColumns[ShipIndex[i] + 1]
    BY <1>3 DEF Column
  <2> QED
    BY <1>3, <2>1, ShipFields, TailFields DEF ShipIndex
<1> QED
  BY <1>1, <1>2, <1>3

LEMMA RowAttributes ==
  ASSUME type \in {"WMO", "ICAO", "SHIP"}
  PROVE  AttributesFromTheirColumns
<1> DEFINE c == CRow(type)
<1>1. /\ c.dataprovider = IF type = "SHIP" THEN Column(type, "sender_id") ELSE Column(type, "position_id")
      /\ c.lat = Column(type, "lat") /\ c.lon = Column(type, "lon")
      /\ c.altitudefrom = Column(type, "level_from") /\ c.altitudeto = Column(type, "level_to")
      /\ c.validtimefrom = Column(type, "valid_from") /\ c.validtimeto = Column(type, "valid_to")
      /\ c.reftime = RefTime(type) /\ c.srid = Column(type, "level_parameter_id")
      /\ c.quality = Column(type, "quality") /\ c.parameter = Column(type, "parameter_id")
      /\ c.floatvalue = Column(type, "value") /\ c.unit = Column(type, "unit")
      /\ c.storetime = Column(type, "reference_time")
      /\ c.dataversion = Column(type, "value_version_number")
      /\ c.automationcode = Column(type, "automation_code")
      /\ c.statisticstype = Column(type, "statistics_type")
  BY DEF CRow
<1> HIDE DEF c
<1> QED
  BY <1>1, ColumnsFound DEF AttributesFromTheirColumns, RefTime, c

(* What is taken off the reference time is not negative, whichever column   *)
(* of the interval it is read from.                                        *)
LEMMA ReadBackwards ==
  ASSUME NEW time \in Nat, Intervals \subseteq Nat, type \in {"WMO", "ICAO", "SHIP"}, NEW row \in FirstRows(time)
  PROVE  HeaderTime(type, row) <= time
<1>1. PICK sampling \in Intervals, offset \in IF type = "ICAO" THEN {3600 - (time % 3600)} ELSE Intervals :
        row = [c \in {"reference_time", "valid_to", "offset_from_time_tick_seconds",
                      "observation_sampling_time_seconds"} |->
                 CASE c = "reference_time" -> time + (IF type = "ICAO" THEN offset ELSE 0)
                   [] c = "valid_to" -> time - (IF type = "ICAO" THEN 0 ELSE offset)
                   [] c = "offset_from_time_tick_seconds" -> offset
                   [] OTHER -> sampling]
  BY DEF FirstRows
<1>2. /\ row["reference_time"] = time + (IF type = "ICAO" THEN offset ELSE 0)
      /\ row["valid_to"] = time - (IF type = "ICAO" THEN 0 ELSE offset)
      /\ row["offset_from_time_tick_seconds"] = offset
      /\ row["observation_sampling_time_seconds"] = sampling
  BY <1>1
<1>3. sampling \in Nat /\ (type # "ICAO" => offset \in Nat)
  BY <1>1
<1>4. HeaderTime(type, row) = row[RefTime(type)] - row[SecColumn(type)]
  BY DEF HeaderTime, CRow
<1>5. RefTime(type) = IF type = "WMO" THEN "reference_time" ELSE "valid_to"
  BY ColumnsFound DEF RefTime
<1>6. SecColumn(type) = IF type = "SHIP" THEN "offset_from_time_tick_seconds"
                        ELSE "observation_sampling_time_seconds"
  <2>1. CASE type = "WMO"
    <3>1. SecColumn(type) = WmoColumns[20 + 1]
      BY <2>1 DEF SecColumn, ColumnsOf, ShipIndex
    <3> QED
      BY <2>1, <3>1, WmoFields, TailFields
  <2>2. CASE type = "ICAO"
    <3>1. SecColumn(type) = IcaoColumns[20 - 1 + 1]
      BY <2>2 DEF SecColumn, ColumnsOf, ShipIndex
    <3> QED
      BY <2>2, <3>1, IcaoFields, TailFields
  <2>3. CASE type = "SHIP"
    <3>1. SecColumn(type) = ShipColumns[20 + 1]
      BY <2>3 DEF SecColumn, ColumnsOf, ShipIndex
    <3> QED
      BY <2>3, <3>1, ShipFields, TailFields
  <2> QED
    BY <2>1, <2>2, <2>3
<1> QED
  BY <1>2, <1>3, <1>4, <1>5, <1>6

(* A header stays the beginning of its line. *)
LEMMA LineBeginsWithHeader ==
  ASSUME NEW header, NEW place, IsHeader(header, place), NEW kind \in {"value", "undef"}
  PROVE  (header \o ShipPosition(place) \o Values(kind))[2] = header[2]
<1> DEFINE pos == ShipPosition(place)
           front == header \o pos
           values == Values(kind)
<1>1. IsList(header) /\ Len(header) = HeaderLength /\ 2 \in 1 .. HeaderLength
  BY DEF IsHeader, HeaderLength
<1>2. IsList(pos)
  <2>1. CASE type = "SHIP"
    <3>1. <<Field("lat", place), Field("lon", place)>> \in Seq({Field("lat", place), Field("lon", place)})
      OBVIOUS
    <3> QED
      BY <2>1, <3>1 DEF ShipPosition, At, IsList
  <2>2. CASE type # "SHIP"
    BY <2>2, EmptyIsList DEF ShipPosition
  <2> QED
    BY <2>1, <2>2
<1>3. IsList(values)
  BY ValuesAreValues
<1> HIDE DEF pos, values
<1>4. IsList(front) /\ Len(front) = Len(header) + Len(pos) /\ Len(pos) \in Nat
      /\ \A n \in 1 .. Len(header) : front[n] = header[n]
  BY <1>1, <1>2, Concatenated
<1> HIDE DEF front
<1>5. \A n \in 1 .. Len(front) : (front \o values)[n] = front[n]
  BY <1>3, <1>4, Concatenated
<1>6. 2 \in 1 .. Len(front) /\ front[2] = header[2]
  BY <1>1, <1>4 DEF HeaderLength
<1>7. (front \o values)[2] = header[2]
  BY <1>5, <1>6
<1> QED
  BY <1>7 DEF front, pos, values

-----------------------------------------------------------------------------
(* The type of the station is one of those with a query, and the header     *)
(* time is not after the time asked for.                                   *)
TypeInv == type \in {"WMO", "ICAO", "SHIP"}

TimeInv == TypeInv /\ HeaderTimeNotLater

LEMMA TimeInitially == Init => TimeInv
  BY TypesAssumption DEF Init, TimeInv, TypeInv, HeaderTimeNotLater

LEMMA TimePreserved == TimeInv /\ [Next]_vars => TimeInv'
<1> SUFFICES ASSUME TimeInv, [Next]_vars PROVE TimeInv'
  OBVIOUS
<1>1. TypeInv'
  BY DEF TimeInv, TypeInv, Next, vars, GetCached, GetRows, GetNoRows, GetNotPlotted, GetNothing, GetRowsFail, InitData
<1>2. ASSUME NEW time \in Times, GetRows(time) PROVE HeaderTimeNotLater'
  <2>1. PICK row, here :
          /\ row \in FirstRows(time)
          /\ here = position \/ type = "SHIP"
          /\ Give("rows", time, WithTime(Header(time, position), HeaderTime(type, row))
                                  \o ShipPosition(here) \o Values("value"))
    BY <1>2 DEF GetRows
  <2> DEFINE header == WithTime(Header(time, position), HeaderTime(type, row))
             line == header \o ShipPosition(here) \o Values("value")
  <2>2. IsHeader(header, position) /\ header[2].of = HeaderTime(type, row)
    BY HeaderIsHeader, WithTimeIsHeader
  <2>3. IsHeader(header, here)
    BY <2>1, <2>2 DEF IsHeader
  <2>4. line[2] = header[2]
    BY <2>3, LineBeginsWithHeader
  <2>5. HeaderTime(type, row) <= time
    BY <2>1, ReadBackwards, TimesAssumption DEF TimeInv, TypeInv
  <2>6. last' = [kind |-> "rows", time |-> time, line |-> line]
    BY <2>1 DEF Give
  <2> HIDE DEF line, header
  <2> QED
    BY <2>2, <2>4, <2>5, <2>6 DEF HeaderTimeNotLater
<1>3. ASSUME NEW time \in Times,
             \/ GetCached(time) \/ GetNoRows(time) \/ GetNotPlotted(time)
             \/ GetNothing(time) \/ GetRowsFail(time) \/ InitData(time)
      PROVE  HeaderTimeNotLater'
  BY <1>3 DEF GetCached, GetNoRows, GetNotPlotted, GetNothing, GetRowsFail, InitData, Give, HeaderTimeNotLater
<1>4. CASE UNCHANGED vars
  <2>1. last' = last
    BY <1>4 DEF vars
  <2> QED
    BY <1>1, <2>1 DEF TimeInv, HeaderTimeNotLater
<1> QED
  BY <1>1, <1>2, <1>3, <1>4 DEF Next, TimeInv

(* The worker only builds lines for the types it has a query for, and the   *)
(* time it writes into the header is not after the time asked for.         *)
THEOREM TimeInvariant == Spec => []TimeInv
  BY TimeInitially, TimePreserved, PTL DEF Spec

(* Every attribute of a row is read from the column it is named for, in the *)
(* query of every type: the index of the header file, less one for a metar, *)
(* is the place of that column in the SELECT.                              *)
THEOREM AttributesFromColumns == Spec => []AttributesFromTheirColumns
<1>1. TimeInv => AttributesFromTheirColumns
  BY RowAttributes DEF TimeInv, TypeInv
<1> QED
  BY <1>1, TimeInvariant, PTL

(* The time of a line with observations is not after the time asked for,    *)
(* for every time, sampling time and offset that is not negative.          *)
THEOREM HeaderTimesNotLater == Spec => []HeaderTimeNotLater
<1>1. TimeInv => HeaderTimeNotLater
  BY DEF TimeInv
<1> QED
  BY <1>1, TimeInvariant, PTL
=============================================================================
