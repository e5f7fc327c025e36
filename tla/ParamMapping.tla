---------------------------- MODULE ParamMapping ----------------------------
(***************************************************************************)
(* The operators of diParam: how a cell of the parameter file becomes the  *)
(* parameter a row is compared with, when a row of the database belongs to *)
(* a parameter (isMapped), and what happens to its value (convertValue).   *)
(*                                                                         *)
(* A value is abstracted to the unit its number is expressed in, so that a *)
(* conversion left out, applied twice or applied to the wrong number shows.*)
(* Times are seconds.  Texts of the file are the tokens they are split in. *)
(***************************************************************************)
EXTENDS Integers, Sequences

AnyAge   == 2147483647   \* LONG_MAX, a "*" in the file
AnyFrom  == -32767
AnyTo    == 32767
AnyLevel == 15
LevelOffset == 1000      \* added to the level types of file and database

-----------------------------------------------------------------------------
(* Units. *)

UnitPairs ==
  {<<"kelvin", "C">>, <<"degree celsius", "C">>, <<"metre", "m">>,
   <<"metre per second", "m/s">>, <<"knot", "knot">>, <<"proportion", "%">>,
   <<"kilogram per square metre", "mm">>, <<"percent", "%">>,
   <<"degree true", "degree">>, <<"pascal", "hPa">>, <<"code", "code">>,
   <<"feet", "feet">>}

(* unit_map as init_unit_map leaves it. *)
InitUnitMap ==
  [u \in {pair[1] : pair \in UnitPairs} |-> (CHOOSE pair \in UnitPairs : pair[1] = u)[2]]

NoUnit == ""

(* toDianaUnit without the entry operator[] makes for an unknown unit. *)
ToDianaUnit(unit_map, roadunit) ==
  IF roadunit \in DOMAIN unit_map THEN unit_map[roadunit] ELSE NoUnit

(* What a number labelled with a unit of the database is expressed in: the  *)
(* label "degree celsius" is put on numbers in kelvin, "a bug in mora".     *)
Expressed(roadunit) == IF roadunit = "degree celsius" THEN "kelvin" ELSE roadunit

Wrong == "wrong"

(* The three calculations, on what a number is expressed in. *)
MinusZeroCelsius(x) == IF x = "kelvin" THEN "C" ELSE Wrong
TimesHundred(x)     == IF x = "proportion" THEN "%" ELSE Wrong
ByHundred(x)        == IF x = "pascal" THEN "hPa" ELSE Wrong

(* Mutant of ConvertValue: values in percent are multiplied as well. *)
ConvertValuePercentToo(dianaunit, row) ==
  IF dianaunit = "C" THEN [row EXCEPT !.value = MinusZeroCelsius(@)]
  ELSE IF dianaunit = "%" THEN [row EXCEPT !.value = TimesHundred(@)]
  ELSE IF dianaunit = "hPa" THEN [row EXCEPT !.value = ByHundred(@)]
  ELSE row

(* convertValue changes the number and leaves the label.  integervalue is   *)
(* always null.                                                            *)
ConvertValue(dianaunit, row) ==
  IF dianaunit = "C" THEN [row EXCEPT !.value = MinusZeroCelsius(@)]
  ELSE IF dianaunit = "%" /\ row.unit # "percent" THEN [row EXCEPT !.value = TimesHundred(@)]
  ELSE IF dianaunit = "hPa" THEN [row EXCEPT !.value = ByHundred(@)]
  ELSE row

(* A number expressed in x can stand in a column of a unit of the file. *)
Fits(x, unit) ==
  \/ x \in {"C", "%", "hPa"} /\ x = unit
  \/ x \in DOMAIN InitUnitMap \ {"kelvin", "proportion", "pascal"} /\ InitUnitMap[x] = unit
  \/ x \notin DOMAIN InitUnitMap \cup {"C", "%", "hPa", Wrong} /\ unit = NoUnit

-----------------------------------------------------------------------------
(* The cell #roadobs, "13 / 6 10.0 / avg -10m 0": groups <<id, level,       *)
(* statistics>>, a level <<type>>, <<type, altitude>> or <<type, from,     *)
(* to>>, statistics <<type, age, age>>, an age a number with a suffix.      *)

Age(count, suffix) == [count |-> count, suffix |-> suffix]
Star == Age(0, "*")

SecondsPer == [d |-> 86400, h |-> 3600, m |-> 60, s |-> 1]

FixAge(age) ==
  IF age.suffix = "*" THEN AnyAge
  ELSE IF age.suffix \in DOMAIN SecondsPer THEN age.count * SecondsPer[age.suffix]
  ELSE age.count

StatType ==
  [None |-> "Unknown", inst |-> "Instantaneous", avg |-> "Average", sum |-> "Sum",
   min |-> "Minimum", max |-> "Maximum", chg |-> "Change", stddev |-> "Std dev"]

FixStat(stat) == IF stat \in DOMAIN StatType THEN StatType[stat] ELSE ""

(* Two groups stand for no statistics at the reference time. *)
Groups(cell) ==
  IF Len(cell) = 2 THEN Append(cell, <<"None", Age(0, ""), Age(0, "")>>) ELSE cell

(* A type alone stands for every altitude, one altitude for both ends. *)
Level(tokens) ==
  IF Len(tokens) = 1 THEN <<tokens[1], AnyFrom, AnyTo>>
  ELSE IF Len(tokens) = 2 THEN <<tokens[1], tokens[2], tokens[2]>>
  ELSE tokens

(* setParams returns false for another number of groups or level tokens. *)
ValidRoadobs(cell) == Len(Groups(cell)) = 3 /\ Len(Level(Groups(cell)[2])) = 3

(* The attributes a valid cell gives to the parameter. *)
Roadobs(cell) ==
  LET level == Level(Groups(cell)[2])
      stats == Groups(cell)[3]
  IN [parameter |-> cell[1],
      srid |-> level[1] + LevelOffset, from |-> level[2], to |-> level[3],
      stat |-> FixStat(stats[1]), fromdelta |-> FixAge(stats[2]), todelta |-> FixAge(stats[3])]

-----------------------------------------------------------------------------
(* isMapped *)

LevelMatches(p, row) ==
  /\ p.from = AnyFrom \/ row.from = p.from
  /\ p.to = AnyTo \/ row.to = p.to
  /\ p.srid = AnyLevel \/ row.srid = p.srid

(* The happy case, the observation that is too late or too early, and the   *)
(* open intervals.                                                         *)
TimesMatch(p, row) ==
  LET from == row.validfrom - row.reftime
      to   == row.validto - row.reftime
      rightDuration == to - from = p.todelta - p.fromdelta
  IN IF p.fromdelta # AnyAge /\ p.todelta # AnyAge
     THEN \/ from = p.fromdelta /\ to = p.todelta /\ rightDuration
          \/ from # p.fromdelta /\ to # p.todelta /\ rightDuration
     ELSE /\ p.fromdelta # AnyAge => from = p.fromdelta
          /\ p.todelta # AnyAge => to = p.todelta

(* The comparisons before the first use of unit_map. *)
ReachesUnit(p, row) == row.parameter = p.parameter /\ LevelMatches(p, row)

IsMapped(p, row, dianaunit) ==
  /\ ReachesUnit(p, row)
  /\ dianaunit = p.unit
  /\ row.stat = p.stat
  /\ TimesMatch(p, row)
=============================================================================
