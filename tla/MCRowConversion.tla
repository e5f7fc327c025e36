-------------------------- MODULE MCRowConversion --------------------------
EXTENDS RowConversion, SequencesExt

Param(unit, cell) == [unit |-> unit] @@ Roadobs(cell)

Inst == <<"inst", Age(0, "m"), Age(0, "")>>
Sum12h == <<"sum", Age(-12, "h"), Age(0, "h")>>

Temperature == Param("C", <<4, <<6, 2>>, Inst>>)
AnyTemperature == Param("C", <<4, <<6>>, <<"inst", Star, Star>>>>)
Humidity == Param("%", <<7, <<6, 2>>, <<"inst", Age(0, "s"), Star>>>>)
Precipitation == Param("mm", <<12, <<6, 0, 0>>, Sum12h>>)
Pressure == Param("hPa", <<9, <<15>>, Inst>>)
Cloud == Param(NoUnit, <<4, <<6, 2>>, Inst>>)

MCParamLists ==
  {<<Temperature, Humidity, AnyTemperature>>, <<Precipitation, AnyTemperature, Cloud>>, <<Pressure, Temperature>>}

(* The reference time is 0. *)
DbRow(parameter, level, altitude, unit, stat, from, to) ==
  [parameter |-> parameter, srid |-> level + LevelOffset, from |-> altitude, to |-> altitude,
   unit |-> unit, stat |-> stat, validfrom |-> from, validto |-> to, reftime |-> 0,
   value |-> Expressed(unit)]

MCRow ==
  {DbRow(4, 6, 2, "kelvin", "Instantaneous", 0, 0),
   DbRow(4, 6, 10, "degree celsius", "Instantaneous", -600, -600),
   DbRow(4, 6, 2, "octa", "Instantaneous", 0, 0),
   DbRow(7, 6, 2, "percent", "Instantaneous", 0, 0),
   DbRow(7, 6, 2, "proportion", "Instantaneous", 0, 60),
   DbRow(9, 15, 0, "pascal", "Instantaneous", 0, 0),
   DbRow(12, 6, 0, "kilogram per square metre", "Sum", -43800, -600),
   DbRow(12, 6, 0, "kilogram per square metre", "Sum", -7200, -600)}

MCRows == {<<>>} \cup {<<r>> : r \in MCRow} \cup {<<r, s>> : r, s \in MCRow}

MCSymmetry == Permutations(Workers)
=============================================================================
