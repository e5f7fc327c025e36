------------------------ MODULE ParameterFileProofs ------------------------
(***************************************************************************)
(* Theorems about ParameterFile, for any number of files, every content    *)
(* and whatever the memory holds.                                          *)
(***************************************************************************)
EXTENDS ParameterFile, ListLemmas

IdsOf(list) == {list[n].attributes.parameter : n \in 1 .. Len(list)}

TypeInv ==
  /\ params_map = [f \in Files |-> params_map[f]]
  /\ roadparams_map = [f \in Files |-> roadparams_map[f]]
  /\ file # NoFile => file \in Files

(* The ids collected so far are those of the list so far, while a file is   *)
(* read and behind it.                                                     *)
Collected == IsList(params) /\ roadparams = IdsOf(params)

(* A published list and its ids are published together. *)
IInv == TypeInv /\ Collected /\ IdsAreThoseOfTheList

LEMMA AppendIds ==
  ASSUME NEW list, IsList(list), NEW p
  PROVE  IsList(Append(list, p)) /\ IdsOf(Append(list, p)) = IdsOf(list) \cup {p.attributes.parameter}
<1> DEFINE longer == Append(list, p)
<1>1. /\ IsList(longer) /\ Len(list) \in Nat /\ Len(longer) = Len(list) + 1
      /\ \A n \in 1 .. Len(list) : longer[n] = list[n]
      /\ longer[Len(list) + 1] = p
  BY AppendToList
<1> HIDE DEF longer
<1>2. 1 .. Len(longer) = (1 .. Len(list)) \cup {Len(list) + 1}
  BY <1>1
<1>3. IdsOf(longer) = IdsOf(list) \cup {p.attributes.parameter}
  BY <1>1, <1>2 DEF IdsOf
<1> QED
  BY <1>1, <1>3 DEF longer

LEMMA EmptyList == IsList(<<>>) /\ IdsOf(<<>>) = {}
  BY EmptyIsList DEF IdsOf

LEMMA Initially == Init => IInv
<1> SUFFICES ASSUME Init PROVE IInv
  OBVIOUS
<1>1. TypeInv
  BY DEF Init, TypeInv
<1>2. Collected
  BY EmptyList DEF Init, Collected
<1>3. Loaded = {}
  BY DEF Init, Loaded, NotLoaded
<1> QED
  BY <1>1, <1>2, <1>3 DEF IInv, IdsAreThoseOfTheList

LEMMA Preserved == IInv /\ [Next]_vars => IInv'
<1> SUFFICES ASSUME IInv, [Next]_vars PROVE IInv'
  OBVIOUS
<1> USE DEF IInv
<1>1. ASSUME UNCHANGED <<params, roadparams>> PROVE Collected'
  BY <1>1 DEF Collected
<1>2. ASSUME UNCHANGED maps, file' = file PROVE TypeInv' /\ IdsAreThoseOfTheList'
  BY <1>2 DEF maps, TypeInv, IdsAreThoseOfTheList, Loaded
<1>3. ASSUME NEW f \in Files, OpenFile(f) PROVE IInv'
  <2>1. Collected'
    BY <1>3, EmptyList DEF OpenFile, Collected
  <2>2. TypeInv' /\ IdsAreThoseOfTheList'
    BY <1>3 DEF OpenFile, maps, TypeInv, IdsAreThoseOfTheList, Loaded
  <2> QED
    BY <2>1, <2>2
<1>4. CASE ReadFirstLine
  BY <1>1, <1>2, <1>4 DEF ReadFirstLine, GetLine
<1>5. CASE ReadHeader
  BY <1>1, <1>2, <1>5 DEF ReadHeader, GetLine
<1>6. CASE ReadBlank
  BY <1>1, <1>2, <1>6 DEF ReadBlank, GetLine
<1>7. CASE ReadParam
  <2>1. PICK param, correct : AddParam(param, correct)
    BY <1>7 DEF ReadParam
  <2>2. Collected'
    BY <2>1, AppendIds DEF AddParam, Collected
  <2> QED
    BY <1>2, <1>7, <2>2 DEF ReadParam, GetLine
<1>8. CASE CloseFile
  <2>1. file \in Files
    BY <1>8 DEF CloseFile, TypeInv
  <2>2. Collected'
    BY <1>1, <1>8 DEF CloseFile
  <2>3. /\ params_map' = [params_map EXCEPT ![file] = List(params)]
        /\ roadparams_map' = [roadparams_map EXCEPT ![file] = List(roadparams)]
        /\ file' = NoFile
    BY <1>8 DEF CloseFile
  <2>4. TypeInv'
    BY <2>3 DEF TypeInv
  <2>5. ASSUME NEW f \in Loaded'
        PROVE  roadparams_map'[f].list = IdsOf(params_map'[f].list)
    <3>1. CASE f = file
      <4>1. params_map'[f].list = params /\ roadparams_map'[f].list = roadparams
        BY <2>1, <2>3, <3>1 DEF TypeInv, List
      <4> QED
        BY <4>1 DEF Collected
    <3>2. CASE f # file
      <4>1. f \in Files /\ params_map'[f] = params_map[f] /\ roadparams_map'[f] = roadparams_map[f]
        BY <2>3, <3>2 DEF TypeInv, Loaded
      <4>2. f \in Loaded
        BY <4>1 DEF Loaded
      <4> QED
        BY <4>1, <4>2 DEF IdsAreThoseOfTheList, IdsOf
    <3> QED
      BY <3>1, <3>2
  <2>6. IdsAreThoseOfTheList'
    BY <2>5 DEF IdsAreThoseOfTheList, IdsOf
  <2> QED
    BY <2>2, <2>4, <2>6
<1>9. CASE UNCHANGED vars
  BY <1>1, <1>2, <1>9 DEF vars, reading
<1> QED
  BY <1>3, <1>4, <1>5, <1>6, <1>7, <1>8, <1>9 DEF Next, Read, Done

(* The inductive invariant of reading parameter files. *)
THEOREM InductiveInvariant == Spec => []IInv
  BY Initially, Preserved, PTL DEF Spec

(* The queries ask for the parameters of the columns, for every content of  *)
(* the files: lines that are skipped leave no id behind.                   *)
THEOREM QueriesAskForColumns == Spec => []IdsAreThoseOfTheList
<1>1. IInv => IdsAreThoseOfTheList
  BY DEF IInv
<1> QED
  BY <1>1, InductiveInvariant, PTL

-----------------------------------------------------------------------------
(* The list of a file. *)

(* Two headers that give every index the same name say the same of a line. *)
LEMMA SameNames ==
  ASSUME NEW c, NEW d, \A i : Name(c, i) = Name(d, i), NEW cells
  PROVE  /\ \A name : Under(c, cells, name) = Under(d, cells, name)
         /\ IsCorrect(c, cells) <=> IsCorrect(d, cells)
         /\ \A name : TextUnder(c, cells, name) = TextUnder(d, cells, name)
<1>1. \A name : Under(c, cells, name) = Under(d, cells, name)
  BY DEF Under
<1>2. Invalid(c, cells) = Invalid(d, cells)
  BY <1>1 DEF Invalid
<1>3. ASSUME NEW name PROVE TextUnder(c, cells, name) = TextUnder(d, cells, name)
  <2>1. Under(c, cells, name) = Under(d, cells, name)
    BY <1>1
  <2> QED
    BY <2>1 DEF TextUnder
<1> QED
  BY <1>1, <1>2, <1>3 DEF IsCorrect

(* What setParams makes of a line is what the line says under the header. *)
LEMMA ParamSays ==
  ASSUME NEW f, NEW n, NEW columns, \A i : Name(columns, i) = Name(OwnColumns(f), i),
         Len(content[f][n].cells) \in Nat, NEW garbage
  PROVE  IsParamOf(Param(columns, content[f][n].cells, garbage), f, n)
<1> DEFINE cells == content[f][n].cells
           at == Under(columns, cells, "#roadobs")
           param == Param(columns, cells, garbage)
<1>1. at = Under(OwnColumns(f), cells, "#roadobs")
  BY SameNames
<1>2. /\ param.diananame = TextUnder(columns, cells, "#code")
      /\ param.unit = TextUnder(columns, cells, "#unit")
      /\ param.attributes = AttributesUnder(columns, cells, garbage)
  BY DEF Param
<1>3. /\ TextUnder(columns, cells, "#code") = TextUnder(OwnColumns(f), cells, "#code")
      /\ TextUnder(columns, cells, "#unit") = TextUnder(OwnColumns(f), cells, "#unit")
  BY SameNames
<1>4. ASSUME at # {} PROVE \E i \in at : param.attributes = Roadobs(cells[i].groups)
  <2>1. at \in SUBSET (0 .. Len(cells))
    BY DEF Under
  <2>2. PICK x \in at : \A y \in at : x >= y
    BY <1>4, <2>1, GreatestExists
  <2>3. Max(at) \in at
    BY <2>2 DEF Max
  <2>4. param.attributes = Roadobs(cells[Max(at)].groups)
    BY <1>2, <1>4 DEF AttributesUnder
  <2> QED
    BY <2>3, <2>4
<1> HIDE DEF param, at
<1> QED
  BY <1>1, <1>2, <1>3, <1>4 DEF IsParamOf, param

(* The list has the parameters of the lines up to line n, where they belong. *)
Listed(list, f, n) ==
  /\ Len(list) = Cardinality(UpTo(ParamLines(f), n))
  /\ \A l \in UpTo(ParamLines(f), n) : IsParamOf(list[Position(f, l)], f, l)

Complete(list, f) ==
  /\ Len(list) = Cardinality(ParamLines(f))
  /\ \A l \in ParamLines(f) : IsParamOf(list[Position(f, l)], f, l)

(* There is a next line as long as the stream is good.  From the header on   *)
(* every index has the name the file's own header gives it, whatever was in *)
(* index_column_map before and whatever operator[] added to it since.       *)
Reading ==
  file # NoFile =>
    /\ j \in Nat
    /\ good <=> j + 1 \in Delivered(file)
    /\ j > 1 => \A i : Name(index_column_map, i) = Name(OwnColumns(file), i)
    /\ Listed(params, file, j)

Published == \A f \in Loaded : Complete(params_map[f].list, f)

FileInv == content \in [Files -> Contents] /\ Reading /\ Published

LEMMA ContentIsLines ==
  ASSUME content \in [Files -> Contents], NEW f \in Files
  PROVE  /\ content[f] \in Seq(Range(content[f])) \ {<<>>}
         /\ \A n \in Delivered(f) : Len(content[f][n].cells) \in Nat
<1>1. content[f] \in Contents
  OBVIOUS
<1>2. /\ content[f] \in Seq(Range(content[f])) \ {<<>>}
      /\ \A line \in Range(content[f]) : line.cells \in Seq(Range(line.cells))
  BY <1>1, ContentsAssumption
<1>3. ASSUME NEW n \in Delivered(f) PROVE Len(content[f][n].cells) \in Nat
  <2>1. n \in 1 .. Len(content[f])
    BY DEF Delivered
  <2>2. content[f][n] \in Range(content[f])
    BY <1>2, <2>1
  <2> QED
    BY <1>2, <2>2
<1> QED
  BY <1>2, <1>3

LEMMA DeliveredAreGiven == \A f : Delivered(f) = Given(content[f])
  BY DEF Delivered, Given

LEMMA LinesAreNumbers == ASSUME NEW f PROVE ParamLines(f) \in SUBSET Nat
  BY DEF ParamLines, Delivered

LEMMA NothingListed == ASSUME NEW f PROVE Listed(<<>>, f, 0)
<1>1. UpTo(ParamLines(f), 0) = {}
  BY DEF UpTo, ParamLines, Delivered
<1> QED
  BY <1>1, EmptyIsList, FS_EmptySet DEF Listed

(* Behind the last line that is delivered the list is complete. *)
LEMMA ListedAll ==
  ASSUME NEW f, NEW S, content[f] \in Seq(S), NEW n \in Nat, n + 1 \notin Delivered(f),
         NEW list, Listed(list, f, n)
  PROVE  Complete(list, f)
<1>1. \A l \in Delivered(f) : l \in Nat /\ l <= n
  BY GivenEnds, DeliveredAreGiven
<1>2. UpTo(ParamLines(f), n) = ParamLines(f)
  BY <1>1 DEF UpTo, ParamLines
<1> QED
  BY <1>2 DEF Listed, Complete

(* A line that is no parameter lists nothing. *)
LEMMA ListedSkip ==
  ASSUME NEW f, NEW n \in Nat, n + 1 \notin ParamLines(f), NEW list, Listed(list, f, n)
  PROVE  Listed(list, f, n + 1)
<1>1. UpTo(ParamLines(f), n + 1) = UpTo(ParamLines(f), n)
  BY LinesAreNumbers, SkipLine
<1> QED
  BY <1>1 DEF Listed

(* A parameter goes behind those before it. *)
LEMMA ListedNext ==
  ASSUME NEW f, NEW n \in Nat, n + 1 \in ParamLines(f), NEW list, IsList(list), Listed(list, f, n),
         NEW param, IsParamOf(param, f, n + 1)
  PROVE  Listed(Append(list, param), f, n + 1)
<1>1. ParamLines(f) \in SUBSET Nat /\ Len(list) = Cardinality(UpTo(ParamLines(f), n))
  BY LinesAreNumbers DEF Listed
<1>2. \A l : Position(f, l) = Cardinality(UpTo(ParamLines(f), l))
  BY DEF Position, UpTo
<1>3. /\ UpTo(ParamLines(f), n + 1) = UpTo(ParamLines(f), n) \cup {n + 1}
      /\ Cardinality(UpTo(ParamLines(f), n + 1)) = Len(list) + 1
      /\ Len(Append(list, param)) = Len(list) + 1
      /\ Append(list, param)[Len(list) + 1] = param
  BY <1>1, AddLine, AppendToList
<1>4. ASSUME NEW l \in UpTo(ParamLines(f), n + 1)
      PROVE  IsParamOf(Append(list, param)[Position(f, l)], f, l)
  <2>1. CASE l = n + 1
    BY <1>2, <1>3, <2>1
  <2>2. CASE l # n + 1
    <3>1. l \in UpTo(ParamLines(f), n)
      BY <1>3, <2>2
    <3>2. Append(list, param)[Position(f, l)] = list[Position(f, l)]
      BY <1>1, <1>2, <3>1, KeptLine
    <3> QED
      BY <3>1, <3>2 DEF Listed
  <2> QED
    BY <2>1, <2>2
<1> QED
  BY <1>3, <1>4 DEF Listed

LEMMA FileInitially == Init => FileInv
<1> SUFFICES ASSUME Init PROVE FileInv
  OBVIOUS
<1>1. Loaded = {}
  BY DEF Init, Loaded, NotLoaded
<1> QED
  BY <1>1 DEF Init, FileInv, Reading, Published

(* The operators on the content are those of the same content. *)
LEMMA SameFile ==
  ASSUME content' = content
  PROVE  \A f : /\ Delivered(f)' = Delivered(f) /\ OwnColumns(f)' = OwnColumns(f)
                /\ \A list, n : Listed(list, f, n)' = Listed(list, f, n)
                /\ \A list : Complete(list, f)' = Complete(list, f)
  BY DEF Delivered, OwnColumns, Listed, Complete, IsParamOf, Position, ParamLines

LEMMA FilePreserved == IInv /\ FileInv /\ [Next]_vars => FileInv'
<1> SUFFICES ASSUME IInv, FileInv, [Next]_vars PROVE FileInv'
  OBVIOUS
<1>1. content' = content
  BY DEF Next, Read, Done, vars, OpenFile, ReadFirstLine, ReadHeader, ReadBlank, ReadParam, CloseFile
<1>2. content' \in [Files -> Contents] /\ content \in [Files -> Contents]
  BY <1>1 DEF FileInv
<1>3. \A f : /\ Delivered(f)' = Delivered(f) /\ OwnColumns(f)' = OwnColumns(f)
             /\ \A list, n : Listed(list, f, n)' = Listed(list, f, n)
             /\ \A list : Complete(list, f)' = Complete(list, f)
  BY <1>1, SameFile
<1>4. ASSUME UNCHANGED maps PROVE Published'
  BY <1>3, <1>4 DEF FileInv, Published, maps, Loaded
<1>5. ASSUME NEW f \in Files, OpenFile(f) PROVE FileInv'
  <2>1. 1 \in Delivered(f)
    BY <1>2, ContentIsLines, GivenFirst, DeliveredAreGiven
  <2>2. file' = f /\ j' = 0 /\ good' = TRUE /\ params' = <<>> /\ UNCHANGED maps
    BY <1>5 DEF OpenFile
  <2>3. Listed(params', f, 0)
    BY <2>2, NothingListed
  <2>4. Reading'
    BY <1>3, <2>1, <2>2, <2>3 DEF Reading
  <2> QED
    BY <1>2, <1>4, <2>2, <2>4 DEF FileInv
<1>6. ASSUME GetLine
      PROVE  /\ file # NoFile /\ file \in Files /\ j \in Nat /\ j' = j + 1 /\ j + 1 \in Delivered(file)
             /\ good' <=> j' + 1 \in Delivered(file)
             /\ Line = content[file][j + 1] /\ Len(Line.cells) \in Nat
             /\ Listed(params, file, j)
             /\ j > 1 => \A i : Name(index_column_map, i) = Name(OwnColumns(file), i)
  <2>1. /\ file # NoFile /\ file \in Files /\ j \in Nat /\ j' = j + 1 /\ j + 1 \in Delivered(file)
        /\ Listed(params, file, j)
        /\ j > 1 => \A i : Name(index_column_map, i) = Name(OwnColumns(file), i)
    BY <1>6 DEF GetLine, FileInv, Reading, IInv, TypeInv
  <2>2. content[file] \in Seq(Range(content[file])) /\ Len(content[file][j + 1].cells) \in Nat
    BY <1>2, <2>1, ContentIsLines
  <2>3. (j + 1) + 1 \in Delivered(file) <=> ~content[file][j + 1].long /\ j + 1 < Len(content[file])
    BY <2>1, <2>2, GivenNext, DeliveredAreGiven
  <2>4. good' <=> ~content[file][j + 1].long /\ j + 1 < Len(content[file])
    BY <1>6 DEF GetLine, Line
  <2> QED
    BY <2>1, <2>2, <2>3, <2>4 DEF Line
<1>7. ASSUME GetLine, UNCHANGED <<file, params, maps>>, j + 1 \notin ParamLines(file),
             j > 1 => UNCHANGED index_column_map,
             j = 1 => index_column_map' = OwnColumns(file)
      PROVE  FileInv'
  <2>1. Listed(params, file, j + 1)
    BY <1>6, <1>7, ListedSkip
  <2>2. j' > 1 => \A i : Name(index_column_map', i) = Name(OwnColumns(file), i)
    <3>1. CASE j > 1
      BY <1>6, <1>7, <3>1
    <3>2. CASE j = 1
      BY <1>7, <3>2
    <3>3. CASE j = 0
      BY <1>6, <1>7, <3>3
    <3> QED
      BY <1>6, <1>7, <3>1, <3>2, <3>3
  <2>3. Reading'
    BY <1>3, <1>6, <1>7, <2>1, <2>2 DEF Reading
  <2> QED
    BY <1>2, <1>4, <1>7, <2>3 DEF FileInv
<1>8. CASE ReadFirstLine
  BY <1>6, <1>7, <1>8 DEF ReadFirstLine, ParamLines
<1>9. CASE ReadHeader
  <2>1. j = 1 /\ GetLine /\ NameColumns(Line.cells) /\ UNCHANGED <<file, params, maps>>
    BY <1>9 DEF ReadHeader
  <2>2. index_column_map' = OwnColumns(file)
    BY <1>6, <2>1 DEF NameColumns, OwnColumns
  <2>3. j + 1 \notin ParamLines(file)
    BY <2>1 DEF ParamLines
  <2> QED
    BY <1>7, <2>1, <2>2, <2>3
<1>10. CASE ReadBlank
  <2>1. /\ j > 1 /\ GetLine /\ Blank(Line.cells)
        /\ UNCHANGED <<file, index_column_map, params, maps>>
    BY <1>10 DEF ReadBlank
  <2>2. j + 1 \notin ParamLines(file)
    BY <1>6, <2>1 DEF ParamLines
  <2> QED
    BY <1>6, <1>7, <2>1, <2>2
<1>11. CASE ReadParam
  <2> DEFINE cells == Line.cells
             correct == IsCorrect(index_column_map, cells)
  <2>1. /\ j > 1 /\ GetLine /\ ~Blank(cells) /\ UNCHANGED <<file, maps>>
        /\ index_column_map' =
             [i \in DOMAIN index_column_map \cup Seen(index_column_map, cells) |-> Name(index_column_map, i)]
    BY <1>11 DEF ReadParam
  <2>2. PICK g \in Garbage :
          AddParam(IF correct THEN Param(index_column_map, cells, Uninitialised(g))
                   ELSE [diananame |-> "", unit |-> "", attributes |-> Uninitialised(g)], correct)
    BY <1>11 DEF ReadParam
  <2>3. \A i : Name(index_column_map, i) = Name(OwnColumns(file), i)
    BY <1>6, <2>1
  <2>4. \A i : Name(index_column_map', i) = Name(OwnColumns(file), i)
    <3>1. ASSUME NEW i PROVE Name(index_column_map', i) = Name(index_column_map, i)
      BY <2>1 DEF Name
    <3> QED
      BY <2>3, <3>1
  <2>5. j + 1 \in ParamLines(file) <=> correct
    <3>1. IsCorrect(OwnColumns(file), cells) <=> correct
      BY <2>3, SameNames
    <3> QED
      BY <1>6, <2>1, <3>1 DEF ParamLines
  <2>6. Listed(params', file, j + 1)
    <3>1. CASE correct
      <4> DEFINE param == Param(index_column_map, cells, Uninitialised(g))
      <4>1. params' = Append(params, param)
        BY <2>2, <3>1 DEF AddParam
      <4>2. IsParamOf(param, file, j + 1)
        BY <1>6, <2>1, <2>3, ParamSays
      <4> HIDE DEF param
      <4>3. IsList(params) /\ Listed(params, file, j) /\ j \in Nat /\ j + 1 \in ParamLines(file)
        BY <1>6, <2>1, <2>5, <3>1 DEF IInv, Collected
      <4> QED
        BY <4>1, <4>2, <4>3, ListedNext
    <3>2. CASE ~correct
      <4>1. params' = params
        BY <2>2, <3>2 DEF AddParam
      <4> QED
        BY <1>6, <2>1, <2>5, <3>2, <4>1, ListedSkip
    <3> QED
      BY <3>1, <3>2
  <2>7. j \in Nat /\ j' = j + 1 /\ file' = file /\ (good' <=> j' + 1 \in Delivered(file))
    BY <1>6, <2>1
  <2>8. Reading'
    BY <1>3, <2>4, <2>6, <2>7 DEF Reading
  <2> QED
    BY <1>2, <1>4, <2>1, <2>8 DEF FileInv
<1>12. CASE CloseFile
  <2>1. /\ file \in Files /\ file # NoFile /\ ~good /\ file' = NoFile
        /\ params_map' = [params_map EXCEPT ![file] = List(params)]
        /\ params_map = [f \in Files |-> params_map[f]]
    BY <1>12 DEF CloseFile, IInv, TypeInv
  <2>2. Reading'
    BY <2>1 DEF Reading
  <2>3. Complete(params, file)
    BY <1>2, <2>1, ContentIsLines, ListedAll DEF FileInv, Reading
  <2>4. ASSUME NEW f \in Loaded' PROVE Complete(params_map'[f].list, f)
    <3>1. CASE f = file
      BY <2>1, <2>3, <3>1 DEF List
    <3>2. CASE f # file
      <4>1. f \in Files /\ params_map'[f] = params_map[f]
        BY <2>1, <3>2 DEF Loaded
      <4>2. f \in Loaded
        BY <4>1 DEF Loaded
      <4> QED
        BY <4>1, <4>2 DEF FileInv, Published
    <3> QED
      BY <3>1, <3>2
  <2>5. Published'
    BY <1>3, <2>4 DEF Published
  <2> QED
    BY <1>2, <2>2, <2>5 DEF FileInv
<1>13. CASE UNCHANGED vars
  <2>1. UNCHANGED <<file, j, good, params, index_column_map, maps>>
    BY <1>13 DEF vars, reading
  <2>2. Reading'
    BY <1>3, <2>1 DEF FileInv, Reading
  <2> QED
    BY <1>2, <1>4, <2>1, <2>2 DEF FileInv
<1> QED
  BY <1>5, <1>8, <1>9, <1>10, <1>11, <1>12, <1>13 DEF Next, Read, Done

(* While initParameters reads a file the names of the columns are those of  *)
(* its own header and the list is that of the lines so far; a list in      *)
(* params_map is that of its whole file.                                   *)
THEOREM FileInvariant == Spec => []FileInv
  BY FileInitially, FilePreserved, InductiveInvariant, PTL DEF Spec

(* A loaded list is what its file says under its own header, for any number *)
(* of files in any order: initParameters names the columns anew for every   *)
(* file, and the names operator[] adds while lines are read change nothing. *)
THEOREM ListsAreTheirFiles == Spec => []ListsFollowTheirFile
<1>1. FileInv => ListsFollowTheirFile
  BY DEF FileInv, Published, Complete, ListsFollowTheirFile
<1> QED
  BY <1>1, FileInvariant, PTL
=============================================================================
