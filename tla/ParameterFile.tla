--------------------------- MODULE ParameterFile ---------------------------
(***************************************************************************)
(* diParam::initParameters: parameter files are read line by line into the *)
(* lists of params_map and roadparams_map.  Line 0 is skipped, line 1      *)
(* names the columns in index_column_map, which is shared by all files,    *)
(* every other line that is not empty is a parameter.  Files are read one  *)
(* after another, each at most once.                                       *)
(*                                                                         *)
(* A line is its cells and whether it is longer than the buffer: getline   *)
(* then keeps its beginning and fails, which ends the file.  A cell is a   *)
(* text, or the groups a #roadobs cell is split into.  The line that is    *)
(* read behind the last newline is an ordinary, empty line here.           *)
(***************************************************************************)
EXTENDS ParamMapping, FiniteSets, SequencesExt

CONSTANTS
  Files,     \* parameter files
  Contents,  \* what a file can contain, sequences of lines
  Garbage    \* what the memory of a new diParam can hold

ASSUME ContentsAssumption ==
  \A c \in Contents :
    /\ c \in Seq(Range(c)) \ {<<>>}
    /\ \A line \in Range(c) : line.cells \in Seq(Range(line.cells)) /\ line.long \in BOOLEAN
ASSUME GarbageAssumption == Garbage \subseteq Int /\ Garbage # {}

VARIABLES
  content,           \* the contents of each file
  file,              \* the file being read, or NoFile
  j,                 \* its lines read so far
  good,              \* pifs.good()
  index_column_map,  \* the column names by index, from 0
  params,            \* the list being filled
  roadparams,        \* the parameter ids being collected
  params_map, roadparams_map

reading == <<file, j, good, params, roadparams>>
maps == <<params_map, roadparams_map>>
vars == <<content, reading, index_column_map, maps>>

NoFile == "none"
NotLoaded == [loaded |-> FALSE]
List(ps) == [loaded |-> TRUE, list |-> ps]

Init ==
  /\ content \in [Files -> Contents]
  /\ file = NoFile /\ j = 0 /\ good = FALSE
  /\ index_column_map = <<>>
  /\ params = <<>> /\ roadparams = {}
  /\ params_map = [f \in Files |-> NotLoaded]
  /\ roadparams_map = params_map

-----------------------------------------------------------------------------
(* setParams(line) *)

(* operator[] of index_column_map: an index without a name gets "". *)
Name(columns, i) == IF i \in DOMAIN columns THEN columns[i] ELSE ""

(* The cells of a line under a column name. *)
Under(columns, cells, name) == {i \in 1 .. Len(cells) : Name(columns, i - 1) = name}

Invalid(columns, cells) ==
  {i \in Under(columns, cells, "#roadobs") : ~ValidRoadobs(cells[i].groups)}

IsCorrect(columns, cells) == Invalid(columns, cells) = {}

(* The last cell under the name is the one that stays. *)
TextUnder(columns, cells, name) ==
  LET at == Under(columns, cells, name) IN IF at = {} THEN "" ELSE cells[Max(at)].text

(* Without a #roadobs cell the attributes keep what the memory held. *)
AttributesUnder(columns, cells, garbage) ==
  LET at == Under(columns, cells, "#roadobs") IN
  IF at = {} THEN garbage ELSE Roadobs(cells[Max(at)].groups)

Param(columns, cells, garbage) ==
  [diananame |-> TextUnder(columns, cells, "#code"), unit |-> TextUnder(columns, cells, "#unit"),
   attributes |-> AttributesUnder(columns, cells, garbage)]

Uninitialised(g) ==
  [parameter |-> g, srid |-> g, from |-> g, to |-> g, stat |-> "", fromdelta |-> g, todelta |-> g]

(* The loop stops at the first cell that is not valid. *)
Seen(columns, cells) ==
  LET bad == Invalid(columns, cells) IN 0 .. (IF bad = {} THEN Len(cells) ELSE Min(bad)) - 1

-----------------------------------------------------------------------------
(* initParameters(headerfile) *)

(* The file is opened, a new list and a new set are allocated.  A file that *)
(* is loaded is not read again, one that does not open changes nothing.     *)
OpenFile(f) ==
  /\ file = NoFile
  /\ ~params_map[f].loaded
  /\ file' = f /\ j' = 0 /\ good' = TRUE
  /\ params' = <<>> /\ roadparams' = {}
  /\ UNCHANGED <<content, index_column_map, maps>>

Line == content[file][j + 1]

(* Mutant of GetLine: the loop goes on until the end of the file, which a   *)
(* stream that has failed does not reach.                                  *)
GetLineUntilEof ==
  /\ file # NoFile /\ good
  /\ j' = IF Line.long THEN j ELSE j + 1
  /\ good' = (j' < Len(content[file]))

(* A line that does not fit sets failbit, the last one eofbit. *)
GetLine ==
  /\ file # NoFile /\ good
  /\ j' = j + 1
  /\ good' = (~Line.long /\ j' < Len(content[file]))

ReadFirstLine ==
  /\ j = 0 /\ GetLine
  /\ UNCHANGED <<content, file, index_column_map, params, roadparams, maps>>

(* Mutant of NameColumns: the names of an earlier file are not cleared. *)
NameColumnsOverOld(cells) ==
  index_column_map' =
    [i \in DOMAIN index_column_map \cup 0 .. Len(cells) - 1 |->
       IF i < Len(cells) THEN cells[i + 1].text ELSE index_column_map[i]]

NameColumns(cells) ==
  index_column_map' = [i \in 0 .. Len(cells) - 1 |-> cells[i + 1].text]

ReadHeader ==
  /\ j = 1 /\ GetLine
  /\ NameColumns(Line.cells)
  /\ UNCHANGED <<content, file, params, roadparams, maps>>

(* trim(tmp,"\t") leaves nothing. *)
Blank(cells) == \A i \in 1 .. Len(cells) : cells[i].text = ""

ReadBlank ==
  /\ j > 1 /\ GetLine
  /\ Blank(Line.cells)
  /\ UNCHANGED <<content, file, index_column_map, params, roadparams, maps>>

(* Mutant of AddParam: the id is collected before the line is found wrong. *)
AddParamIdAlways(param, correct) ==
  /\ roadparams' = roadparams \cup {param.attributes.parameter}
  /\ params' = IF correct THEN Append(params, param) ELSE params

(* "if not correct, just skip it" *)
AddParam(param, correct) ==
  /\ roadparams' = IF correct THEN roadparams \cup {param.attributes.parameter} ELSE roadparams
  /\ params' = IF correct THEN Append(params, param) ELSE params

ReadParam ==
  LET cells == Line.cells
      correct == IsCorrect(index_column_map, cells)
  IN
  /\ j > 1 /\ GetLine
  /\ ~Blank(cells)
  /\ \E g \in Garbage :
       AddParam(IF correct THEN Param(index_column_map, cells, Uninitialised(g))
                ELSE [diananame |-> "", unit |-> "", attributes |-> Uninitialised(g)], correct)
  /\ index_column_map' =
       [i \in DOMAIN index_column_map \cup Seen(index_column_map, cells) |-> Name(index_column_map, i)]
  /\ UNCHANGED <<content, file, maps>>

(* The lists are published under the file's name. *)
CloseFile ==
  /\ file # NoFile /\ ~good
  /\ params_map' = [params_map EXCEPT ![file] = List(params)]
  /\ roadparams_map' = [roadparams_map EXCEPT ![file] = List(roadparams)]
  /\ file' = NoFile
  /\ UNCHANGED <<content, j, good, index_column_map, params, roadparams>>

Read == ReadFirstLine \/ ReadHeader \/ ReadBlank \/ ReadParam \/ CloseFile

Loaded == {f \in Files : params_map[f].loaded}

(* Every file has been read. *)
Done == Loaded = Files /\ UNCHANGED vars

Next == Read \/ Done \/ \E f \in Files : OpenFile(f)

(* initParameters runs to its end without waiting for anything. *)
Spec == Init /\ [][Next]_vars /\ WF_vars(Read)

-----------------------------------------------------------------------------
(* What a file says, read on its own. *)

(* The lines getline delivers: up to the first one that does not fit. *)
Delivered(f) == {n \in 1 .. Len(content[f]) : \A l \in 1 .. n - 1 : ~content[f][l].long}

OwnColumns(f) == [i \in 0 .. Len(content[f][2].cells) - 1 |-> content[f][2].cells[i + 1].text]

ParamLines(f) ==
  {n \in Delivered(f) : /\ n > 2 /\ ~Blank(content[f][n].cells)
                        /\ IsCorrect(OwnColumns(f), content[f][n].cells)}

(* The position in the list at which the parameter of line n belongs. *)
Position(f, n) == Cardinality({l \in ParamLines(f) : l <= n})

(* What line n says under the file's own header; a line without a #roadobs  *)
(* cell leaves the attributes undefined.                                   *)
IsParamOf(param, f, n) ==
  LET cells == content[f][n].cells IN
  /\ param.diananame = TextUnder(OwnColumns(f), cells, "#code")
  /\ param.unit = TextUnder(OwnColumns(f), cells, "#unit")
  /\ Under(OwnColumns(f), cells, "#roadobs") # {} =>
       \E i \in Under(OwnColumns(f), cells, "#roadobs") : param.attributes = Roadobs(cells[i].groups)

(* A loaded list is what its file says under its own header, in the order   *)
(* of the lines, whichever files were read before into the shared          *)
(* index_column_map.                                                       *)
ListsFollowTheirFile ==
  \A f \in Loaded :
    /\ Len(params_map[f].list) = Cardinality(ParamLines(f))
    /\ \A n \in ParamLines(f) : IsParamOf(params_map[f].list[Position(f, n)], f, n)

(* The ids the data queries ask for are those of the columns: no column is  *)
(* never asked for, and no row is asked for that has no column.             *)
IdsAreThoseOfTheList ==
  \A f \in Loaded :
    roadparams_map[f].list = {params_map[f].list[n].attributes.parameter : n \in 1 .. Len(params_map[f].list)}

(* A file that is opened is loaded, also if a line does not fit. *)
OpenedIsLoaded == \A f \in Files : file = f ~> f \in Loaded
=============================================================================
