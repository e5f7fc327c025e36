------------------------- MODULE StationFileProofs -------------------------
(***************************************************************************)
(* Theorems about StationFile, for every content of the files, every       *)
(* result of the query and every number of retries.                        *)
(***************************************************************************)
EXTENDS StationFile, ListLemmas

(* A connection is held from the attempt that succeeds to the disconnect,   *)
(* and nowhere else.                                                       *)
Connected == conn => pc \in {"execute", "rows"}

(* The counter of initStations, and the row index of getStationList, is the *)
(* length of the list, because a query finds the list empty and is asked   *)
(* once.                                                                   *)
Counted ==
  /\ IsList(stations) /\ Len(stations) = j
  /\ pc \in {"connect", "execute"} => Dynamic
  /\ Dynamic /\ pc \notin {"rows", "close", "returned"} => stations = <<>>

IInv == Counted /\ Connected

LEMMA Initially == Init => IInv
<1> SUFFICES ASSUME Init PROVE IInv
  OBVIOUS
<1>1. stations = <<>> /\ j = 0 /\ ~conn /\ pc = "open"
  BY DEF Init
<1> QED
  BY <1>1, EmptyIsList DEF IInv, Counted, Connected

(* The counter goes on by one with every station that is added. *)
LEMMA CountedNext ==
  ASSUME Counted, NEW s, stations' = Append(stations, s), j' = j + 1
  PROVE  IsList(stations)' /\ Len(stations)' = j'
<1>1. IsList(stations') /\ Len(stations') = Len(stations) + 1
  BY AppendToList DEF Counted
<1> QED
  BY <1>1 DEF Counted, IsList

LEMMA ContentStays == [Next]_vars => content' = content /\ result' = result
BY DEF Next, Step, Returned, GetStationList, vars, reading, listing, OpenFile, ReadObssource, ReadStation,
       ReadQuery, ReadEnd, CloseFile, Connect, ConnectRetry, ConnectFail, Execute, ReadRow, QueryFail, RowsEnd

LEMMA Preserved == IInv /\ [Next]_vars => IInv'
<1> SUFFICES ASSUME IInv, [Next]_vars PROVE IInv'
  OBVIOUS
<1> USE DEF IInv
<1>1. Dynamic' = Dynamic
  BY ContentStays DEF Dynamic
<1>2. CASE ReadStation
  <2>1. /\ stations' = Append(stations, [SetStation([InitStation EXCEPT !.station_type = station_type], Line)
                                           EXCEPT !.stationid = j'])
        /\ j' = j + 1 /\ ~Dynamic /\ pc = "read" /\ UNCHANGED <<pc, conn>>
    BY <1>2 DEF ReadStation, AddStation, GetLine
  <2>2. IsList(stations)' /\ Len(stations)' = j'
    BY <2>1, CountedNext
  <2> QED
    BY <1>1, <2>1, <2>2 DEF Counted, Connected
<1>3. CASE ReadRow
  <2>1. /\ stations' = Append(stations, RowStation(station_type, j + 1, result[j + 1]))
        /\ j' = j + 1 /\ pc = "rows" /\ UNCHANGED <<pc, conn>>
    BY <1>3 DEF ReadRow
  <2>2. IsList(stations)' /\ Len(stations)' = j'
    BY <2>1, CountedNext
  <2> QED
    BY <1>1, <2>1, <2>2 DEF Counted, Connected
<1>4. CASE Execute
  <2>1. stations = <<>> /\ stations' = stations /\ pc' \in {"rows", "close"} /\ j = 0 /\ j' = 0
    BY <1>4, EmptyIsList DEF Execute, Disconnect, Counted
  <2>2. Connected'
    BY <1>4 DEF Execute, Disconnect, Connected
  <2> QED
    BY <1>1, <2>1, <2>2 DEF Counted, IsList
<1>5. CASE OpenFile
  <2>1. UNCHANGED <<stations, j>>
    BY <1>5 DEF OpenFile, listing
  <2>2. pc = "open" /\ pc' \in {"read", "returned"}
    BY <1>5 DEF OpenFile, listing
  <2>3. Counted'
    BY <1>1, <2>1, <2>2 DEF Counted, IsList
  <2>4. Connected'
    BY <1>5 DEF OpenFile, listing, Connected
  <2> QED
    BY <2>3, <2>4
<1>6. CASE ReadObssource
  <2>1. UNCHANGED <<stations, j>>
    BY <1>6 DEF ReadObssource, GetLine, listing
  <2>2. pc = "read" /\ pc' = pc
    BY <1>6 DEF ReadObssource, GetLine, listing
  <2>3. Counted'
    BY <1>1, <2>1, <2>2 DEF Counted, IsList
  <2>4. Connected'
    BY <1>6 DEF ReadObssource, GetLine, listing, Connected
  <2> QED
    BY <2>3, <2>4
<1>7. CASE ReadQuery
  <2>1. UNCHANGED <<stations, j>>
    BY <1>7 DEF ReadQuery, GetLine, listing
  <2>2. pc = "read" /\ pc' = "connect" /\ Dynamic
    BY <1>7 DEF ReadQuery, GetLine, listing
  <2>3. Counted'
    BY <1>1, <2>1, <2>2 DEF Counted, IsList
  <2>4. Connected'
    BY <1>7 DEF ReadQuery, GetLine, listing, Connected
  <2> QED
    BY <2>3, <2>4
<1>8. CASE ReadEnd
  <2>1. UNCHANGED <<stations, j>>
    BY <1>8 DEF ReadEnd, listing
  <2>2. pc' = "close"
    BY <1>8 DEF ReadEnd, listing
  <2>3. Counted'
    BY <1>1, <2>1, <2>2 DEF Counted, IsList
  <2>4. Connected'
    BY <1>8 DEF ReadEnd, listing, Connected
  <2> QED
    BY <2>3, <2>4
<1>9. CASE CloseFile
  <2>1. UNCHANGED <<stations, j>>
    BY <1>9 DEF CloseFile, listing
  <2>2. pc' = "returned"
    BY <1>9 DEF CloseFile, listing
  <2>3. Counted'
    BY <1>1, <2>1, <2>2 DEF Counted, IsList
  <2>4. Connected'
    BY <1>9 DEF CloseFile, listing, Connected
  <2> QED
    BY <2>3, <2>4
<1>10. CASE Connect
  <2>1. UNCHANGED <<stations, j>>
    BY <1>10 DEF Connect
  <2>2. pc = "connect" /\ pc' = "execute"
    BY <1>10 DEF Connect
  <2>3. Counted'
    BY <1>1, <2>1, <2>2 DEF Counted, IsList
  <2>4. Connected'
    BY <1>10 DEF Connect, Connected
  <2> QED
    BY <2>3, <2>4
<1>11. CASE ConnectRetry
  <2>1. UNCHANGED <<stations, j>>
    BY <1>11 DEF ConnectRetry
  <2>2. pc' = pc
    BY <1>11 DEF ConnectRetry
  <2>3. Counted'
    BY <1>1, <2>1, <2>2 DEF Counted, IsList
  <2>4. Connected'
    BY <1>11 DEF ConnectRetry, Connected
  <2> QED
    BY <2>3, <2>4
<1>12. CASE ConnectFail
  <2>1. UNCHANGED <<stations, j>>
    BY <1>12 DEF ConnectFail
  <2>2. pc' = "close"
    BY <1>12 DEF ConnectFail
  <2>3. Counted'
    BY <1>1, <2>1, <2>2 DEF Counted, IsList
  <2>4. Connected'
    BY <1>12 DEF ConnectFail, Connected
  <2> QED
    BY <2>3, <2>4
<1>13. CASE QueryFail
  <2>1. UNCHANGED <<stations, j>>
    BY <1>13 DEF QueryFail, Disconnect
  <2>2. pc' = "close"
    BY <1>13 DEF QueryFail, Disconnect
  <2>3. Counted'
    BY <1>1, <2>1, <2>2 DEF Counted, IsList
  <2>4. Connected'
    BY <1>13 DEF QueryFail, Disconnect, Connected
  <2> QED
    BY <2>3, <2>4
<1>14. CASE RowsEnd
  <2>1. UNCHANGED <<stations, j>>
    BY <1>14 DEF RowsEnd, Disconnect
  <2>2. pc' = "close"
    BY <1>14 DEF RowsEnd, Disconnect
  <2>3. Counted'
    BY <1>1, <2>1, <2>2 DEF Counted, IsList
  <2>4. Connected'
    BY <1>14 DEF RowsEnd, Disconnect, Connected
  <2> QED
    BY <2>3, <2>4
<1>15. CASE UNCHANGED vars
  <2>1. UNCHANGED <<stations, j>>
    BY <1>15 DEF vars
  <2>2. pc' = pc
    BY <1>15 DEF vars
  <2>3. Counted'
    BY <1>1, <2>1, <2>2 DEF Counted, IsList
  <2>4. Connected'
    BY <1>15 DEF vars, Connected
  <2> QED
    BY <2>3, <2>4
<1> QED
  BY <1>2, <1>3, <1>4, <1>5, <1>6, <1>7, <1>8, <1>9, <1>10, <1>11, <1>12, <1>13, <1>14, <1>15
  DEF Next, Step, GetStationList, Returned

(* The inductive invariant of loading a station file. *)
THEOREM InductiveInvariant == Spec => []IInv
  BY Initially, Preserved, PTL DEF Spec

(* getStationList returns without its connection, however it ends. *)
THEOREM NoConnectionLeaks == Spec => []ConnectionClosed
<1>1. IInv => ConnectionClosed
  BY DEF IInv, Connected, ConnectionClosed
<1> QED
  BY <1>1, InductiveInvariant, PTL

-----------------------------------------------------------------------------
(* The list of a fixed file. *)

(* The block and the number are found again in the station's number. *)
LEMMA TakenApart ==
  ASSUME NEW line, line.block \in Nat, line.number \in 0 .. 999
  PROVE  AskedFor(line.block * 1000 + line.number) = <<line.block, line.number>>
<1> DEFINE wmonr == line.block * 1000 + line.number
<1>1. line.block \in Nat /\ line.number \in 0 .. 999
  OBVIOUS
<1>2. wmonr \in Nat /\ wmonr \div 1000 = line.block /\ wmonr % 1000 = line.number
  <2>1. PICK block \in Nat : block = line.block
    BY <1>1
  <2>2. PICK number \in 0 .. 999 : number = line.number
    BY <1>1
  <2>3. /\ block * 1000 + number \in Nat
        /\ (block * 1000 + number) \div 1000 = block
        /\ (block * 1000 + number) % 1000 = number
    OBVIOUS
  <2> QED
    BY <2>1, <2>2, <2>3
<1>3. wmonr = 0 => line.block = 0 /\ line.number = 0
  BY <1>1
<1> HIDE DEF wmonr
<1>4. AskedFor(wmonr) = <<line.block, line.number>>
  BY <1>2, <1>3 DEF AskedFor
<1> QED
  BY <1>4 DEF wmonr

(* The station of a line in a section, with its id. *)
Numbered(line, type, id) ==
  [SetStation([InitStation EXCEPT !.station_type = type], line) EXCEPT !.stationid = id]

(* A station keeps the type it is given and is asked for with what its line *)
(* says.                                                                   *)
LEMMA StationSays ==
  ASSUME NEW line \in Lines, NEW type, NEW id, NEW s, s = Numbered(line, type, id)
  PROVE  /\ s.station_type = type /\ s.stationid = id
         /\ line.format = "new" \/ type = WMO =>
              /\ type = WMO /\ line.cells > 1 => AskedFor(s.wmonr) = <<line.block, line.number>>
              /\ type = ICAO => s.ICAOid = line.code
              /\ type = SHIP => s.call_sign = line.code
<1> DEFINE attributes == {"stationid", "station_type", "lat", "lon", "height", "wmonr", "ICAOid", "call_sign"}
           n == [InitStation EXCEPT !.station_type = type]
           set == SetStation(n, line)
<1>1. DOMAIN n = attributes /\ n.station_type = type
  BY DEF InitStation
<1>2. line.format \in {"new", "old"} /\ line.cells \in Nat /\ line.block \in Nat /\ line.number \in 0 .. 999
  BY DEF Lines
<1> HIDE DEF n
<1>3. /\ DOMAIN OldStation(n, line) = attributes
      /\ OldStation(n, line).station_type = type
      /\ OldStation(n, line).wmonr = line.block * 1000 + line.number
  BY <1>1 DEF OldStation
<1>4. /\ DOMAIN WmoStation(n, line) = attributes
      /\ WmoStation(n, line).station_type = type
      /\ line.cells > 1 => WmoStation(n, line).wmonr = line.block * 1000 + line.number
  BY <1>1, <1>2 DEF WmoStation, If
<1>5. /\ DOMAIN IcaoStation(n, line) = attributes
      /\ IcaoStation(n, line).station_type = type
      /\ IcaoStation(n, line).ICAOid = line.code
  BY <1>1 DEF IcaoStation
<1>6. /\ DOMAIN ShipStation(n, line) = attributes
      /\ ShipStation(n, line).station_type = type
      /\ ShipStation(n, line).call_sign = line.code
  BY <1>1 DEF ShipStation
<1>7. DOMAIN set = attributes /\ set.station_type = type
  BY <1>1, <1>3, <1>4, <1>5, <1>6 DEF SetStation
<1>8. line.format = "new" \/ type = WMO =>
        /\ type = WMO /\ line.cells > 1 => set.wmonr = line.block * 1000 + line.number
        /\ type = ICAO => set.ICAOid = line.code
        /\ type = SHIP => set.call_sign = line.code
  BY <1>1, <1>2, <1>3, <1>4, <1>5, <1>6 DEF SetStation, WMO, ICAO, SHIP
<1> HIDE DEF set
<1>9. s = [set EXCEPT !.stationid = id]
  BY DEF set, n, Numbered
<1>10. /\ s.station_type = set.station_type /\ s.stationid = id
       /\ s.station_type = set.station_type
       /\ s.wmonr = set.wmonr /\ s.ICAOid = set.ICAOid /\ s.call_sign = set.call_sign
  BY <1>7, <1>9
<1>11. AskedFor(line.block * 1000 + line.number) = <<line.block, line.number>>
  BY <1>2, TakenApart
<1> QED
  BY <1>7, <1>8, <1>10, <1>11

(* The section of the next line: an obssource line names it, any other line *)
(* leaves it.                                                              *)
LEMMA SectionNext ==
  ASSUME content \in Seq(Lines), NEW n \in 1 .. Len(content)
  PROVE  SectionOf(n + 1) = IF content[n].obssource THEN NamedType(content[n], SectionOf(n))
                            ELSE SectionOf(n)
<1> DEFINE names == content[n].obssource /\ content[n].types # {}
<1>1. content[n] \in Lines /\ n \in Nat
  OBVIOUS
<1>2. content[n].types \in SUBSET {WMO, ICAO, SHIP, FLIGHT} /\ content[n].obssource \in BOOLEAN
  BY <1>1 DEF Lines
<1>3. 1 .. (n + 1) - 1 = (1 .. n - 1) \cup {n} /\ \A k \in 1 .. n - 1 : k \in Nat /\ k < n
  BY <1>1
<1>4. CASE ~names
  <2>1. Naming(n + 1) = Naming(n)
    BY <1>3, <1>4 DEF Naming
  <2>2. SectionOf(n + 1) = SectionOf(n)
    BY <2>1 DEF SectionOf
  <2>3. \A t : content[n].types = {} => NamedType(content[n], t) = t
    BY DEF NamedType
  <2> QED
    BY <1>2, <1>4, <2>2, <2>3
<1>5. CASE names
  <2>1. Naming(n + 1) = Naming(n) \cup {n}
    BY <1>3, <1>5 DEF Naming
  <2>2. \A k \in Naming(n) : k \in Nat /\ k < n
    BY <1>3 DEF Naming
  <2>3. n \in Naming(n + 1) /\ \A k \in Naming(n + 1) : k <= n /\ (n <= k => k = n)
    BY <1>1, <2>1, <2>2
  <2>4. Max(Naming(n + 1)) = n
    BY <2>3 DEF Max
  <2>5. SectionOf(n + 1) = NamedType(content[n], WMO)
    BY <2>3, <2>4 DEF SectionOf
  <2>6. \A t, u : NamedType(content[n], t) = NamedType(content[n], u)
    BY <1>2, <1>5 DEF NamedType
  <2> QED
    BY <1>5, <2>5, <2>6
<1> QED
  BY <1>4, <1>5

LEMMA FirstSection == SectionOf(1) = WMO
<1>1. Naming(1) = {}
  BY DEF Naming
<1> QED
  BY <1>1 DEF SectionOf

(* The station of line n, with everything its line and its section say. *)
StationOf(n) == Numbered(content[n], SectionOf(n), Position(n))

(* The list has the stations of the lines up to line n, where they belong. *)
Listed(list, n) ==
  /\ Len(list) = Cardinality(UpTo(StationLines, n))
  /\ \A l \in UpTo(StationLines, n) : list[Position(l)] = StationOf(l)

Complete(list) ==
  /\ Len(list) = Cardinality(StationLines)
  /\ \A l \in StationLines : list[Position(l)] = StationOf(l)

(* Where the reading is: there is a next line as long as the stream is good, *)
(* and the type is that of the section the next line is in.                 *)
Reading ==
  /\ pc = "open" => lineno = 0 /\ station_type = WMO
  /\ pc = "read" =>
       /\ lineno \in Nat
       /\ station_type = SectionOf(lineno + 1)
       /\ good <=> lineno + 1 \in Delivered

(* What the list has of a fixed file, before, when and after it is complete. *)
Filled ==
  ~Dynamic =>
    /\ pc \in {"open", "read", "close", "returned"}
    /\ pc = "open" => stations = <<>>
    /\ pc = "read" => Listed(stations, lineno)
    /\ pc = "close" => Complete(stations)
    /\ station_map.loaded => Complete(station_map.list)

FileInv == content \in Contents \cup Queries /\ Reading /\ Filled

LEMMA ContentIsLines == content \in Contents \cup Queries => content \in Seq(Lines) /\ Len(content) \in Nat \ {0}
<1> SUFFICES ASSUME content \in Contents \cup Queries
             PROVE  content \in Seq(Lines) /\ Len(content) \in Nat \ {0}
  OBVIOUS
<1>1. content \in Seq(Lines) /\ content # <<>>
  BY ContentsAssumption
<1> QED
  BY <1>1

LEMMA DeliveredAreGiven == Delivered = Given(content)
  BY DEF Delivered, Given

LEMMA LinesAreNumbers == StationLines \in SUBSET Nat
  BY DEF StationLines, Delivered

LEMMA NothingListed == Listed(<<>>, 0)
<1>1. UpTo(StationLines, 0) = {}
  BY DEF UpTo, StationLines, Delivered
<1> QED
  BY <1>1, EmptyIsList, FS_EmptySet DEF Listed

(* The operators on the content are those of the same content. *)
LEMMA SameFile ==
  ASSUME content' = content
  PROVE  /\ Delivered' = Delivered /\ StationLines' = StationLines /\ Dynamic' = Dynamic
         /\ \A n : SectionOf(n)' = SectionOf(n)
         /\ \A list, n : Listed(list, n)' = Listed(list, n)
         /\ \A list : Complete(list)' = Complete(list)
  BY DEF Delivered, StationLines, Dynamic, SectionOf, Naming, Listed, Complete, StationOf, Position

(* An obssource line lists nothing, any other line its station behind the   *)
(* others.                                                                 *)
LEMMA ListedNext ==
  ASSUME NEW list, IsList(list), NEW n \in Nat, n + 1 \in Delivered, Listed(list, n)
  PROVE  /\ content[n + 1].obssource => Listed(list, n + 1)
         /\ ~content[n + 1].obssource =>
              /\ Position(n + 1) = Len(list) + 1
              /\ Listed(Append(list, StationOf(n + 1)), n + 1)
<1> DEFINE e == StationOf(n + 1)
<1>1. StationLines \in SUBSET Nat /\ Len(list) = Cardinality(UpTo(StationLines, n))
  BY LinesAreNumbers DEF Listed
<1>2. \A l : Position(l) = Cardinality(UpTo(StationLines, l))
  BY DEF Position, UpTo
<1>3. n + 1 \in StationLines <=> ~content[n + 1].obssource
  BY DEF StationLines
<1> HIDE DEF e
<1>4. CASE content[n + 1].obssource
  <2>1. UpTo(StationLines, n + 1) = UpTo(StationLines, n)
    BY <1>1, <1>3, <1>4, SkipLine
  <2>2. Listed(list, n + 1)
    BY <2>1 DEF Listed
  <2> QED
    BY <1>4, <2>2
<1>5. CASE ~content[n + 1].obssource
  <2>1. n + 1 \in StationLines
    BY <1>3, <1>5
  <2>2. /\ UpTo(StationLines, n + 1) = UpTo(StationLines, n) \cup {n + 1}
        /\ Cardinality(UpTo(StationLines, n + 1)) = Len(list) + 1
        /\ Len(Append(list, e)) = Len(list) + 1
        /\ Append(list, e)[Len(list) + 1] = e
    BY <1>1, <2>1, AddLine, AppendToList
  <2>3. ASSUME NEW l \in UpTo(StationLines, n + 1)
        PROVE  Append(list, e)[Position(l)] = StationOf(l)
    <3>1. CASE l = n + 1
      BY <1>2, <2>2, <3>1 DEF e
    <3>2. CASE l # n + 1
      <4>1. l \in UpTo(StationLines, n)
        BY <2>2, <3>2
      <4>2. Append(list, e)[Position(l)] = list[Position(l)]
        BY <1>1, <1>2, <4>1, KeptLine
      <4> QED
        BY <4>1, <4>2 DEF Listed
    <3> QED
      BY <3>1, <3>2
  <2>4. Listed(Append(list, e), n + 1)
    BY <2>2, <2>3 DEF Listed
  <2> QED
    BY <1>2, <1>5, <2>2, <2>4 DEF e
<1> QED
  BY <1>4, <1>5

(* Behind the last line that is delivered the list is complete. *)
LEMMA ListedAll ==
  ASSUME content \in Seq(Lines), NEW list, NEW n \in Nat, n + 1 \notin Delivered, Listed(list, n)
  PROVE  Complete(list)
<1>1. \A l \in Delivered : l \in Nat /\ l <= n
  BY GivenEnds, DeliveredAreGiven
<1>2. UpTo(StationLines, n) = StationLines
  BY <1>1 DEF UpTo, StationLines
<1> QED
  BY <1>2 DEF Listed, Complete

LEMMA FileInitially == Init => FileInv
<1> SUFFICES ASSUME Init PROVE FileInv
  OBVIOUS
<1>1. ~station_map.loaded
  BY DEF Init, NotLoaded
<1> QED
  BY <1>1 DEF Init, FileInv, Reading, Filled

LEMMA FilePreserved == IInv /\ FileInv /\ [Next]_vars => FileInv'
<1> SUFFICES ASSUME IInv, FileInv, [Next]_vars PROVE FileInv'
  OBVIOUS
<1>1. content' = content
  BY ContentStays
<1>2. /\ content' \in Contents \cup Queries
      /\ content \in Contents \cup Queries /\ content \in Seq(Lines) /\ Len(content) \in Nat \ {0}
  BY <1>1, ContentIsLines DEF FileInv
<1>3. /\ Delivered' = Delivered /\ Dynamic' = Dynamic
      /\ \A n : SectionOf(n)' = SectionOf(n)
      /\ \A list, n : Listed(list, n)' = Listed(list, n)
      /\ \A list : Complete(list)' = Complete(list)
  BY <1>1, SameFile
<1>4. IsList(stations) /\ Len(stations) = j
  BY DEF IInv, Counted
<1> USE DEF FileInv
<1>5. CASE OpenFile
  <2>1. 1 \in Delivered
    BY <1>2, GivenFirst, DeliveredAreGiven, ContentsAssumption
  <2>2. Reading'
    BY <1>3, <1>5, <2>1, FirstSection DEF OpenFile, listing, Reading
  <2>3. Filled'
    BY <1>3, <1>5, NothingListed DEF OpenFile, listing, Reading, Filled
  <2> QED
    BY <1>2, <2>2, <2>3
<1>6. ASSUME GetLine
      PROVE  /\ pc = "read" /\ lineno \in Nat /\ lineno' = lineno + 1 /\ lineno + 1 \in Delivered
             /\ good' <=> lineno' + 1 \in Delivered
             /\ Line = content[lineno + 1] /\ Line \in Lines
             /\ SectionOf(lineno' + 1) = IF Line.obssource THEN NamedType(Line, station_type) ELSE station_type
  <2>1. pc = "read" /\ lineno \in Nat /\ lineno' = lineno + 1 /\ lineno + 1 \in Delivered /\ station_type = SectionOf(lineno + 1)
    BY <1>6 DEF GetLine, Reading
  <2>2. /\ lineno + 1 \in 1 .. Len(content)
        /\ (lineno + 1) + 1 \in Delivered <=> ~content[lineno + 1].long /\ lineno + 1 < Len(content)
    BY <1>2, <2>1, GivenNext, DeliveredAreGiven
  <2>3. Line = content[lineno + 1] /\ Line \in Lines
    <3>1. content \in [1 .. Len(content) -> Lines]
      BY <1>2
    <3> QED
      BY <2>2, <3>1 DEF Line
  <2>4. good' <=> lineno' + 1 \in Delivered
    <3>1. good' <=> ~content[lineno + 1].long /\ lineno + 1 < Len(content)
      BY <1>6 DEF GetLine, Line
    <3> QED
      BY <2>1, <2>2, <3>1
  <2>5. SectionOf((lineno + 1) + 1) = IF content[lineno + 1].obssource THEN NamedType(content[lineno + 1], SectionOf(lineno + 1))
                                 ELSE SectionOf(lineno + 1)
    <3>1. content \in Seq(Lines) /\ lineno + 1 \in 1 .. Len(content)
      BY <1>2, <2>2
    <3> QED
      BY <3>1, SectionNext
  <2> QED
    BY <2>1, <2>3, <2>4, <2>5
<1>7. CASE ReadObssource
  <2>1. GetLine /\ Line.obssource /\ station_type' = NamedType(Line, station_type)
        /\ UNCHANGED <<pc, stations, station_map>>
    BY <1>7 DEF ReadObssource, listing
  <2>2. Reading'
    BY <1>3, <1>6, <2>1 DEF Reading
  <2>3. ~Dynamic => Listed(stations, lineno + 1)
    BY <1>4, <1>6, <2>1, ListedNext DEF Filled
  <2>4. Filled'
    BY <1>3, <1>6, <2>1, <2>3 DEF Filled
  <2> QED
    BY <1>2, <2>2, <2>4
<1>8. CASE ReadStation
  <2> DEFINE s == SetStation([InitStation EXCEPT !.station_type = station_type], Line)
             e == [s EXCEPT !.stationid = Len(stations) + 1]
  <2>1. GetLine /\ ~Line.obssource /\ ~Dynamic /\ stations' = Append(stations, e)
        /\ UNCHANGED <<pc, station_type, station_map>>
    BY <1>4, <1>8 DEF ReadStation, AddStation
  <2>2. Listed(stations, lineno)
    BY <1>6, <2>1 DEF Filled
  <2>3. /\ Position(lineno + 1) = Len(stations) + 1
        /\ Listed(Append(stations, StationOf(lineno + 1)), lineno + 1)
    BY <1>4, <1>6, <2>1, <2>2, ListedNext
  <2>4. e = StationOf(lineno + 1)
    BY <1>6, <2>1, <2>3 DEF StationOf, Numbered, Reading
  <2> HIDE DEF e
  <2>5. Reading'
    BY <1>3, <1>6, <2>1 DEF Reading
  <2>6. Filled'
    BY <1>3, <1>6, <2>1, <2>3, <2>4 DEF Filled
  <2> QED
    BY <1>2, <2>5, <2>6
<1>9. CASE ReadQuery
  <2>1. Reading'
    BY <1>9 DEF ReadQuery, Reading
  <2>2. Filled'
    BY <1>3, <1>9 DEF ReadQuery, Filled
  <2> QED
    BY <1>2, <2>1, <2>2
<1>10. CASE ReadEnd
  <2>1. Reading'
    BY <1>10 DEF ReadEnd, Reading
  <2>2. ~Dynamic => Complete(stations)
    BY <1>2, <1>10, ListedAll DEF ReadEnd, Reading, Filled
  <2>3. Filled'
    BY <1>3, <1>10, <2>2 DEF ReadEnd, listing, Filled
  <2> QED
    BY <1>2, <2>1, <2>3
<1>11. CASE CloseFile
  <2>1. Reading'
    BY <1>11 DEF CloseFile, Reading
  <2>2. Filled'
    BY <1>3, <1>11 DEF CloseFile, listing, Filled
  <2> QED
    BY <1>2, <2>1, <2>2
<1>12. CASE GetStationList
  <2>1. pc \in {"connect", "execute", "rows"}
    BY <1>12 DEF GetStationList, Connect, ConnectRetry, ConnectFail, Execute, ReadRow, QueryFail, RowsEnd
  <2>2. pc' \in {"connect", "execute", "rows", "close"}
    BY <1>12 DEF GetStationList, Connect, ConnectRetry, ConnectFail, Execute, ReadRow, QueryFail, RowsEnd, Disconnect
  <2>3. Dynamic
    BY <2>1 DEF Filled
  <2> QED
    BY <1>2, <1>3, <2>2, <2>3 DEF Reading, Filled
<1>13. CASE UNCHANGED vars
  <2>1. UNCHANGED <<pc, lineno, good, station_type, stations, station_map>>
    BY <1>13 DEF vars
  <2> QED
    BY <1>2, <1>3, <2>1 DEF Reading, Filled
<1> QED
  BY <1>5, <1>7, <1>8, <1>9, <1>10, <1>11, <1>12, <1>13 DEF Next, Step, Returned

(* While initStations reads a fixed list it has a station for each line so  *)
(* far that names one, of the type the last obssource line gave; the list  *)
(* in station_map is that of the whole file.                               *)
THEOREM FileInvariant == Spec => []FileInv
  BY FileInitially, FilePreserved, InductiveInvariant, PTL DEF Spec

(* What a complete list says of its file. *)
LEMMA CompleteSays ==
  ASSUME FileInv, station_map.loaded, ~Dynamic, NEW n \in StationLines
  PROVE  /\ content[n] \in Lines
         /\ Len(station_map.list) = Cardinality(StationLines)
         /\ station_map.list[Position(n)] = StationOf(n)
<1>1. content \in Seq(Lines) /\ n \in 1 .. Len(content)
  BY ContentIsLines DEF FileInv, StationLines, Delivered
<1>2. Complete(station_map.list)
  BY DEF FileInv, Filled
<1> QED
  BY <1>1, <1>2 DEF Complete

(* A fixed list has the stations of its file in their order, each of the    *)
(* type of its section and with its place as its id, for every file:       *)
(* initStations adds one for every line it gets and that is not an         *)
(* obssource line, counts it with its own counter, and adds nothing else.  *)
THEOREM FixedListIsItsFile == Spec => []FixedListFollowsFile
<1>1. FileInv => FixedListFollowsFile
  <2> SUFFICES ASSUME FileInv, station_map.loaded, ~Dynamic
               PROVE  /\ Len(station_map.list) = Cardinality(StationLines)
                      /\ \A n \in StationLines :
                           /\ station_map.list[Position(n)].station_type = SectionOf(n)
                           /\ station_map.list[Position(n)].stationid = Position(n)
    BY DEF FixedListFollowsFile
  <2>1. Len(station_map.list) = Cardinality(StationLines)
    BY DEF FileInv, Filled, Complete
  <2>2. ASSUME NEW n \in StationLines
        PROVE  /\ station_map.list[Position(n)].station_type = SectionOf(n)
               /\ station_map.list[Position(n)].stationid = Position(n)
    <3>1. content[n] \in Lines /\ station_map.list[Position(n)] = StationOf(n)
      BY CompleteSays
    <3>2. StationOf(n).station_type = SectionOf(n) /\ StationOf(n).stationid = Position(n)
      BY <3>1, StationSays DEF StationOf
    <3> QED
      BY <3>1, <3>2
  <2> QED
    BY <2>1, <2>2
<1> QED
  BY <1>1, FileInvariant, PTL

(* The database is asked for a station with what its line says, for every   *)
(* block and number: putting the WMO number together and taking it apart    *)
(* again loses nothing.                                                    *)
THEOREM StationsAreAskedForAsListed == Spec => []AskedForAsListed
<1>1. FileInv => AskedForAsListed
  <2> SUFFICES ASSUME FileInv, station_map.loaded, ~Dynamic, NEW n \in StationLines, NEW s,
                      s = station_map.list[Position(n)],
                      content[n].format = "new" \/ s.station_type = WMO
               PROVE  /\ s.station_type = WMO /\ content[n].cells > 1 =>
                           AskedFor(s.wmonr) = <<content[n].block, content[n].number>>
                      /\ s.station_type = ICAO => s.ICAOid = content[n].code
                      /\ s.station_type = SHIP => s.call_sign = content[n].code
    BY DEF AskedForAsListed
  <2>1. content[n] \in Lines /\ s = StationOf(n)
    BY CompleteSays
  <2> QED
    BY <2>1, StationSays DEF StationOf
<1> QED
  BY <1>1, FileInvariant, PTL

-----------------------------------------------------------------------------
(* The list of a query. *)

(* A station of a row keeps its id and its type and is named by the row. *)
LEMMA RowSays ==
  ASSUME NEW row \in ResultRows, NEW type, NEW id, NEW s, s = RowStation(type, id, row)
  PROVE  s.stationid = id /\ s.station_type = type /\ NamedBy(s, row)
<1> DEFINE n == [InitStation EXCEPT !.station_type = type, !.stationid = id]
           attributes == {"stationid", "station_type", "lat", "lon", "height", "wmonr", "ICAOid", "call_sign"}
           wmonr == row.block * 1000 + row.number
<1>1. DOMAIN n = attributes /\ n.station_type = type /\ n.stationid = id
  BY DEF InitStation
<1>2. AskedFor(wmonr) = <<row.block, row.number>>
  BY TakenApart DEF ResultRows
<1>3. s = IF type = WMO THEN [n EXCEPT !.wmonr = wmonr, !.lat = "db", !.lon = "db", !.height = "db"]
          ELSE IF type = ICAO THEN [n EXCEPT !.ICAOid = row.code, !.lat = "db", !.lon = "db", !.height = "db"]
          ELSE [n EXCEPT !.call_sign = row.code, !.lat = "0", !.lon = "0", !.height = "0"]
  BY DEF RowStation
<1> HIDE DEF n, wmonr
<1>4. CASE type = WMO
  <2>1. s.stationid = id /\ s.station_type = type /\ s.wmonr = wmonr
    BY <1>1, <1>3, <1>4
  <2> QED
    BY <1>2, <1>4, <2>1 DEF NamedBy, WMO, ICAO, SHIP
<1>5. CASE type = ICAO
  <2>1. s.stationid = id /\ s.station_type = type /\ s.ICAOid = row.code
    BY <1>1, <1>3, <1>5 DEF WMO, ICAO
  <2> QED
    BY <1>5, <2>1 DEF NamedBy, WMO, ICAO, SHIP
<1>6. CASE type \notin {WMO, ICAO}
  <2>1. s.stationid = id /\ s.station_type = type /\ s.call_sign = row.code
    BY <1>1, <1>3, <1>6
  <2> QED
    BY <1>6, <2>1 DEF NamedBy
<1> QED
  BY <1>4, <1>5, <1>6

(* The type the lines before the query gave. *)
QueryType == SectionOf(Min(StationLines))

(* The list has the stations of its first rows. *)
Rowed ==
  /\ Len(stations) <= Len(result)
  /\ \A n \in 1 .. Len(stations) : stations[n] = RowStation(QueryType, n, result[n])

(* No station is in a list that ends early unless 1 was returned. *)
Reported == stations # <<>> /\ ret = 0 => Len(stations) = Len(result)

RowInv ==
  /\ result \in Results
  /\ Dynamic =>
       /\ pc = "read" => \A l \in Delivered : l <= lineno => content[l].obssource
       /\ pc \in {"connect", "execute", "rows"} => station_type = QueryType
       /\ Rowed
       /\ pc \in {"close", "returned"} => Reported
       /\ station_map.loaded => pc = "returned" /\ station_map.list = stations

LEMMA ResultIsRows == result \in Results => result \in Seq(ResultRows) /\ Len(result) \in Nat
<1> SUFFICES ASSUME result \in Results PROVE result \in Seq(ResultRows) /\ Len(result) \in Nat
  OBVIOUS
<1>1. result \in Seq(ResultRows)
  BY ResultsAssumption
<1> QED
  BY <1>1

LEMMA NothingRowed == result \in Results /\ stations = <<>> => Rowed /\ Reported
  BY ResultIsRows, EmptyIsList DEF Rowed, Reported

LEMMA RowInitially == Init => RowInv
<1> SUFFICES ASSUME Init PROVE RowInv
  OBVIOUS
<1>1. ~station_map.loaded /\ stations = <<>> /\ pc = "open" /\ result \in Results
  BY DEF Init, NotLoaded
<1> QED
  BY <1>1, NothingRowed DEF RowInv

(* Nothing but the query stands behind the obssource lines. *)
LEMMA QueryTypeHere ==
  ASSUME lineno \in Nat, lineno + 1 \in Delivered, ~content[lineno + 1].obssource,
         \A l \in Delivered : l <= lineno => content[l].obssource
  PROVE  QueryType = SectionOf(lineno + 1)
<1>1. lineno + 1 \in StationLines /\ \A l \in StationLines : l \in Nat /\ lineno + 1 <= l
  BY DEF StationLines, Delivered
<1>2. Min(StationLines) = lineno + 1
  BY <1>1 DEF Min
<1> QED
  BY <1>2 DEF QueryType

LEMMA RowPreserved == IInv /\ FileInv /\ RowInv /\ [Next]_vars => RowInv'
<1> SUFFICES ASSUME IInv, FileInv, RowInv, [Next]_vars, Dynamic PROVE RowInv'
  BY ContentStays DEF RowInv, Dynamic
<1>1. content' = content /\ result' = result
  BY ContentStays
<1>2. result \in Results /\ result \in Seq(ResultRows) /\ Len(result) \in Nat
  BY ResultIsRows DEF RowInv
<1>3. Delivered' = Delivered /\ Dynamic' /\ QueryType' = QueryType
  BY <1>1, SameFile DEF QueryType, Delivered, StationLines, Dynamic, SectionOf, Naming
<1>4. /\ IsList(stations) /\ Len(stations) = j
      /\ pc \notin {"rows", "close", "returned"} => stations = <<>>
  BY DEF IInv, Counted
<1>5. /\ pc = "read" => \A l \in Delivered : l <= lineno => content[l].obssource
      /\ pc \in {"connect", "execute", "rows"} => station_type = QueryType
      /\ Rowed
      /\ pc \in {"close", "returned"} => Reported
      /\ station_map.loaded => pc = "returned" /\ station_map.list = stations
  BY DEF RowInv
<1>6. ASSUME UNCHANGED stations PROVE Rowed' /\ (UNCHANGED ret /\ Reported => Reported')
  BY <1>1, <1>3, <1>5, <1>6 DEF Rowed, Reported
<1>7. /\ pc = "read" => lineno \in Nat /\ station_type = SectionOf(lineno + 1)
                        /\ (good <=> lineno + 1 \in Delivered)
  BY DEF FileInv, Reading
<1>8. CASE OpenFile
  <2>1. /\ pc = "open" /\ pc' \in {"read", "returned"} /\ lineno' = lineno /\ stations' = stations /\ ret' = ret
        /\ station_map' = station_map /\ lineno = 0 /\ stations = <<>>
    BY <1>4, <1>8 DEF OpenFile, listing, FileInv, Reading
  <2>2. Reported
    BY <1>2, <2>1, NothingRowed
  <2>3. \A l \in Delivered : ~(l <= 0)
    BY DEF Delivered
  <2> QED
    BY <1>1, <1>2, <1>3, <1>5, <1>6, <2>1, <2>2, <2>3 DEF RowInv
<1>9. CASE ReadObssource
  <2>1. /\ pc = "read" /\ good /\ content[lineno + 1].obssource /\ lineno' = lineno + 1
        /\ UNCHANGED <<pc, stations, ret, station_map>>
    BY <1>9 DEF ReadObssource, GetLine, Line, listing
  <2>2. \A l \in Delivered : l <= lineno + 1 => content[l].obssource
    <3>1. \A l \in Delivered : l \in Nat /\ (l <= lineno + 1 => l <= lineno \/ l = lineno + 1)
      BY <1>7, <2>1 DEF Delivered
    <3> QED
      BY <1>5, <2>1, <3>1
  <2> QED
    BY <1>1, <1>2, <1>3, <1>5, <1>6, <2>1, <2>2 DEF RowInv
<1>10. CASE ReadStation
  BY <1>10 DEF ReadStation
<1>11. CASE ReadQuery
  <2>1. /\ pc = "read" /\ good /\ ~content[lineno + 1].obssource /\ pc' = "connect"
        /\ UNCHANGED <<stations, ret, station_type, station_map>>
    BY <1>11 DEF ReadQuery, GetLine, Line, listing
  <2>2. station_type' = QueryType
    BY <1>5, <1>7, <2>1, QueryTypeHere
  <2> QED
    BY <1>1, <1>2, <1>3, <1>5, <1>6, <2>1, <2>2 DEF RowInv
<1>12. CASE ReadEnd
  <2>1. pc = "read" /\ pc' = "close" /\ stations = <<>> /\ UNCHANGED <<stations, ret, station_map>>
    BY <1>4, <1>12 DEF ReadEnd, listing
  <2>2. Reported
    BY <1>2, <2>1, NothingRowed
  <2> QED
    BY <1>1, <1>2, <1>3, <1>5, <1>6, <2>1, <2>2 DEF RowInv
<1>13. CASE CloseFile
  <2>1. /\ pc = "close" /\ pc' = "returned" /\ UNCHANGED <<stations, ret>>
        /\ station_map' = [loaded |-> TRUE, list |-> stations]
    BY <1>13 DEF CloseFile, listing
  <2> QED
    BY <1>1, <1>2, <1>3, <1>5, <1>6, <2>1 DEF RowInv
<1>14. CASE Connect \/ ConnectRetry
  <2>1. /\ pc = "connect" /\ pc' \in {"connect", "execute"}
        /\ UNCHANGED <<stations, ret, station_type, station_map>>
    BY <1>14 DEF Connect, ConnectRetry, reading
  <2> QED
    BY <1>1, <1>2, <1>3, <1>5, <1>6, <2>1 DEF RowInv
<1>15. CASE ConnectFail
  <2>1. pc = "connect" /\ pc' = "close" /\ stations' = <<>> /\ UNCHANGED <<stations, station_map>>
    BY <1>4, <1>15 DEF ConnectFail
  <2>2. Reported'
    BY <2>1 DEF Reported
  <2> QED
    BY <1>1, <1>2, <1>3, <1>5, <1>6, <2>1, <2>2 DEF RowInv
<1>16. CASE Execute
  <2>1. /\ pc = "execute" /\ pc' \in {"rows", "close"} /\ stations' = <<>>
        /\ UNCHANGED <<stations, station_type, station_map>>
    BY <1>4, <1>16 DEF Execute, Disconnect, reading
  <2>2. Reported'
    BY <2>1 DEF Reported
  <2> QED
    BY <1>1, <1>2, <1>3, <1>5, <1>6, <2>1, <2>2 DEF RowInv
<1>17. CASE ReadRow
  <2> DEFINE s == RowStation(station_type, j + 1, result[j + 1])
  <2>1. /\ pc = "rows" /\ j < Len(result) /\ stations' = Append(stations, s)
        /\ UNCHANGED <<pc, station_type, station_map>>
    BY <1>17 DEF ReadRow, reading
  <2>2. s = RowStation(QueryType, j + 1, result[j + 1])
    BY <1>5, <2>1
  <2> HIDE DEF s
  <2>3. /\ Len(stations') = j + 1 /\ j \in Nat
        /\ \A n \in 1 .. j : stations'[n] = stations[n]
        /\ stations'[j + 1] = s
    BY <1>4, <2>1, AppendToList
  <2>4. ASSUME NEW n \in 1 .. j + 1 PROVE stations'[n] = RowStation(QueryType, n, result[n])
    <3>1. CASE n = j + 1
      BY <2>2, <2>3, <3>1
    <3>2. CASE n # j + 1
      <4>1. n \in 1 .. j
        BY <2>3, <3>2
      <4> QED
        BY <1>4, <1>5, <2>3, <4>1 DEF Rowed
    <3> QED
      BY <3>1, <3>2
  <2>5. Rowed'
    BY <1>1, <1>2, <1>3, <2>1, <2>3, <2>4 DEF Rowed
  <2> QED
    BY <1>1, <1>2, <1>3, <1>5, <2>1, <2>5 DEF RowInv
<1>18. CASE QueryFail
  <2>1. pc \in {"execute", "rows"} /\ pc' = "close" /\ ret' = 1 /\ UNCHANGED <<stations, station_map>>
    BY <1>18 DEF QueryFail, Disconnect
  <2>2. Reported'
    BY <2>1 DEF Reported
  <2> QED
    BY <1>1, <1>2, <1>3, <1>5, <1>6, <2>1, <2>2 DEF RowInv
<1>19. CASE RowsEnd
  <2>1. pc = "rows" /\ pc' = "close" /\ j = Len(result) /\ UNCHANGED <<stations, station_map>>
    BY <1>19 DEF RowsEnd, Disconnect
  <2>2. Reported'
    BY <1>1, <1>4, <2>1 DEF Reported
  <2> QED
    BY <1>1, <1>2, <1>3, <1>5, <1>6, <2>1, <2>2 DEF RowInv
<1>20. CASE UNCHANGED vars
  <2>1. UNCHANGED <<pc, lineno, stations, ret, station_type, station_map>>
    BY <1>20 DEF vars
  <2> QED
    BY <1>1, <1>2, <1>3, <1>5, <1>6, <2>1 DEF RowInv
<1> QED
  BY <1>8, <1>9, <1>10, <1>11, <1>12, <1>13, <1>14, <1>15, <1>16, <1>17, <1>18, <1>19, <1>20
  DEF Next, Step, GetStationList, Returned

(* While getStationList goes through its rows the list is that of the rows   *)
(* so far, of the type the file gave before the query; what is left of it   *)
(* when a row throws is reported.                                          *)
THEOREM RowInvariant == Spec => []RowInv
  BY RowInitially, RowPreserved, InductiveInvariant, FileInvariant, PTL DEF Spec

(* A list from a query is a beginning of the rows, whichever of them threw,  *)
(* for every result of any length and every number of retries: the          *)
(* stations stand in the order of the rows, numbered by them, and a list    *)
(* that was cut short behind its first row made getStationList return 1.    *)
THEOREM QueriedListIsItsRows == Spec => []QueriedListFollowsRows
<1>1. RowInv => QueriedListFollowsRows
  <2> SUFFICES ASSUME RowInv, station_map.loaded, Dynamic
               PROVE  LET list == station_map.list IN
                      /\ Len(list) <= Len(result)
                      /\ \A n \in 1 .. Len(list) :
                           /\ list[n].stationid = n
                           /\ list[n].station_type = SectionOf(Min(StationLines))
                           /\ NamedBy(list[n], result[n])
                      /\ list # <<>> /\ ret = 0 => Len(list) = Len(result)
    BY DEF QueriedListFollowsRows
  <2>1. station_map.list = stations /\ Rowed /\ Reported
    BY DEF RowInv
  <2>2. result \in Seq(ResultRows) /\ Len(result) \in Nat
    BY ResultIsRows DEF RowInv
  <2>3. ASSUME NEW n \in 1 .. Len(stations)
        PROVE  /\ stations[n].stationid = n
               /\ stations[n].station_type = QueryType
               /\ NamedBy(stations[n], result[n])
    <3>1. stations[n] = RowStation(QueryType, n, result[n])
      BY <2>1 DEF Rowed
    <3>2. n \in 1 .. Len(result)
      BY <2>1, <2>2 DEF Rowed
    <3>3. result[n] \in ResultRows
      BY <2>2, <3>2
    <3> QED
      BY <3>1, <3>3, RowSays
  <2> QED
    BY <2>1, <2>3 DEF Rowed, Reported, QueryType
<1> QED
  BY <1>1, RowInvariant, PTL
=============================================================================
