----------------------------- MODULE ListLemmas -----------------------------
(***************************************************************************)
(* Lemmas about lists that are filled one entry at a time from the lines   *)
(* of a file or the columns of a row: what appending keeps, and at which   *)
(* position of the list a line of a set of lines ends up.                  *)
(***************************************************************************)
EXTENDS Integers, Sequences, FiniteSets, FiniteSetTheorems, SequenceTheorems,
        WellFoundedInduction, TLAPS

(* A sequence, of whatever its entries are. *)
IsList(list) == \E S : list \in Seq(S)

LEMMA EmptyIsList == IsList(<<>>) /\ Len(<<>>) = 0
<1>1. <<>> \in Seq({}) /\ Len(<<>>) = 0
  OBVIOUS
<1> QED
  BY <1>1 DEF IsList

LEMMA AppendToList ==
  ASSUME NEW list, IsList(list), NEW e
  PROVE  /\ IsList(Append(list, e))
         /\ Len(list) \in Nat
         /\ Len(Append(list, e)) = Len(list) + 1
         /\ \A n \in 1 .. Len(list) : Append(list, e)[n] = list[n]
         /\ Append(list, e)[Len(list) + 1] = e
<1>1. PICK S : list \in Seq(S)
  BY DEF IsList
<1> DEFINE T == S \cup {e}
<1>2. list \in Seq(T)
  <2>1. list \in [1 .. Len(list) -> S] /\ Len(list) \in Nat
    BY <1>1
  <2>2. list \in [1 .. Len(list) -> T]
    BY <2>1
  <2> QED
    BY <2>1, <2>2, SeqDef
<1>3. Append(list, e) \in Seq(T)
  BY <1>2
<1> QED
  BY <1>2, <1>3 DEF IsList

(* The lines of a set up to line n. *)
UpTo(lines, n) == {l \in lines : l <= n}

LEMMA UpToIsFinite ==
  ASSUME NEW lines \in SUBSET Nat, NEW n \in Nat
  PROVE  IsFiniteSet(UpTo(lines, n)) /\ Cardinality(UpTo(lines, n)) \in Nat
<1>1. IsFiniteSet(0 .. n)
  BY FS_Interval
<1>2. UpTo(lines, n) \in SUBSET (0 .. n)
  <2>1. \A l \in UpTo(lines, n) : l \in Nat /\ l <= n
    BY DEF UpTo
  <2> QED
    BY <2>1
<1>3. IsFiniteSet(UpTo(lines, n))
  BY <1>1, <1>2, FS_Subset
<1> QED
  BY <1>3, FS_CardinalityType

(* The next line counts if it is one of the set. *)
LEMMA CountNext ==
  ASSUME NEW lines \in SUBSET Nat, NEW n \in Nat
  PROVE  Cardinality(UpTo(lines, n + 1)) =
           Cardinality(UpTo(lines, n)) + (IF n + 1 \in lines THEN 1 ELSE 0)
<1>0. \A l \in lines : l \in Nat /\ (l <= n + 1 <=> l <= n \/ l = n + 1)
  OBVIOUS
<1>1. IsFiniteSet(UpTo(lines, n)) /\ Cardinality(UpTo(lines, n)) \in Nat
  BY UpToIsFinite
<1>2. CASE n + 1 \in lines
  <2>1. UpTo(lines, n + 1) = UpTo(lines, n) \cup {n + 1}
    BY <1>0, <1>2 DEF UpTo
  <2>2. n + 1 \notin UpTo(lines, n)
    BY DEF UpTo
  <2>3. Cardinality(UpTo(lines, n) \cup {n + 1}) = Cardinality(UpTo(lines, n)) + 1
    BY <1>1, <2>2, FS_AddElement
  <2> QED
    BY <1>2, <2>1, <2>3
<1>3. CASE n + 1 \notin lines
  <2>1. UpTo(lines, n + 1) = UpTo(lines, n)
    BY <1>0, <1>3 DEF UpTo
  <2> QED
    BY <1>1, <1>3, <2>1
<1> QED
  BY <1>2, <1>3

(* A line of the set is counted in what it ends up at, from 1. *)
LEMMA CountWithin ==
  ASSUME NEW lines \in SUBSET Nat, NEW m \in Nat, NEW n \in lines, n <= m
  PROVE  Cardinality(UpTo(lines, n)) \in 1 .. Cardinality(UpTo(lines, m))
<1>1. /\ IsFiniteSet(UpTo(lines, n)) /\ Cardinality(UpTo(lines, n)) \in Nat
      /\ IsFiniteSet(UpTo(lines, m)) /\ Cardinality(UpTo(lines, m)) \in Nat
  BY UpToIsFinite
<1>2. UpTo(lines, n) \in SUBSET UpTo(lines, m)
  <2>1. \A l \in lines : l \in Nat /\ (l <= n => l <= m)
    OBVIOUS
  <2> QED
    BY <2>1 DEF UpTo
<1>3. Cardinality(UpTo(lines, n)) <= Cardinality(UpTo(lines, m))
  BY <1>1, <1>2, FS_Subset
<1>4. Cardinality(UpTo(lines, n)) # 0
  <2>1. n \in UpTo(lines, n)
    BY DEF UpTo
  <2> QED
    BY <1>1, <2>1, FS_EmptySet
<1> QED
  BY <1>1, <1>3, <1>4

(* A line that is not of the set changes nothing. *)
LEMMA SkipLine ==
  ASSUME NEW lines \in SUBSET Nat, NEW n \in Nat, n + 1 \notin lines
  PROVE  UpTo(lines, n + 1) = UpTo(lines, n)
<1>1. \A l \in lines : l \in Nat /\ (l <= n + 1 <=> l <= n \/ l = n + 1)
  OBVIOUS
<1> QED
  BY <1>1 DEF UpTo

(* A line that is comes behind those before it. *)
LEMMA AddLine ==
  ASSUME NEW lines \in SUBSET Nat, NEW n \in Nat, n + 1 \in lines
  PROVE  /\ UpTo(lines, n + 1) = UpTo(lines, n) \cup {n + 1}
         /\ Cardinality(UpTo(lines, n + 1)) = Cardinality(UpTo(lines, n)) + 1
<1>1. \A l \in lines : l \in Nat /\ (l <= n + 1 <=> l <= n \/ l = n + 1)
  OBVIOUS
<1>2. UpTo(lines, n + 1) = UpTo(lines, n) \cup {n + 1}
  BY <1>1 DEF UpTo
<1> QED
  BY <1>2, CountNext

(* What is appended to the list of the lines so far moves none of them. *)
LEMMA KeptLine ==
  ASSUME NEW lines \in SUBSET Nat, NEW n \in Nat, NEW l \in UpTo(lines, n),
         NEW list, IsList(list), Len(list) = Cardinality(UpTo(lines, n)), NEW e
  PROVE  Append(list, e)[Cardinality(UpTo(lines, l))] = list[Cardinality(UpTo(lines, l))]
<1>1. l \in lines /\ l <= n
  BY DEF UpTo
<1>2. Cardinality(UpTo(lines, l)) \in 1 .. Cardinality(UpTo(lines, n))
  BY <1>1, CountWithin
<1> QED
  BY <1>2, AppendToList

-----------------------------------------------------------------------------
(* A line that is longer than the buffer ends the file: what getline gives. *)
Given(lines) == {n \in 1 .. Len(lines) : \A l \in 1 .. n - 1 : ~lines[l].long}

LEMMA GivenFirst == ASSUME NEW S, NEW lines \in Seq(S) \ {<<>>} PROVE 1 \in Given(lines)
<1>1. 1 \in 1 .. Len(lines) /\ 1 .. 1 - 1 = {}
  OBVIOUS
<1> QED
  BY <1>1 DEF Given

LEMMA GivenNext ==
  ASSUME NEW S, NEW lines \in Seq(S), NEW n \in Given(lines)
  PROVE  /\ n \in 1 .. Len(lines) /\ lines[n] \in S
         /\ n + 1 \in Given(lines) <=> ~lines[n].long /\ n < Len(lines)
<1>1. n \in 1 .. Len(lines) /\ \A l \in 1 .. n - 1 : ~lines[l].long
  BY DEF Given
<1>2. Len(lines) \in Nat /\ n \in Nat /\ lines[n] \in S
  BY <1>1
<1>3. 1 .. (n + 1) - 1 = (1 .. n - 1) \cup {n}
  BY <1>1, <1>2
<1>4. n + 1 \in 1 .. Len(lines) <=> n < Len(lines)
  BY <1>1, <1>2
<1>5. (\A l \in 1 .. (n + 1) - 1 : ~lines[l].long) <=> ~lines[n].long
  BY <1>1, <1>3
<1> QED
  BY <1>1, <1>2, <1>4, <1>5 DEF Given

LEMMA GivenEnds ==
  ASSUME NEW S, NEW lines \in Seq(S), NEW n \in Nat, n + 1 \notin Given(lines)
  PROVE  \A l \in Given(lines) : l \in Nat /\ l <= n
<1> SUFFICES ASSUME NEW l \in Given(lines), ~(l <= n) PROVE FALSE
  BY DEF Given
<1>1. l \in 1 .. Len(lines) /\ \A k \in 1 .. l - 1 : ~lines[k].long
  BY DEF Given
<1>2. n + 1 \in 1 .. Len(lines) /\ \A k \in 1 .. (n + 1) - 1 : k \in 1 .. l - 1
  BY <1>1
<1> QED
  BY <1>1, <1>2 DEF Given

-----------------------------------------------------------------------------
(* The least and the greatest element: induction without an operator.       *)

LEMMA LessIsWellFounded == IsWellFoundedOn({p \in Nat \X Nat : p[1] < p[2]}, Nat)
  BY NatLessThanWellFounded DEF OpToRel

LEMMA LeastExists ==
  ASSUME NEW T \in SUBSET Nat, T # {}
  PROVE  \E x \in T : \A y \in T : x <= y
<1> DEFINE R == {p \in Nat \X Nat : p[1] < p[2]}
<1>1. IsWellFoundedOn(R, Nat)
  BY LessIsWellFounded
<1> HIDE DEF R
<1>2. PICK x \in T : \A y \in T : ~(<<y, x>> \in R)
  BY <1>1, WFMin
<1>3. ASSUME NEW y \in T PROVE x <= y
  <2>1. y \in Nat /\ x \in Nat /\ ~(<<y, x>> \in R)
    BY <1>2
  <2>2. ~(y < x)
    BY <2>1 DEF R
  <2> QED
    BY <2>1, <2>2
<1> QED
  BY <1>3

LEMMA GreatestExists ==
  ASSUME NEW m \in Nat, NEW T \in SUBSET (0 .. m), T # {}
  PROVE  \E x \in T : \A y \in T : x >= y
<1> DEFINE below == {k \in 0 .. m : m - k \in T}
<1>1. \A t \in T : t \in 0 .. m /\ m - t \in 0 .. m /\ m - (m - t) = t
  OBVIOUS
<1>2. below \in SUBSET Nat /\ below # {}
  <2>1. PICK t : t \in T
    OBVIOUS
  <2>2. m - t \in below
    BY <1>1, <2>1
  <2> QED
    BY <2>2
<1>3. PICK k \in below : \A l \in below : k <= l
  BY <1>2, LeastExists
<1>4. ASSUME NEW t \in T PROVE m - k >= t
  <2>1. m - t \in below
    BY <1>1
  <2>2. k \in 0 .. m /\ k <= m - t
    BY <1>3, <2>1
  <2> QED
    BY <1>1, <2>2
<1>5. m - k \in T
  BY <1>3
<1> QED
  BY <1>4, <1>5
=============================================================================
