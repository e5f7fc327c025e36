----------------------------- MODULE MCRoaddata -----------------------------
EXTENDS Roaddata, TLC

(* Objects, files and times are interchangeable: no definition tells one    *)
(* from another.                                                           *)
MCSymmetry ==
  Permutations(Objects) \cup Permutations(ParameterFiles) \cup Permutations(StationFiles)
    \cup Permutations(DatabaseFiles) \cup Permutations(Times)
=============================================================================
