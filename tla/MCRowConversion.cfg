SPECIFICATION Spec
CONSTANTS
  Workers = {w1, w2}
  ParamLists <- MCParamLists
  Rows <- MCRows
SYMMETRY MCSymmetry
INVARIANTS
  ColumnsInTheirUnit
  ColumnsComplete
  RawCopiesInTheirUnit
