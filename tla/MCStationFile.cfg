SPECIFICATION Spec
CONSTANTS
  Contents <- MCContents
  Queries <- MCQueries
  Results <- MCResults
  MaxRetries = 2
INVARIANTS
  FixedListFollowsFile
  QueriedListFollowsRows
  AskedForAsListed
  ConnectionClosed
PROPERTY
  LoadReturns
