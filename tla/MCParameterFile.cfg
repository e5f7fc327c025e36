SPECIFICATION Spec
CONSTANTS
  Files = {f1, f2}
  Contents <- MCContents
  Garbage = {0, 4}
INVARIANTS
  ListsFollowTheirFile
  IdsAreThoseOfTheList
PROPERTY
  OpenedIsLoaded
