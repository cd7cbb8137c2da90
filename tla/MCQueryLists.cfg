SPECIFICATION ListsSpec
CONSTANTS
  k1 = k1
  k2 = k2
  Keys <- MCKeys
  PageSizes <- MCPageSizes
  MaxId = 3
  MaxTime = 2
SYMMETRY KeySymmetry
INVARIANTS
  BrowseComplete
  PagesPartition
PROPERTIES
  CursorExact
  DeletesShown
