CONSTANTS
  Requests <- ListingsAndTours
  Times <- SomeTimes
  Since = 24
  MaxId = 3
  Last = 171
  Limit = 2
SPECIFICATION Spec
INVARIANTS
  ListedWasAsked
  FreeIsOffered
PROPERTIES
  AskedIsListed
