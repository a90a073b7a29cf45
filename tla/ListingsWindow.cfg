CONSTANTS
  Requests <- OrdinaryListings
  Times <- SomeTimes
  Since = 24
  MaxId = 3
  Last = 171
  Limit = 2
SPECIFICATION Spec
INVARIANTS
  ListedInItsWindow
