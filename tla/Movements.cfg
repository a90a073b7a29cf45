CONSTANTS
  Handlers = {h1, h2}
  Requests <- MCRequests
  Precision = 10
  MaxColumn = 90
  Strict = TRUE
  Throws = TRUE
  MaxRuns = 3
SPECIFICATION Spec
SYMMETRY Symmetry
INVARIANTS
  GeopherHasPositron
  RowsAreCounted
  AnsweredIsStored
  AnsweredIsFound
  RetriesUnseen
CHECK_DEADLOCK FALSE
