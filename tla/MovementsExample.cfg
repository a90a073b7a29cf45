CONSTANTS
  Handlers = {h1, h2}
  Requests <- MCExample
  Precision = 10
  MaxColumn = 90
  Strict = FALSE
  Throws = TRUE
  MaxRuns = 3
SPECIFICATION Spec
SYMMETRY Symmetry
INVARIANT ReadFindsWhatWasPushed
CHECK_DEADLOCK FALSE
