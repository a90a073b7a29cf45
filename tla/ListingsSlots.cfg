CONSTANTS
  Requests <- SomeTours
  Times <- OneTime
  Since = 24
  MaxId = 4
  Last = 171
  Limit = 1
SPECIFICATION Spec
INVARIANTS
  OfferedIsFree
