CONSTANTS
  Size = 4
  Capacity = 2
SPECIFICATION FairSpec
INVARIANTS PageMeansMailed RefusedMailsNothing CutOnlyByDeath NothingLeft NeverBothWait
PROPERTY RequestEnds
CHECK_DEADLOCK FALSE
