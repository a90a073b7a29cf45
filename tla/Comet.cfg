CONSTANTS
  m2 = m2
  Clients = {c1}
  Messages = {m1, m2}
  Workers = {w1, w2, w3}
  Shipped = shipped
  Size <- MCSize
  MaxTime = 2
  MaxFailures = 1
SPECIFICATION FairSpec
INVARIANTS
  MissedOnlyWithinSecond
  StampsIncrease
  MixedOnlyByOverlap
  PollersBounded
PROPERTIES
  HastyRetryOnlyOnce
  ImplementsBulletin
  CatchesUp
  PostsLand
