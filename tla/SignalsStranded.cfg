CONSTANTS
  N = 2
  Subs = {h1, h2}
  Mortal = {h1}
  Meddling = {h1}
  Fatal = {1}
  DieCount = 3
  MaxRaised = 2
  MaxSets = 0
  MaxForks = 0
SPECIFICATION FairSpec

PROPERTY PendingIsDespatched
CHECK_DEADLOCK FALSE
