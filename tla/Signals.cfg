CONSTANTS
  N = 2
  Subs = {h1, h2}
  Mortal = {h1}
  Meddling = {h1}
  Fatal = {1}
  DieCount = 3
  MaxRaised = 2
  MaxSets = 2
  MaxForks = 1
SPECIFICATION FairSpec
INVARIANTS NoReentry MaskBalanced LoopsBounded StrandedOnlyByDeath
PROPERTIES ReplacedInTime ImplementsDeferred PendingIsSeen
CHECK_DEADLOCK FALSE
