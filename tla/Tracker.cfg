CONSTANTS
  Places = {p1, p2}
  Tables = {t1, t2}
  Period = 2
  Late = 1
  Slowest = 3
SPECIFICATION FairSpec
INVARIANTS
  CallsBounded
PROPERTIES
  NeverGoesBack
  FreshWhenShown
  StaysCurrent
