CONSTANTS
  People = {alice, bob}
  Places = {here, there}
  Clicks = {c1}
  Jobs = {j1, j2}
SPECIFICATION Spec
SYMMETRY Symmetry
INVARIANTS ReceivedIsOwn ReceivedIsLogged
