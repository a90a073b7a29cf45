CONSTANTS
  Places = {p1, p2, p3, p4}
  Pages <- BothPages
SPECIFICATION Spec

  
PROPERTIES
  PositionStays
