SPECIFICATION Spec
CONSTANTS
  Index       = 1
  Files       <- Shrinks
  Ports       = 5
  HouseVlan   = 5
  HousePort   = 5
  MaxEdits    = 1
  MaxFailures = 0
INVARIANT NeverStranded
