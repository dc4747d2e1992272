SPECIFICATION FairSpec
CONSTANTS
  Index       = 1
  Files       <- Rebuilds
  Ports       = 5
  HouseVlan   = 5
  HousePort   = 5
  MaxEdits    = 2
  MaxFailures = 2
INVARIANTS TypeOK NeverStranded NothingRefused Served ShownAsSet
PROPERTIES PathFirst OnlyItsOwn GetsThere
