CONSTANTS
  a1 = a1
  a2 = a2
  NoAddress = NoAddress
  Address = {a1, a2}
  CutAs = a2
  READ_TRIES = 2
  MaxChanges = 3
  Switches = 2
  SNMP_TIME = 1
  RELEASE_TIME = 2
  READ_PAUSE = 1
  Period = 1
  WatchdogSec = 7
SPECIFICATION FairSpec
INVARIANTS TypeOK Fed
PROPERTIES ToldUnlessTorn AllToldInTheEnd
