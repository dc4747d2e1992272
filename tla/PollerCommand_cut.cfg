CONSTANTS
  a1 = a1
  a2 = a2
  NoAddress = NoAddress
  Address = {a1, a2}
  CutAs = a1
  READ_TRIES = 2
  MaxChanges = 2
  Switches = 2
  SNMP_TIME = 1
  RELEASE_TIME = 3
  READ_PAUSE = 1
  Period = 2
  WatchdogSec = 8
SPECIFICATION Spec
INVARIANT ToldWasThere
