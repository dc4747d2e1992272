SPECIFICATION Spec
CONSTANTS
  Request    = {r1, r2}
  Port       = {p1}
  Views      = {"toggle", "power", "link"}
  Legacy     = FALSE
  OnAfterOff = 2
  OffAfterOn = 3
  OnAttempts = 2
  Patience   = 1
  Faults     = {"crash", "notify", "open", "store"}
  Nobody     = Nobody
INVARIANTS TypeOK Exclusive GivesBackItsOwn HeldAsAsked LossReleases
PROPERTIES HoldNearlyFull ImplementsPortHold
CHECK_DEADLOCK FALSE
SYMMETRY Alike
