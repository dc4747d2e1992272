SPECIFICATION FairSpec
CONSTANTS
  Request    = {r1, r2}
  Port       = {p1}
  Views      = {"toggle", "link"}
  Legacy     = TRUE
  OnAfterOff = 2
  OffAfterOn = 3
  OnAttempts = 1
  Patience   = 1
  Faults     = {"crash", "notify", "open"}
  Nobody     = Nobody
INVARIANT NothingSentNothingHeld
PROPERTIES OffIsFollowedByOn HoldsRunOut
CHECK_DEADLOCK FALSE
