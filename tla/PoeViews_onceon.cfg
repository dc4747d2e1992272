SPECIFICATION Spec
CONSTANTS
  Request    = {r1, r2}
  Port       = {p1}
  Views      = {"toggle", "power"}
  Legacy     = FALSE
  OnAfterOff = 2
  OffAfterOn = 3
  OnAttempts = 2
  Patience   = 1
  Faults     = {}
  Nobody     = Nobody
INVARIANT ReleasedOnceOn
CHECK_DEADLOCK FALSE
