SPECIFICATION Spec
CONSTANTS
  Request    = {r1, r2}
  Port       = {p1}
  Views      = {"toggle", "power"}
  Legacy     = TRUE
  OnAfterOff = 2
  OffAfterOn = 3
  OnAttempts = 2
  Patience   = 1
  Faults     = {}
  Nobody     = Nobody
INVARIANT MaybeOffIsGivenBack
CHECK_DEADLOCK FALSE
