SPECIFICATION Spec
CONSTANTS
  Files      <- MCFiles
  Board      <- MCBoard
  Unreadable = Unreadable
  Index      = {1, 2}
  Host       = {"h1", "h2"}
  Port       = {2, 3}
  None       = None
  Wrong      = Wrong
  LegacyHost = LegacyHost
  Sites      <- MCSites
  Requests   <- MCRequests
INVARIANTS TypeOK SentToABoard SentIfOffered NoPolicyNoService NotSwitchedUnheld
CHECK_DEADLOCK FALSE
