SPECIFICATION FairSpec
CONSTANTS
  Switches   = 1
  Ports      = 1
  Family     = {"v4", "v6"}
  Life       = 2
  Opers      = {"up", "down", "other"}
  MaxBackoff = 2
  Upsets     = {"unread", "tables", "missed", "release", "restart", "reboot", "wrap", "second"}
INVARIANTS TypeOK NeverBlind SiteAgrees
PROPERTIES FreshPortKept DownLeaseGoes
