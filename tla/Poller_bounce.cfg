SPECIFICATION Spec
CONSTANTS
  Switches   = 1
  Ports      = 1
  Family     = {"v4", "v6"}
  Life       = 2
  Opers      = {"up", "down"}
  MaxBackoff = 1
  Upsets     = {}
PROPERTY BounceKeepsNew
