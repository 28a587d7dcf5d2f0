SPECIFICATION WorkingSpec
CONSTANTS
  Mode <- MCMode
  Default = "cool"
  Off = "off"
  Lease = {"fan"}
PROPERTIES FollowsIntent
