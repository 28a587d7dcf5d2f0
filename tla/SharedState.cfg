SPECIFICATION FairSpec
CONSTANTS
  Mode <- MCMode
  Default = "cool"
  Off = "off"
  Lease = {"fan"}
INVARIANTS TypeOK MirroredBetweenTicks
PROPERTIES SettledModeStays RequestSettles
