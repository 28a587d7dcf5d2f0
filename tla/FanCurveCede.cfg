SPECIFICATION Spec
CONSTANTS
  Curve <- MCCurve
  Factory = 51
  GameCurve = 179
  DefaultBase = 200
  Lift <- MCLift
PROPERTY CedesOnlyToOthers
