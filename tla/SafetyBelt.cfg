SPECIFICATION FairSpec
CONSTANTS
  fan = fan
  epp = epp
  Actuator <- MCActuator
  Guarded <- MCGuarded
  Verb <- MCVerb
  NoVerb = "none"
  Quiet = "QUIET"
  Ramp = "RAMP"
  Serves <- MCServes
  Rank <- MCRank
  Duration <- MCDuration
  Grace = 1
  Gap = 1
  Recover = 3
  MaxLag = 1
INVARIANTS TypeOK NoUnexplainedBias LeaseEndsInTime NoQuietWhenHot
PROPERTIES ExpiredLeaseSettles LeasesHonoured
