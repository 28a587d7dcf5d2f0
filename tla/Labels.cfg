SPECIFICATION FairSpec
CONSTANTS
  Temp <- MCTwoTemps
  Hot = 82
  Enter = 90
  Exit = 85
  MinDuration = 1
  Lookahead = 1
  QueueMax = 1
  MaxTime = 4
INVARIANTS TypeOK HotIsTrue
PROPERTIES TrimsOnlySettled EveryVectorLabelled
