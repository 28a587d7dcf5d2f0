INIT MCInit
NEXT MCNext
CONSTANTS
  Horizon = 2
  RefreshEvery = 1
  Durations <- MCDurations
  Grace = 1
  RearmGap = 1
  Recover = 1
  Cutoff = 1
  MaxWindows = 3
  MaxGap = 1
  MaxLag = 1
  MaxLatency = 1
  MaxFails = 1
  MaxWait = 3
  MaxLines = 2
  MaxSamples = 7
  Residuals <- MCResiduals
  EntryN = 2
  ExitN = 2
  NegN = 3
  MaxStream = 8
  Frames <- MCFrames
  NoTemp = 99
  PlateauWindow = 3
  MaxFrames = 6
  NoTempR <- MCNoTemp
  ShortN = 2
  TopK = 20
  Scenes <- MCScenes
INVARIANTS WellTyped FlaggedWhenControlled StaleBound KeepsNewest LearnsInOrder StreamsAsDefined RespondsSoundly
