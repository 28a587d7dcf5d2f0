SPECIFICATION Spec
CONSTANTS
  MinCount = 2
  Window = 2
  MinFit = 2
  MinConsecutive = 2
  MinGap = 2
  CheckEvery = 1
  MaxSince = 2
  MaxFrame = 4
  MaxGen = 3
INVARIANTS TypeOK StatsFitIndex
PROPERTIES AtomicSwap DriftAnswered
