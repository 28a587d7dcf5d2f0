SPECIFICATION FairSpec
CONSTANTS
  MaxTime = 5
  DayOf <- MCDays
  FramesTtl = 2
  EventsTtl = 3
  MinDuration = 1
  Reading <- MCCool
INVARIANTS TypeOK
PROPERTIES EvictsOnlyCounted LedgerKeeps CatchesUp
