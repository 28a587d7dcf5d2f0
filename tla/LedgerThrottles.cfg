SPECIFICATION Spec
CONSTANTS
  MaxTime = 4
  DayOf <- MCDays
  FramesTtl = 2
  EventsTtl = 3
  MinDuration = 1
  Reading <- MCReading
INVARIANTS ThrottlesCounted
