CONSTANTS
  N = 2
  MaxTime = 1
  MaxWait = 2
  ClockMayWrap = TRUE
  Does <- LiveDoes
  CmpValues = {1}
  DeltaValues = {0}
  MieValues <- LiveMie
SPECIFICATION FairSpec
PROPERTIES
  WaitsEnd
  ClockTicks
