CONSTANTS
  Period = 4
  SnapshotAt = 7
  HaltAt = 3
  StopAt = 9
  MaxWait = 2
  Burst = 5
  TimeValues <- MCTimeValues
  Does <- MCDoes
  Counters <- MCCounters
SPECIFICATION FairSpec
INVARIANTS TypeOK NoneMissed NoPointPassed
PROPERTIES ImplementsSteps RunEnds
CHECK_DEADLOCK FALSE
