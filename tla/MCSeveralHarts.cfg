CONSTANTS
  N = 2
  MaxTime = 3
  MaxWait = 2
  ClockMayWrap = FALSE
  Does <- MCDoes
  CmpValues = {0, 3}
  DeltaValues = {0, 2}
  MieValues <- MCMie
  h1 = h1
  h2 = h2
  h3 = h3
  s1 = s1
  s2 = s2
  NoSet = NoSet
  Harts <- MCHarts
  Sets <- MCSets
  Svadu = FALSE
SPECIFICATION SeveralSpec
INVARIANTS
  TypeOK
  IrqCacheSound
  ReservationsTypeOK
  ReservedCounts
  WatchingEnough
PROPERTY ImplementsRounds
CHECK_DEADLOCK FALSE
