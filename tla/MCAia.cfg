CONSTANTS
  N = 2
  NumIds = 2
  Sources = {1, 2}
  Aia = {TRUE, FALSE}
  Thresholds = {0, 2}
  TargetValues <- MCTargets
  Configured = {1}
  Uses <- MCUses
SPECIFICATION Spec
INVARIANTS
  TypeOK
  TopIsFirst
  LineSeenMsi
PROPERTIES
  ChangesCounted
  ClaimedInTurn
