CONSTANTS
  Period = 3
  Strides <- MCStrides
  Rounds = 4
  SnapshotAt = 3
  RingRoom = 1
  FrameRoom = 1
  IncomingLimit = 2
  AlivePeriod = 4
  HostInputs = 2
  ReplayInputs = 1
  Deeds <- MCDeeds
SPECIFICATION Spec
INVARIANTS TypeOK SerialInOrder ReplayExact
