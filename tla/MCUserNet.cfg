CONSTANTS
  Window = 2
  OpenBy = 1
  Mss = 1
  Seqs = 8
  Isn = 6
  Iss = 6
  GuestBytes = 3
  HostBytes = 3
  Room = 2
  InRoom = 2
  RxRoom = 2
SPECIFICATION Spec
INVARIANTS TypeOK StreamsInOrder NeverOverrun
PROPERTIES OverWhenWritten
CHECK_DEADLOCK FALSE
