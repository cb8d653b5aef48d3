CONSTANTS
  Window = 1
  OpenBy = 1
  Mss = 1
  Seqs = 6
  Isn = 4
  Iss = 4
  GuestBytes = 3
  HostBytes = 3
  Room = 1
  InRoom = 2
  RxRoom = 2
SPECIFICATION Spec
PROPERTIES Served
CHECK_DEADLOCK FALSE
