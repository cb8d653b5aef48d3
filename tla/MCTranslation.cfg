CONSTANTS
  Hart = {h1}
  Pages = {1, 2}
  Tags = {0}
  Frames = {1, 2, 3, 4}
  Ram = {1, 2, 3}
  Screen = {2}
  Tohost = 1
  Sets = 1
  Roots = {1}
  Ptes <- MCPtes
  PmpStates <- MCPmp
  Types = {"fetch", "store"}
  Privs = {"S", "M"}
  Flags <- MCFlags
  Adue = TRUE
SPECIFICATION Spec
INVARIANTS
  TypeOK
  TlbSound
  KeptSound
  KeptAllowed
CHECK_DEADLOCK FALSE
