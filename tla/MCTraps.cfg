CONSTANTS
  Lines <- MCLines
  VsLines = {"VSTI"}
  Mideleg = {"SEI", "STI", "VSTI"}
  Hideleg = {"VSTI"}
  Causes = {"ecallM", "ecallS", "fault"}
  Medeleg = {"ecallS", "fault"}
  Hedeleg = {"fault"}
  LpModes = {"VS"}
  Written = {"mpp", "mpv", "spp", "spv"}
SPECIFICATION Spec
INVARIANTS
  TypeOK
  InterruptsRight
PROPERTY ImplementsContexts
