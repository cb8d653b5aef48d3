CONSTANTS
  Devices = {"net", "input", "snd"}
  Streams <- MCStreams
  Wrap <- MCWrap
  Size <- MCSize
  Room = 1
  Items = 2
SPECIFICATION Spec
INVARIANTS TypeOK NoneTwiceNoneMissing NoneLeftBehind NoneUnheard
PROPERTIES ImplementsChains
