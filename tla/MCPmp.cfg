SPECIFICATION PmpSpec
CONSTANTS
  h1 = h1
  h2 = h2
  Harts <- MCHarts
  Entries = 3
  Usable = 2
  PerCsr = 2
  AddrBits = 3
  Grains = {0, 2}
  Page = 16
  Bytes = {0, 8, 14, 16, 20}
  Lengths = {4, 8}
  CfgWrites <- MCCfgWrites
  AddrWrites <- MCAddrWrites
  Snapshots <- MCSnapshots
INVARIANTS
  AnswersRight
PROPERTIES
  LockedStays
