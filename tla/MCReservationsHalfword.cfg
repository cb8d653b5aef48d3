CONSTANTS
  h1 = h1
  h2 = h2
  h3 = h3
  s1 = s1
  s2 = s2
  NoSet = NoSet
  Harts <- MCHarts
  Sets <- MCSets
  Svadu = FALSE
SPECIFICATION ReservationsSpec
SYMMETRY Perms
INVARIANT
  StoresEndOthers
