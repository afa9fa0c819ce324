SPECIFICATION BridgeSpec
CONSTANTS
  s1 = s1
  s2 = s2
  Studios <- MCStudios
  MaxTries = 2
  MaxOffers = 2
  MaxConnects = 2
  MaxRuns = 1
  MaxTroubles = 2
CHECK_DEADLOCK FALSE
SYMMETRY MCSymmetry
INVARIANTS
  BridgeInv
PROPERTIES
  OnlyItsPluginEndsIt
