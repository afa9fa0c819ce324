SPECIFICATION SysSpec
CONSTANTS
  panel = panel
  launcher = launcher
  Clients <- MCClients
  MaxOps = 2
  InOrder = TRUE
  MaxFaults = 0
  MaxCalls = 3
SYMMETRY ClientSymmetry
PROPERTIES
  LiveStartIsNotCancelled
CHECK_DEADLOCK FALSE
