SPECIFICATION SysSpec
CONSTANTS
  panel = panel
  launcher = launcher
  Clients <- MCClients
  MaxOps = 2
  InOrder = TRUE
  MaxFaults = 0
  MaxCalls = 3
SYMMETRY ClientSymmetry
INVARIANTS
  TargetGoneWhenStopped
CHECK_DEADLOCK FALSE
