SPECIFICATION NovaFairSpec
CONSTANTS
  launcher = launcher
  panel = panel
  closer = closer
  Clients <- MCCallers
  MaxOps = 3
  MaxAttempts = 2
  MaxPasses = 1
  MaxRuns = 2
INVARIANTS
  NovaInv
  ExecutionNeedsTarget
  SessionIsHeld
  ShutdownLeavesNothing
PROPERTIES
  ShutdownEnds
