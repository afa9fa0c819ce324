SPECIFICATION FairSpec
CONSTANTS
  panel = panel
  launcher = launcher
  Clients <- MCClients
  MaxOps = 3
INVARIANTS
  StateIsNewestOutcome
  LifecycleInv
PROPERTIES
  ResultsAreTrue
  ImplementsLifecycle
  OperationsEnd
CHECK_DEADLOCK FALSE
