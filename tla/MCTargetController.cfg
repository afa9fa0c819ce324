SPECIFICATION TargetFairSpec
CONSTANTS
  MaxAttempts = 3
  MaxPasses = 2
INVARIANTS
  TargetInv
  GoneIsNotShown
PROPERTIES
  EveryMoveIsLegal
  OnlyLiveAnswersInject
  InjectionEnds
