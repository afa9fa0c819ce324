SPECIFICATION SysFairSpec
CONSTANTS
  panel = panel
  launcher = launcher
  Clients <- MCClients
  MaxOps = 3
  InOrder = TRUE
  MaxFaults = 2
  MaxCalls = 2
INVARIANTS
  SysInv
  SessionsAgree
  AttachmentIsNovas
PROPERTIES
  LateAttachIsDropped
  LossesAreRepaired
CHECK_DEADLOCK FALSE
