SPECIFICATION Spec
CONSTANTS
  Conns = {1, 2, 3}
  MaxMsgs = 1
  Leavers = {1, 3}
  Idle = {2}
  Window = 6
  Faults = {"net"}
INVARIANTS
  OnlyResetsSeparate
PROPERTIES
  JoinersAreGreeted
  MessagesAreHandled
CHECK_DEADLOCK FALSE
