SPECIFICATION Spec
CONSTANTS
  Conns = {1, 2}
  MaxMsgs = 1
  Leavers = {2}
  Idle = {}
  Window = 0
  Faults = {}
INVARIANTS
  ChannelSurvivesLeaving
