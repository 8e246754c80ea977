SPECIFICATION Spec
CONSTANTS
  Clients = {"c1", "c2", "c3"}
  Servers = {s1}
  NickOf <- MCNickOf
  PassOf <- MCPassOf
  Channels = {"#a"}
  Unhashable = {}
  Silent = {"c1"}
  Faults = {}
  None = None
CHECK_DEADLOCK FALSE
PROPERTIES
  EveryoneIsAnswered
  CtrlCQuits
