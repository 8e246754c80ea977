SPECIFICATION Spec
CONSTANTS
  Clients = {"c1", "c3"}
  Servers = {s1}
  NickOf <- MCNickOf
  PassOf <- MCPassOf
  Channels = {"#a"}
  Unhashable = {"p"}
  Silent = {}
  Faults = {}
  None = None
CHECK_DEADLOCK FALSE
PROPERTIES
  EveryoneIsAnswered
