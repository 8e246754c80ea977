SPECIFICATION Spec
CONSTANTS
  Clients = {"c1", "c2"}
  Servers = {s1, s2}
  NickOf <- MCNickOf
  PassOf <- MCPassOf
  Channels = {"#a"}
  Unhashable = {}
  Silent = {}
  Faults = {"kill", "net", "db"}
  None = None
SYMMETRY ServerSymmetry
CHECK_DEADLOCK FALSE
INVARIANTS
  
  WelcomeAfterLogin
  RowBeforeThread
