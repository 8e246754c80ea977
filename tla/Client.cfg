SPECIFICATION Spec
CONSTANTS
  Clients = {a, b}
  Channels = {chA, chB}
  None = None
  Garbled = Garbled
  MaxTyped <- OneTypes
  MaxSessions <- OneSwitches
  a = a
  b = b
  Odd = {b}
  Faults = {"stop", "refuse"}
INVARIANTS
  TypeOK
  RepliesInPlace
  HearsEveryWord
  TopicIsCurrent
  NamesItsChannel
  MembersAreThere
PROPERTIES
  
  GetsToChat
CHECK_DEADLOCK FALSE
