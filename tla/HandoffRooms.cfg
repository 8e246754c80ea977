SPECIFICATION Spec
CONSTANTS
  Conns = {c1, c2}
  Channels = {chA}
  NoConn = NoConn
  NoChan = NoChan
PROPERTIES
  RoomCanBeEntered
