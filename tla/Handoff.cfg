SPECIFICATION Spec
CONSTANTS
  Conns = {c1, c2, c3}
  Channels = {chA, chB}
  NoConn = NoConn
  NoChan = NoChan
INVARIANTS
  OneOwner
  UserComesWithSocket
  RightChannelOnce
  NoLostWakeup
  OrphanOnlyAfterDeath
  IInv
PROPERTIES
  ImplementsJoinSpec
  
  
