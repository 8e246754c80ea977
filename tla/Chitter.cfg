SPECIFICATION Spec
CONSTANTS
  NULL = NULL
  Threw = Threw
  NoNode = NoNode
  Blank = Blank
  Throws = Throws
  NoCall = NoCall
  Broken = Broken
  server = server
  other = other
  Programs = {server, other}
  Servers = {server}
  Users = {"ann", "bob"}
  Texts = {"p", "q"}
  Calls <- MCCalls
  Databases <- MCDatabases
  Documents <- MCDocuments
  Login <- MCLogin
  MaxCalls <- MCMaxCalls
  MaxTime = 1
CHECK_DEADLOCK FALSE
INVARIANTS
  FriendsAreMutual
  
PROPERTIES
  CallsAreAtomic
