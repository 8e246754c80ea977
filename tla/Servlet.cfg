SPECIFICATION Spec
CONSTANTS
  Conns = {1, 2, 3}
  MaxMsgs = 2
  Leavers = {2}
  Idle = {}
  Window = 0
  Faults = {"net", "kill", "db"}
INVARIANTS
  TypeOK
  OneConversation
  InSendersOrder
  GreetedFirst
  ViewsAgree
  TopicsAgree
  LogFollowsDelivery
PROPERTIES
  TopicIsDurableFirst
