\* Progress: two connections that go on asking for ever.
SPECIFICATION FairSpec
CONSTANTS
  MaxClients = 2
  n1 = n1
  main = main
  Names = {n1}
  NoName = NoName
  Rooms = {main}
  MainRoom = main
  Capacity = 1
  MaxCounted = 2
  RequestTypes <- TalkRequests
  CountedTypes <- TalkCounted
CHECK_DEADLOCK FALSE
PROPERTIES
  RequestAnswered
  NameReleased
  RoomMessageHeard
  ShutdownReachesIdle
