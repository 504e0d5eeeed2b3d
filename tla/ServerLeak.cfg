\* A handshake that fails.
SPECIFICATION FairSpec
CONSTANTS
  MaxClients = 1
  n1 = n1
  main = main
  Names = {n1}
  NoName = NoName
  Rooms = {main}
  MainRoom = main
  Capacity = 1
  MaxCounted = 1
  RequestTypes <- TalkRequests
  CountedTypes <- TalkCounted
CHECK_DEADLOCK FALSE
PROPERTIES
  EndedSessionDropped
