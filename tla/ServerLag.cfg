\* A room task that falls behind.
SPECIFICATION Spec
CONSTANTS
  MaxClients = 2
  n1 = n1
  n2 = n2
  main = main
  Names = {n1, n2}
  NoName = NoName
  Rooms = {main}
  MainRoom = main
  Capacity = 1
  MaxCounted = 4
  RequestTypes <- RoomRequests
  CountedTypes <- RoomCounted
CHECK_DEADLOCK FALSE
INVARIANTS
  JoinedRoomHasReceiver
