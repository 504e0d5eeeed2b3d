\* Rooms: two connections, a second room to create, five requests.
SPECIFICATION Spec
CONSTANTS
  MaxClients = 2
  n1 = n1
  main = main
  side = side
  Names = {n1}
  NoName = NoName
  Rooms = {main, side}
  MainRoom = main
  Capacity = 1
  MaxCounted = 5
  RequestTypes <- RoomRequests
  CountedTypes <- RoomCounted
CHECK_DEADLOCK FALSE
INVARIANTS
  TypeOK
  RequestAccounted
  ViewInSync
  JoinedBeforeHeard
  RoomInOrder
