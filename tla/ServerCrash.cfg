\* A request sent before a registration was refused.
SPECIFICATION Spec
CONSTANTS
  MaxClients = 2
  n1 = n1
  n2 = n2
  main = main
  Names = {n1, n2}
  NoName = NoName
  Rooms = {main}
  MainRoom = main
  Capacity = 1
  MaxCounted = 3
  RequestTypes <- NameRequests
  CountedTypes <- NameCounted
CHECK_DEADLOCK FALSE
INVARIANTS
  NoCrash
