\* User names: three connections, two names.
SPECIFICATION Spec
CONSTANTS
  MaxClients = 3
  n1 = n1
  n2 = n2
  main = main
  Names = {n1, n2}
  NoName = NoName
  Rooms = {main}
  MainRoom = main
  Capacity = 1
  MaxCounted = 2
  RequestTypes <- NameRequests
  CountedTypes <- NameCounted
SYMMETRY Symmetry
CHECK_DEADLOCK FALSE
INVARIANTS
  NamesAgree
  RequestAccounted
  ViewInSync
PROPERTIES
  DirectorySpec
