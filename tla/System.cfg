\* One client, another peer, four commands.
SPECIFICATION SystemSpec
CONSTANTS
  MaxClients = 2
  n1 = n1
  n2 = n2
  main = main
  Names = {n1, n2}
  NoName = NoName
  Rooms = {main}
  MainRoom = main
  Capacity = 1
  MaxCounted = 0
  RequestTypes <- SystemRequests
  CountedTypes <- SystemCounted
  MaxActions = 4
  MaxPushed = 4
  Commands <- UserCommands
  Asks <- AsksUsers
  PeerTypes <- PeersRegister
SYMMETRY Symmetry
CHECK_DEADLOCK FALSE
INVARIANTS
  NameHeld
PROPERTIES
  ClientSpec
  ServerSpec
