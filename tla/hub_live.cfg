SPECIFICATION FairSpec
CONSTANTS
  board = board
  other = other
  daemon = daemon
  again = again
  a1 = a1
  p1 = p1
  n1 = n1
  Nothing = Nothing
  Clients <- BoardAndDaemon
  Addresses <- OneAddress
  Projects = {}
  Nodes <- OneNode
  addressOf <- SameAddress
  scopeOf <- Unscoped
  nodeOf <- Node
  MaxClients = 2
  MaxPerAddress = 2
  SendBuffer = 1
  BroadcastBuffer = 1
  RelayBuffer = 1
  CanStop = FALSE
  MaxEvents = 2
  MaxRelays = 1
PROPERTIES
  RelayReachesDaemons
  PartedOnBothSides
CHECK_DEADLOCK FALSE
