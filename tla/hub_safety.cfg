SPECIFICATION Spec
CONSTANTS
  board = board
  other = other
  daemon = daemon
  again = again
  a1 = a1
  p1 = p1
  n1 = n1
  Nothing = Nothing
  Clients <- Everyone
  Addresses <- OneAddress
  Projects <- OneProject
  Nodes <- OneNode
  addressOf <- SameAddress
  scopeOf <- Scope
  nodeOf <- Node
  MaxClients = 2
  MaxPerAddress = 1
  SendBuffer = 1
  BroadcastBuffer = 2
  RelayBuffer = 1
  CanStop = TRUE
  MaxEvents = 2
  MaxRelays = 0
INVARIANTS
  RegisteredAreOpen
  LimitsRespected
PROPERTIES
  RefinesStreams
CHECK_DEADLOCK FALSE
