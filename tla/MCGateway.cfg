SPECIFICATION GatewaySpec
CONSTANTS
  Clients = {c1, c2, c3}
  Authorized = {c1, c2}
  MaxConnections = 2
  BodyPermits = 1
  MaxRequests = 2
  MaxInits = 2
  MaxErrors = 1
INVARIANTS
  GatewayInv WholeWorkspace
PROPERTIES
  BacklogServed
CHECK_DEADLOCK FALSE
