CONSTANTS
  Conns = {L, c1, c2}
  Listener = L
  NoConn = NoConn
  MaxFd = 2
  MaxClients = 3
  MaxEntries = 3
  WaitTime = 1
  Modulus = 2
  Meant = {"get", "event", "close", "erase"}
SPECIFICATION Spec
INVARIANTS
  TypeOK
  PoolAccounts
  PlacedOnce
PROPERTY ImplementsPool
