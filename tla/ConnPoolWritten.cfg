CONSTANTS
  Conns = {L, c1, c2}
  Listener = L
  NoConn = NoConn
  MaxFd = 2
  MaxClients = 2
  MaxEntries = 2
  WaitTime = 1
  Modulus = 2
  Meant = {}
SPECIFICATION FairSpec
PROPERTY LoopGoesOn
