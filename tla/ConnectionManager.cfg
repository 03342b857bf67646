SPECIFICATION FairSpec
CONSTANTS
  Clients = {t2}
  Pollers = {t1}
  Peers = {p1, p2}
  Ports = {1}
  Capacity = 1
  MaxConnections = 3
  MaxPackets = 3
  MaxFailures = 1
  None = None
INVARIANTS
  UniqueConnections
PROPERTIES
  OthersKept
  UnreadDataKept
  ShutdownAnswered
