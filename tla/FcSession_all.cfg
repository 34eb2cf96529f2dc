SPECIFICATION FairSpec
CONSTANTS
  c1 = c1
  c2 = c2
  Clients = {c1, c2}
  ClientConnections <- TwoAndOne
  num_connections = 3
  Transports = {"rc", "dc"}
  num_iterations = 2
  rx_queue_len = 2
  tx_queue_len = 2
  Faults = {}
INVARIANTS
  TypeOK
  MemoryUntilRead
  EnoughReceives
  ReadsEstablished
PROPERTIES
  EverybodyReturns
