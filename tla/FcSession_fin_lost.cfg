SPECIFICATION FairSpec
CONSTANTS
  c1 = c1
  c2 = c2
  Clients = {c1}
  ClientConnections <- One
  num_connections = 1
  Transports = {"rc"}
  num_iterations = 1
  rx_queue_len = 1
  tx_queue_len = 1
  Faults = {"flush"}
PROPERTIES
  EverybodyReturns
