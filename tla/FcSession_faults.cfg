SPECIFICATION Spec
CONSTANTS
  c1 = c1
  c2 = c2
  Clients = {c1, c2}
  ClientConnections <- One
  num_connections = 2
  Transports = {"rc", "dc"}
  num_iterations = 2
  rx_queue_len = 1
  tx_queue_len = 1
  Faults = {"crash", "flush", "timewait"}
SYMMETRY Symmetry
INVARIANTS
  ClientSuccess
