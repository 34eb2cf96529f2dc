SPECIFICATION Spec
CONSTANTS
  transport = "dc"
  num_conns = 3
  rdma_read_size = 3
  max_read_size = 2
  max_outstanding_reads = 3
  num_iterations = 2
  tx_queue_len = 1
  rx_queue_len = 1
  NUM_DCI = 2
  BitmapBits = 64
INVARIANTS
  DciExclusive
  CqNeverOverruns
