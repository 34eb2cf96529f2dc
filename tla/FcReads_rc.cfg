SPECIFICATION FairSpec
CONSTANTS
  transport = "rc"
  num_conns = 2
  rdma_read_size = 5
  max_read_size = 2
  max_outstanding_reads = 3
  num_iterations = 2
  tx_queue_len = 2
  rx_queue_len = 1
  NUM_DCI = 2
  BitmapBits = 64
INVARIANTS
  TypeOK
  Accounting
  Balanced
  ReadAssertion
PROPERTIES
  ImplementsReadService
  Terminates
