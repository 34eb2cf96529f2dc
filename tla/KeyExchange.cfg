SPECIFICATION FairSpec
CONSTANTS
  Programs = {"rdma_example", "rdma_test"}
  RKeys <- AnyKeys
INVARIANTS
  TypeOK
  GoodKeyDelivered
  RegionOutlivesUse
  ReadBack
PROPERTIES
  BothEnd
