SPECIFICATION FairSpec
CONSTANTS
  SizeMod = 16
  MaxLen = 6
INVARIANTS
  TypeOK
  RecvContract
  OffsetCounts
PROPERTIES
  RecvReturns
