SPECIFICATION FairSpec
CONSTANTS
  Threads = {t1, t2, t3}
  NumRegions = 2
  Sizes = {0, 1}
INVARIANTS
  TypeOK
  JoinedMeansDone
  KeysMatch
PROPERTIES
  BothEnd
