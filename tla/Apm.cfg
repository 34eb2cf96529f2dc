SPECIFICATION FairSpec
CONSTANTS
  Ports = {1, 2}
  msg_count = 2
  MigrateAfter <- MC_MigrateAfter
  Faults = {"cable", "verbs"}
INVARIANTS
  TypeOK
  AlternatePaths
  ReceivePosted
  InStep
  ArmedBeforeMigrating
  MigrationLossless
PROPERTIES
  BothEnd
