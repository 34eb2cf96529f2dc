SPECIFICATION FairSpec
CONSTANTS
  Clients = {c1, c2}
  Chunks = 2
  Backlog = 1
  Faults = {"crash", "io", "break"}
INVARIANTS
  TypeOK
  OneFile
  BusyAfterFailure
  Framing
PROPERTIES
  ImplementsCopyService
  ServerReturns
