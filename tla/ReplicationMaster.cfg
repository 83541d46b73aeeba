CONSTANTS
  Clients = {c1, c2}
  Dbs = {0}
  MaxWrites = 3
  NoDump = NoDump
  DiskFails = TRUE
  ForkFails = FALSE
  HasSavePoints = TRUE
  ShutdownFails = FALSE
SPECIFICATION Spec
INVARIANT OnlineSlavesFollow
PROPERTY SyncIsAnswered
