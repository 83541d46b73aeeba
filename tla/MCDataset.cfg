SPECIFICATION Spec
CONSTANTS
  Places <- MCPlaces
  Elements <- MCElements
  Integers64 <- MCIntegers64
  Long <- MCLong
  Collation <- MCCollation
  Commands <- MCCommands
  Subjects = {"strings", "sets", "hashes", "zsets", "keys", "sort"}
  Timed = {"keys"}
  MaxTime = 2
  MaxBytes = 3
  MaxIntset = 1
  MaxZipmap = 1
  MaxZiplist = 1
  MaxScore = 1
  MaxPending = 1
  MaxItems = 2
  Eviction = "volatile"
  NoSortStored = FALSE
  DumpOfExpired = FALSE
INVARIANTS
  WellFormed
  SlaveFollows
  FileFollows
PROPERTY WatchersAreTold
CHECK_DEADLOCK FALSE
