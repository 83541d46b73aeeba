CONSTANTS
  Dbs = {0, 1}
  MaxWrites = 2
  MaxCrashes = 2
  MaxJobs = 2
  Policies = {"always", "everysec"}
  NoSyncOnRewrite = FALSE
  NoDb = NoDb
  ShutdownLate = FALSE
  ResyncOnRewrite = FALSE
  LossAtSwitch = FALSE
SPECIFICATION Spec
INVARIANTS LogFollowsData RewriteFollowsData KeepsPromises RepliesFollowWrites
PROPERTY PostponedIsWritten
