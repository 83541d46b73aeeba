SPECIFICATION Spec
CONSTANTS
  Keys = {k1, k2}
  Clients = {c1}
  Vals = {"short", "long"}
  Commands <- MCCommands
  Sets <- MCSets
  PagesOf <- MCPagesOf
  Pages = 2
  MaxThreads = 1
  MaxJobs = 2
  FlushWaiting = FALSE
  SwapWhileSaving = FALSE
  SeekFails = FALSE
SYMMETRY Alike
VIEW UsedPages
INVARIANTS ValuesSurvive SavedValuesSurvive JobsMatchKeys
