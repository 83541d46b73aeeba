SPECIFICATION Spec
CONSTANTS
  Masters = {m1, m2}
  NoHost = NoHost
  Descriptors = {1, 2}
  SubSlaves = {s1}
  Parts = 2
  MaxWrites = 2
  MaxTroubles = 4
  SlaveofWhileConnecting = TRUE
INVARIANT LinkedDataIsMasters
