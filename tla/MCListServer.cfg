SPECIFICATION Spec
CONSTANTS
  Clients = {c1, c2, c3}
  Transactors = {c1}
  Keys = {a, b, d}
  Values = {v, w}
  WaitKeys = {a, d}
  TargetKeys = {b}
  WatchKeys = {a}
  BatchKeys = {b}
  MaxLength = 2
  MaxQueue = 1
  NoKey = NoKey
SYMMETRY Interchangeable
INVARIANTS
  NobodyWaitsForAvailable
  ReplicaFollows
  AbortHasACause
PROPERTIES
  ExecNeverBlocks
  WatchedChangeIsNoticed
