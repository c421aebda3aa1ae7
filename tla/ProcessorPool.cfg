SPECIFICATION Spec
CONSTANTS
  e1 = e1
  e2 = e2
  e3 = e3
  w1 = w1
  w2 = w2
  p = p
  q = q
  Events <- MCEvents
  Workers = {w1, w2}
  Plugins = {p}
  Key <- MCKey
  User <- MCUser
  Accepts <- MCAccepts
  Flaky = {p}
  ChannelBuffer = 1
  BatchSize = 2
  Deduplicator = "none"
  KeysExpire = FALSE
  None = None
INVARIANTS Conservation DrainedShutdown PerWorkerOrder
PROPERTY ImplementsLedger
SYMMETRY WorkersAlike
