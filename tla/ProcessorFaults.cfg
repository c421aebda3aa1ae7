SPECIFICATION Spec
CONSTANTS
  e1 = e1
  e2 = e2
  e3 = e3
  w1 = w1
  w2 = w2
  p = p
  q = q
  Events <- MCEvents
  Workers = {w1}
  Plugins = {p, q}
  Key <- MCKey
  User <- MCUser
  Accepts <- MCAccepts
  Flaky = {q}
  ChannelBuffer = 1
  BatchSize = 2
  Deduplicator = "redis"
  KeysExpire = TRUE
  None = None
INVARIANTS TypeOK FanOut DuplicateHasOriginal

